------------------------ MODULE DdsCommandPathProofs ------------------------
(***************************************************************************)
(* What the actuators accept, for any number of axes, groups, servos,      *)
(* publications and host sessions.  The inductive invariant speaks of all  *)
(* samples there are, on their way, staged or accepted: a timestamp names  *)
(* one publication, and timestamps order the sessions.                     *)
(***************************************************************************)
EXTENDS DdsCommandPath, TLAPS

Sent == UNION {sent[t] : t \in Topics}
Held == {commands[a] : a \in Axes} \cup {ingress[a] : a \in Axes} \cup {servo[t] : t \in Servos}
Pool == {None} \cup Sent \cup Held

\* The functions keep their domains; a publication has begun while one is written.
Shape ==
    /\ session \in Nat \ {0} /\ stamp \in Nat /\ command_sequence \in Nat
    /\ writing \in Nat /\ (writing # 0 => stamp # 0)
    /\ sent = [t \in Topics |-> sent[t]] /\ commands = [a \in Axes |-> commands[a]]
    /\ ingress = [a \in Axes |-> ingress[a]] /\ servo = [t \in Servos |-> servo[t]]

\* No sample comes from the future, one that bears the current timestamp during
\* a publication is of that publication, and only None bears none.
Past ==
    \A s \in Pool :
        /\ s \in Sample
        /\ s.stamp <= stamp /\ s.session <= session
        /\ writing # 0 /\ s.stamp = stamp => s = Current
        /\ s.stamp = 0 => s = None

Ordered ==
    \A s, r \in Pool :
        /\ s.stamp = r.stamp => s = r
        /\ s.stamp <= r.stamp => s.session <= r.session

PathInv == Shape /\ Past /\ Ordered /\ AcceptedIsOnePublication

LEMMA TopicFacts ==
    /\ Axes \subseteq Topics /\ Commits \subseteq Topics /\ Servos \subseteq Topics
    /\ 1 \in Axes
  BY ShapeAssumption DEF Axes, Commits, Servos, Topics, NTopics

LEMMA NoneIsSample ==
    None \in Sample /\ None.session = 0 /\ None.stamp = 0
  BY DEF None, Sample

LEMMA PathInit == Init => PathInv
  <1> SUFFICES ASSUME Init PROVE PathInv
    OBVIOUS
  <1>1. Pool = {None}
    BY DEF Init, Pool, Sent, Held
  <1>2. Shape
    BY DEF Init, Shape
  <1>3. Past /\ Ordered
    BY <1>1, NoneIsSample DEF Past, Ordered, Init
  <1>4. AcceptedIsOnePublication
    BY DEF Init, AcceptedIsOnePublication
  <1> QED BY <1>2, <1>3, <1>4 DEF PathInv

\* A step that makes no sample keeps what holds of all of them.
LEMMA PoolShrinks ==
    ASSUME Shape, Past, Ordered, Pool' \subseteq Pool,
           stamp <= stamp', session <= session', stamp' \in Nat, session' \in Nat,
           writing' # 0 => \/ Current' = Current /\ writing # 0
                           \/ stamp < stamp'
    PROVE  Past' /\ Ordered'
  <1>1. Past'
    <2> SUFFICES ASSUME NEW s \in Pool'
                 PROVE  /\ s \in Sample
                        /\ s.stamp <= stamp' /\ s.session <= session'
                        /\ writing' # 0 /\ s.stamp = stamp' => s = Current'
                        /\ s.stamp = 0 => s = None
      BY Zenon DEF Past
    <2>1. /\ s \in Sample /\ s.stamp <= stamp /\ s.session <= session
          /\ writing # 0 /\ s.stamp = stamp => s = Current
          /\ s.stamp = 0 => s = None
      BY Zenon DEF Past
    <2>2. s.stamp \in Nat /\ s.session \in Nat /\ stamp \in Nat /\ session \in Nat
      BY <2>1, Zenon DEF Sample, Shape
    <2>3. Current' = Current => stamp' = stamp
      BY Zenon DEF Current
    <2>4. s.stamp <= stamp' /\ s.session <= session'
      BY <2>1, <2>2
    <2>5. writing' # 0 /\ s.stamp = stamp' => s = Current'
      BY <2>1, <2>2, <2>3
    <2> QED BY <2>1, <2>4, <2>5, Zenon
  <1>2. Ordered'
    BY Zenon DEF Ordered
  <1> QED BY <1>1, <1>2

\* A publication adds its own sample only.
LEMMA PoolGrows ==
    ASSUME Shape, Past, Ordered, writing # 0, Pool' \subseteq Pool \cup {Current},
           UNCHANGED <<stamp, session, command_sequence>>
    PROVE  Past' /\ Ordered'
  <1>1. Current' = Current
    BY DEF Current, NextSequence
  <1>2. /\ Current \in Sample /\ Current.stamp = stamp /\ Current.session = session
        /\ stamp \in Nat \ {0} /\ session \in Nat
    BY DEF Current, Sample, NextSequence, Shape
  <1> HIDE DEF Current
  <1>3. \A s \in Pool \cup {Current} :
            /\ s \in Sample /\ s.stamp \in Nat /\ s.session \in Nat
            /\ s.stamp <= stamp /\ s.session <= session
            /\ s.stamp = stamp => s = Current
            /\ s.stamp = 0 => s = None
    <2> TAKE s \in Pool \cup {Current}
    <2>1. CASE s \in Pool
      BY <2>1, Zenon DEF Past, Sample
    <2>2. CASE s = Current
      BY <1>2, <2>2
    <2> QED BY <2>1, <2>2, Zenon
  <1>4. Past'
    BY <1>1, <1>3, Zenon DEF Past
  <1>5. Ordered'
    <2> SUFFICES ASSUME NEW s \in Pool \cup {Current}, NEW r \in Pool \cup {Current}
                 PROVE  /\ s.stamp = r.stamp => s = r
                        /\ s.stamp <= r.stamp => s.session <= r.session
      BY Zenon DEF Ordered
    <2>1. CASE s \in Pool /\ r \in Pool
      BY <2>1, Zenon DEF Ordered
    <2>2. CASE r = Current
      BY <1>2, <1>3, <2>2, Zenon
    <2>3. CASE s = Current
      BY <1>2, <1>3, <2>3
    <2> QED BY <2>1, <2>2, <2>3, Zenon
  <1> QED BY <1>4, <1>5

\* reader.take() of topic t only removes samples.
LEMMA TakesShrinks ==
    ASSUME Shape, NEW t \in Topics, NEW s, Takes(t, s)
    PROVE  Sent' \subseteq Sent /\ sent' = [u \in Topics |-> sent'[u]]
  <1>1. sent' = [sent EXCEPT ![t] = {r \in @ : r.session # s.session \/ r.stamp > s.stamp}]
    BY DEF Takes
  <1>2. \A u \in Topics : sent'[u] \subseteq sent[u]
    BY <1>1, Zenon DEF Shape
  <1>3. sent' = [u \in Topics |-> sent'[u]]
    BY <1>1, Zenon DEF Shape
  <1> QED BY <1>2, <1>3 DEF Sent

\* What was staged, accepted or taken is a sample.
LEMMA HeldInPool ==
    /\ \A a \in Axes : commands[a] \in Pool /\ ingress[a] \in Pool
    /\ \A t \in Servos : servo[t] \in Pool
    /\ \A t \in Topics : sent[t] \subseteq Pool
  BY Zenon DEF Pool, Held, Sent

\* A set that valid_snapshot admits is one publication.
LEMMA SnapshotIsOne ==
    ASSUME Ordered, NEW e, valid_snapshot(e)
    PROVE  \A a, b \in Axes : commands[a] = commands[b]
  <1>1. \A a \in Axes : commands[a].stamp = commands[1].stamp
    BY Zenon DEF valid_snapshot
  <1> QED BY <1>1, HeldInPool DEF Ordered

\* A step of the worker, from what it does to the four places of a sample.
LEMMA WorkerKeeps ==
    ASSUME PathInv, UNCHANGED hostVars, Pool' \subseteq Pool,
           sent' = [t \in Topics |-> sent'[t]], commands' = [a \in Axes |-> commands'[a]],
           ingress' = [a \in Axes |-> ingress'[a]], servo' = [t \in Servos |-> servo'[t]],
           AcceptedIsOnePublication'
    PROVE  PathInv'
  <1>1. Shape'
    BY Zenon DEF PathInv, Shape, hostVars
  <1>2. /\ stamp \in Nat /\ session \in Nat
        /\ UNCHANGED <<stamp, session, writing, command_sequence>>
    BY Zenon DEF PathInv, Shape, hostVars
  <1>3. Current' = Current
    BY <1>2, Zenon DEF Current, NextSequence
  <1>4. stamp <= stamp' /\ session <= session' /\ stamp' \in Nat /\ session' \in Nat
    BY <1>2
  <1>5. Past' /\ Ordered'
    BY <1>2, <1>3, <1>4, PoolShrinks, Zenon DEF PathInv
  <1> QED BY <1>1, <1>5 DEF PathInv

LEMMA TakeAxisKeeps ==
    ASSUME PathInv, NEW a \in Axes, take_axis(a)
    PROVE  PathInv'
  <1>1. PICK s \in sent[a] \cup {None} :
            /\ Takes(a, s)
            /\ commands' = IF s = None THEN commands ELSE [commands EXCEPT ![a] = s]
            /\ UNCHANGED <<ingress, servo>>
    BY Zenon DEF take_axis, groupVars
  <1>2. a \in Topics /\ Shape
    BY TopicFacts DEF PathInv
  <1>3. Sent' \subseteq Sent /\ sent' = [u \in Topics |-> sent'[u]]
    BY <1>1, <1>2, TakesShrinks
  <1>4. s \in Pool
    BY <1>2, HeldInPool DEF Pool
  <1>5. /\ commands' = [b \in Axes |-> commands'[b]]
        /\ \A b \in Axes : commands'[b] \in Pool
    BY <1>1, <1>2, <1>4, HeldInPool, Zenon DEF Shape
  <1>6. Pool' \subseteq Pool
    BY <1>1, <1>3, <1>5, Zenon DEF Pool, Held
  <1>7. AcceptedIsOnePublication'
    BY <1>1 DEF PathInv, AcceptedIsOnePublication
  <1>8. UNCHANGED hostVars
    BY <1>1, Zenon DEF Takes
  <1>9. /\ ingress' = [b \in Axes |-> ingress'[b]]
        /\ servo' = [t \in Servos |-> servo'[t]]
    BY <1>1, <1>2, Zenon DEF Shape
  <1> QED BY <1>3, <1>5, <1>6, <1>7, <1>8, <1>9, WorkerKeeps

\* What a commit does to the ingress.
LEMMA CommitAccepts ==
    ASSUME NEW t \in Commits, take_commit(t)
    PROVE  /\ UNCHANGED ingress \/ (ingress' = commands /\ \E e : Accepts(e))
           /\ UNCHANGED <<commands, servo>>
           /\ \E s : Takes(t, s)
  BY Zenon DEF take_commit, stage_ethercat_epoch

LEMMA TakeCommitKeeps ==
    ASSUME PathInv, NEW t \in Commits, take_commit(t)
    PROVE  PathInv'
  <1>1. PICK s : Takes(t, s)
    BY CommitAccepts
  <1>2. t \in Topics /\ Shape
    BY TopicFacts DEF PathInv
  <1>3. Sent' \subseteq Sent /\ sent' = [u \in Topics |-> sent'[u]]
    BY <1>1, <1>2, TakesShrinks
  <1>4. UNCHANGED <<commands, servo>>
    BY CommitAccepts
  <1>5. /\ ingress' = [b \in Axes |-> ingress'[b]]
        /\ \A b \in Axes : ingress'[b] \in Pool
    BY <1>2, CommitAccepts, HeldInPool, Zenon DEF Shape
  <1>6. Pool' \subseteq Pool
    BY <1>3, <1>4, <1>5 DEF Pool, Held
  <1>7. AcceptedIsOnePublication'
    <2>1. CASE UNCHANGED ingress
      BY <2>1 DEF PathInv, AcceptedIsOnePublication
    <2>2. ASSUME ingress' = commands, NEW e, Accepts(e)
          PROVE  AcceptedIsOnePublication'
      BY <2>2, SnapshotIsOne, Zenon DEF PathInv, Accepts, AcceptedIsOnePublication
    <2> QED BY <2>1, <2>2, CommitAccepts
  <1>8. UNCHANGED hostVars
    BY <1>1 DEF Takes
  <1>9. /\ commands' = [b \in Axes |-> commands'[b]]
        /\ servo' = [u \in Servos |-> servo'[u]]
    BY <1>2, <1>4 DEF Shape
  <1> QED BY <1>3, <1>5, <1>6, <1>7, <1>8, <1>9, WorkerKeeps

LEMMA TakeServoKeeps ==
    ASSUME PathInv, NEW t \in Servos, take_servo(t)
    PROVE  PathInv'
  <1>1. PICK s \in sent[t] :
            /\ Takes(t, s)
            /\ servo' = IF InspectsServo(s, servo[t]) THEN [servo EXCEPT ![t] = s] ELSE servo
            /\ UNCHANGED <<commands, ingress>>
    BY Zenon DEF take_servo, groupVars
  <1>2. t \in Topics /\ Shape
    BY TopicFacts DEF PathInv
  <1>3. Sent' \subseteq Sent /\ sent' = [u \in Topics |-> sent'[u]]
    BY <1>1, <1>2, TakesShrinks
  <1>4. s \in Pool
    BY <1>2, HeldInPool
  <1>5. /\ servo' = [u \in Servos |-> servo'[u]]
        /\ \A u \in Servos : servo'[u] \in Pool
    BY <1>1, <1>2, <1>4, HeldInPool, Zenon DEF Shape
  <1>6. Pool' \subseteq Pool
    BY <1>1, <1>3, <1>5 DEF Pool, Held
  <1>7. AcceptedIsOnePublication'
    BY <1>1 DEF PathInv, AcceptedIsOnePublication
  <1>8. UNCHANGED hostVars
    BY <1>1, Zenon DEF Takes
  <1>9. /\ ingress' = [b \in Axes |-> ingress'[b]]
        /\ commands' = [b \in Axes |-> commands'[b]]
    BY <1>1, <1>2, Zenon DEF Shape
  <1> QED BY <1>3, <1>5, <1>6, <1>7, <1>8, <1>9, WorkerKeeps

\* A write adds the current sample to its topic and may drop older ones.
LEMMA PublishKeeps ==
    ASSUME PathInv, publish_commands
    PROVE  PathInv'
  <1>1. /\ writing \in Topics /\ writing' = writing + 1
        /\ UNCHANGED <<session, stamp, command_sequence, commands, ingress, servo>>
    BY Zenon DEF publish_commands, daemonVars, groupVars
  <1>2. /\ sent' = [u \in Topics |-> sent'[u]]
        /\ \A u \in Topics : sent'[u] \subseteq sent[u] \cup {Current}
    BY Zenon DEF publish_commands, PathInv, Shape
  <1>3. Pool' \subseteq Pool \cup {Current}
    BY <1>1, <1>2 DEF Pool, Held, Sent
  <1>4. writing \in Nat \ {0} /\ writing' \in Nat
    BY <1>1, ShapeAssumption DEF Topics, NTopics
  <1>5. Shape'
    BY <1>1, <1>2, <1>4, Zenon DEF PathInv, Shape
  <1>6. Past' /\ Ordered'
    BY <1>1, <1>3, <1>4, PoolGrows DEF PathInv
  <1>7. AcceptedIsOnePublication'
    BY <1>1 DEF PathInv, AcceptedIsOnePublication
  <1> QED BY <1>5, <1>6, <1>7 DEF PathInv

\* The steps of the host that write nothing.
LEMMA HostKeeps ==
    ASSUME PathInv, Restart \/ handle \/ publish_damiao_commands \/ PublicationFails
    PROVE  PathInv'
  <1> USE DEF PathInv, Shape
  <1>1. UNCHANGED <<sent, commands, ingress, servo>>
    BY Zenon DEF Restart, handle, publish_damiao_commands, PublicationFails, daemonVars, groupVars
  <1>2. Pool' \subseteq Pool /\ AcceptedIsOnePublication'
    BY <1>1 DEF Pool, Sent, Held, AcceptedIsOnePublication
  <1>3. /\ stamp <= stamp' /\ session <= session' /\ stamp' \in Nat
        /\ session' \in Nat \ {0} /\ command_sequence' \in Nat /\ writing' \in Nat
        /\ writing' # 0 => stamp < stamp' /\ stamp' # 0
    BY DEF Restart, handle, publish_damiao_commands, PublicationFails, NextSequence
  <1>4. Shape'
    BY <1>1, <1>3, Zenon
  <1>5. Past' /\ Ordered'
    BY <1>2, <1>3, PoolShrinks, Zenon
  <1> QED BY <1>2, <1>4, <1>5, Zenon

LEMMA PathStep ==
    PathInv /\ [Next]_vars => PathInv'
  <1> SUFFICES ASSUME PathInv, [Next]_vars PROVE PathInv'
    OBVIOUS
  <1>1. CASE Host
    BY <1>1, HostKeeps, PublishKeeps DEF Host
  <1>2. CASE Worker
    BY <1>2, TakeAxisKeeps, TakeCommitKeeps, TakeServoKeeps DEF Worker
  <1>3. CASE UNCHANGED vars
    <2>1. UNCHANGED <<hostVars, sent, commands, ingress, servo>>
      BY <1>3 DEF vars, daemonVars, groupVars
    <2>2. Pool' \subseteq Pool /\ AcceptedIsOnePublication'
      BY <2>1 DEF Pool, Sent, Held, PathInv, AcceptedIsOnePublication
    <2>3. /\ sent' = [t \in Topics |-> sent'[t]] /\ commands' = [a \in Axes |-> commands'[a]]
          /\ ingress' = [a \in Axes |-> ingress'[a]]
          /\ servo' = [t \in Servos |-> servo'[t]]
      BY <2>1 DEF PathInv, Shape
    <2> QED BY <2>1, <2>2, <2>3, WorkerKeeps
  <1> QED BY <1>1, <1>2, <1>3 DEF Next

LEMMA PathInvariant == Spec => []PathInv
  BY PathInit, PathStep, PTL DEF Spec

\* The axes never follow a mixture of two publications: accept_commands admits
\* one timestamp only, and a timestamp names one publication.
THEOREM OnePublication == Spec => []AcceptedIsOnePublication
  <1>1. PathInv => AcceptedIsOnePublication
    BY DEF PathInv
  <1> QED BY <1>1, PathInvariant, PTL

\* A newer timestamp is of the same session or of a later one.
LEMMA NewerSession ==
    ASSUME PathInv, NEW s \in Pool, NEW r \in Pool, r = None \/ s.stamp >= r.stamp
    PROVE  s.session >= r.session
  <1>1. s \in Sample /\ r \in Sample
    BY DEF PathInv, Past
  <1>2. s.session \in Nat /\ r.session \in Nat /\ s.stamp \in Nat /\ r.stamp \in Nat
    BY <1>1 DEF Sample
  <1>3. CASE r = None
    BY <1>2, <1>3, NoneIsSample
  <1>4. CASE s.stamp >= r.stamp
    BY <1>2, <1>4, Zenon DEF PathInv, Ordered
  <1> QED BY <1>3, <1>4

\* No actuator goes back to an earlier host session: stage_command and
\* accept_commands refuse an older timestamp.
THEOREM SessionsAdvance == Spec => OldSessionNeverReturns
  <1> DEFINE Advances == /\ \A a \in Axes : ingress'[a].session >= ingress[a].session
                         /\ \A t \in Servos : servo'[t].session >= servo[t].session
  <1>1. PathInv /\ [Next]_vars => [Advances]_vars
    <2> SUFFICES ASSUME PathInv, Next PROVE Advances
      BY Zenon
    <2>1. \A s \in Pool : s.session >= s.session
      BY DEF PathInv, Past, Sample
    <2>2. UNCHANGED ingress => \A a \in Axes : ingress'[a].session >= ingress[a].session
      BY <2>1, HeldInPool
    <2>3. UNCHANGED servo => \A t \in Servos : servo'[t].session >= servo[t].session
      BY <2>1, HeldInPool
    <2> HIDE DEF Advances
    <2>4. CASE Host
      <3>1. UNCHANGED <<ingress, servo>>
        BY <2>4, Zenon DEF Host, Restart, handle, publish_commands, publish_damiao_commands,
           PublicationFails, daemonVars
      <3> QED BY <2>2, <2>3, <3>1, Zenon DEF Advances
    <2>5. ASSUME NEW a \in Axes, take_axis(a) PROVE Advances
      <3>1. UNCHANGED <<ingress, servo>>
        BY <2>5, Zenon DEF take_axis
      <3> QED BY <2>2, <2>3, <3>1, Zenon DEF Advances
    <2>6. ASSUME NEW t \in Commits, take_commit(t) PROVE Advances
      <3>1. CASE UNCHANGED ingress
        BY <2>2, <2>3, <2>6, <3>1, CommitAccepts, Zenon DEF Advances
      <3>2. ASSUME ingress' = commands, NEW e, Accepts(e) PROVE Advances
        <4>1. \A a \in Axes : commands[a] = commands[1] /\ ingress[a] = Last
          BY <3>2, SnapshotIsOne, TopicFacts, Zenon
             DEF Accepts, PathInv, AcceptedIsOnePublication, Last
        <4>2. Last = None \/ commands[1].stamp >= Last.stamp
          BY <3>2 DEF Accepts
        <4>3. commands[1] \in Pool /\ Last \in Pool
          BY HeldInPool, TopicFacts DEF Last
        <4>4. commands[1].session >= Last.session
          BY <4>2, <4>3, NewerSession, Zenon
        <4>5. \A a \in Axes : ingress'[a].session >= ingress[a].session
          BY <3>2, <4>1, <4>4
        <4>6. UNCHANGED servo
          BY <2>6, CommitAccepts
        <4> QED BY <2>3, <4>5, <4>6, Zenon DEF Advances
      <3> QED BY <2>6, <3>1, <3>2, CommitAccepts
    <2>7. ASSUME NEW t \in Servos, take_servo(t) PROVE Advances
      <3>1. PICK s \in sent[t] :
                /\ servo' = IF InspectsServo(s, servo[t]) THEN [servo EXCEPT ![t] = s]
                            ELSE servo
                /\ UNCHANGED ingress
        BY <2>7 DEF take_servo
      <3>2. s \in Pool /\ servo[t] \in Pool
        BY HeldInPool, TopicFacts
      <3>3. CASE ~InspectsServo(s, servo[t])
        BY <2>2, <2>3, <3>1, <3>3, Zenon DEF Advances
      <3>4. CASE InspectsServo(s, servo[t])
        <4>1. s.session >= servo[t].session
          BY <3>2, <3>4, NewerSession, Zenon DEF InspectsServo
        <4>2. \A u \in Servos : servo'[u] = IF u = t THEN s ELSE servo[u]
          BY <3>1, <3>4, Zenon DEF PathInv, Shape
        <4>3. \A u \in Servos : servo'[u].session >= servo[u].session
          BY <2>1, <4>1, <4>2, HeldInPool, Zenon
        <4> QED BY <2>2, <3>1, <4>3, Zenon DEF Advances
      <3> QED BY <3>3, <3>4
    <2> QED BY <2>4, <2>5, <2>6, <2>7 DEF Next, Worker
  <1> QED BY <1>1, PathInvariant, PTL DEF Spec, OldSessionNeverReturns

-----------------------------------------------------------------------------
(* What a group has staged *)

\* The commands a group has staged are of the epoch it collects: take_axis
\* discards the others, take_commit clears the group.
THEOREM OneEpoch == Spec => [](TypeOK /\ StagedIsOneEpoch)
  <1> DEFINE Inv == TypeOK /\ StagedIsOneEpoch
  <1>1. Init => Inv
    <2> SUFFICES ASSUME Init PROVE Inv
      OBVIOUS
    <2> USE DEF Init
    <2>1. writing \in 0 .. NTopics + 1 /\ worker \in 1 .. NAxes + NGroups
      BY ShapeAssumption DEF NTopics
    <2>2. /\ sent \in [Topics -> SUBSET Sample] /\ epoch \in [Groups -> Nat]
          /\ commands \in [Axes -> Sample] /\ staged \in [Axes -> BOOLEAN]
          /\ ingress \in [Axes -> Sample] /\ servo \in [Servos -> Sample]
      BY NoneIsSample
    <2>3. StagedIsOneEpoch
      BY DEF StagedIsOneEpoch
    <2> QED BY <2>1, <2>2, <2>3, Zenon DEF TypeOK
  <1>2. Inv /\ [Next]_vars => Inv'
    <2> SUFFICES ASSUME TypeOK, StagedIsOneEpoch, [Next]_vars PROVE Inv'
      OBVIOUS
    <2> USE DEF hostVars, groupVars, daemonVars
    <2>1. CASE Host
      <3>1. StagedIsOneEpoch'
        BY <2>1, Zenon DEF Host, Restart, handle, publish_commands, publish_damiao_commands,
           PublicationFails, StagedIsOneEpoch
      <3>2. TypeOK'
        <4>1. CASE Restart \/ handle \/ publish_damiao_commands \/ PublicationFails
          <5>1. NextSequence \in Nat
            BY DEF NextSequence, TypeOK
          <5>2. session' \in Nat /\ command_sequence' \in Nat /\ stamp' \in Nat
            BY <4>1, <5>1 DEF Restart, handle, publish_damiao_commands, PublicationFails,
               TypeOK
          <5>3. begun' \subseteq Nat
            BY <4>1, <5>1, Zenon DEF Restart, handle, publish_damiao_commands, PublicationFails,
               TypeOK
          <5>4. reused' \in BOOLEAN
            <6>1. reused' = (reused \/ NextSequence \in begun) \/ UNCHANGED reused
              BY <4>1, Zenon DEF Restart, handle, publish_damiao_commands, PublicationFails
            <6> QED BY <6>1, Zenon DEF TypeOK
          <5>5. writing' \in 0 .. NTopics + 1
            BY <4>1, ShapeAssumption DEF Restart, handle, publish_damiao_commands,
               PublicationFails, NTopics
          <5>6. UNCHANGED <<sent, worker, daemonVars>>
            BY <4>1, Zenon DEF Restart, handle, publish_damiao_commands, PublicationFails
          <5> QED BY <5>2, <5>3, <5>4, <5>5, <5>6, Zenon DEF TypeOK
        <4>2. CASE publish_commands
          <5>1. Current \in Sample
            BY DEF Current, NextSequence, Sample, TypeOK
          <5>2. sent' \in [Topics -> SUBSET Sample]
            BY <4>2, <5>1 DEF publish_commands, TypeOK
          <5>3. writing' \in 0 .. NTopics + 1
            BY <4>2, ShapeAssumption DEF publish_commands, Topics, NTopics
          <5> QED BY <4>2, <5>2, <5>3, Zenon DEF publish_commands, TypeOK
        <4> QED BY <2>1, <4>1, <4>2 DEF Host
      <3> QED BY <3>1, <3>2
    <2>2. ASSUME NEW t \in Topics, NEW s, Takes(t, s), UNCHANGED early \/ early' \in Nat,
                 rejected' \in BOOLEAN, epoch' \in [Groups -> Nat],
                 commands' \in [Axes -> Sample], staged' \in [Axes -> BOOLEAN],
                 ingress' \in [Axes -> Sample], servo' \in [Servos -> Sample]
          PROVE  TypeOK'
      <3>1. sent' \in [Topics -> SUBSET Sample]
        BY <2>2, Zenon DEF Takes, TypeOK
      <3>2. worker' \in 1 .. NAxes + NGroups
        BY <2>2, ShapeAssumption DEF Takes, TypeOK, Topics, NTopics, Servos
      <3>3. UNCHANGED hostVars
        BY <2>2, Zenon DEF Takes
      <3> QED BY <2>2, <3>1, <3>2, <3>3, Zenon DEF TypeOK
    <2>3. ASSUME NEW a \in Axes, take_axis(a) PROVE Inv'
      <3>1. PICK s \in sent[a] \cup {None} :
                /\ Takes(a, s) /\ UNCHANGED <<ingress, servo, rejected, early>>
                /\ IF s = None THEN UNCHANGED groupVars
                   ELSE /\ epoch' = [epoch EXCEPT ![GroupOf[a]] = s.sequence]
                        /\ commands' = [commands EXCEPT ![a] = s]
                        /\ staged' = [StagedFor(a, s.sequence) EXCEPT ![a] = TRUE]
        BY <2>3, Zenon DEF take_axis
      <3>2. a \in Topics /\ s \in Sample /\ s.sequence \in Nat /\ GroupOf[a] \in Groups
        BY TopicFacts, NoneIsSample, ShapeAssumption DEF TypeOK, Sample
      <3>3. StagedFor(a, s.sequence) \in [Axes -> BOOLEAN]
        BY Zenon DEF StagedFor, TypeOK
      <3>4. CASE s = None
        BY <2>2, <3>1, <3>2, <3>4, Zenon DEF TypeOK, StagedIsOneEpoch
      <3>5. CASE s # None
        <4>1. /\ epoch' = [epoch EXCEPT ![GroupOf[a]] = s.sequence]
              /\ commands' = [commands EXCEPT ![a] = s]
              /\ staged' = [StagedFor(a, s.sequence) EXCEPT ![a] = TRUE]
          BY <3>1, <3>5, Zenon
        <4>2. /\ epoch' \in [Groups -> Nat] /\ commands' \in [Axes -> Sample]
              /\ staged' \in [Axes -> BOOLEAN]
          BY <3>2, <3>3, <4>1, Zenon DEF TypeOK
        <4>3. TypeOK'
          BY <2>2, <3>1, <3>2, <4>2, Zenon DEF TypeOK
        <4>4. ASSUME NEW b \in Axes, staged'[b]
              PROVE  commands'[b].sequence = epoch'[GroupOf[b]]
          <5>1. CASE b = a
            BY <3>2, <4>1, <5>1, Zenon DEF TypeOK
          <5>2. CASE b # a
            <6>1. commands'[b] = commands[b] /\ StagedFor(a, s.sequence)[b]
              BY <3>3, <4>1, <4>4, <5>2, Zenon DEF TypeOK
            <6>2. GroupOf[b] \in Groups /\ staged[b]
              BY <6>1, ShapeAssumption, Zenon DEF StagedFor
            <6>3. GroupOf[b] = GroupOf[a] => epoch[GroupOf[a]] = s.sequence
              BY <6>1, Zenon DEF StagedFor
            <6>4. epoch'[GroupOf[b]] = epoch[GroupOf[b]]
              BY <3>2, <4>1, <6>2, <6>3, Zenon DEF TypeOK
            <6> QED BY <6>1, <6>2, <6>4, Zenon DEF StagedIsOneEpoch
          <5> QED BY <5>1, <5>2, Zenon
        <4> QED BY <4>3, <4>4, Zenon DEF StagedIsOneEpoch
      <3> QED BY <3>4, <3>5
    <2>4. ASSUME NEW t \in Commits, take_commit(t) PROVE Inv'
      <3>1. PICK s \in sent[t] \cup {None} :
                /\ Takes(t, s) /\ UNCHANGED <<epoch, commands, servo>>
                /\ \/ /\ stage_ethercat_epoch(CommitGroup(t), s.sequence)
                      /\ staged' = [a \in Axes |-> GroupOf[a] # CommitGroup(t) /\ staged[a]]
                      /\ UNCHANGED early
                   \/ /\ early' = IF s = None THEN early ELSE s.stamp
                      /\ UNCHANGED <<staged, ingress, rejected>>
        BY <2>4, Zenon DEF take_commit
      <3>2. t \in Topics /\ s \in Sample /\ s.stamp \in Nat
        BY TopicFacts, NoneIsSample DEF TypeOK, Sample
      <3>3. /\ early' \in Nat /\ staged' \in [Axes -> BOOLEAN]
            /\ rejected' \in BOOLEAN /\ ingress' \in [Axes -> Sample]
        BY <3>1, <3>2, Zenon DEF stage_ethercat_epoch, TypeOK
      <3>4. \A a \in Axes : staged'[a] => staged[a]
        BY <3>1, Zenon
      <3>5. TypeOK'
        BY <2>2, <3>1, <3>2, <3>3, Zenon DEF TypeOK
      <3> QED BY <3>1, <3>4, <3>5, Zenon DEF StagedIsOneEpoch
    <2>5. ASSUME NEW t \in Servos, take_servo(t) PROVE Inv'
      <3>1. PICK s \in sent[t] :
                /\ Takes(t, s) /\ UNCHANGED <<groupVars, ingress, rejected, early>>
                /\ servo' = IF InspectsServo(s, servo[t]) THEN [servo EXCEPT ![t] = s]
                            ELSE servo
        BY <2>5, Zenon DEF take_servo
      <3>2. t \in Topics /\ s \in Sample
        BY TopicFacts, Zenon DEF TypeOK
      <3>3. servo' \in [Servos -> Sample]
        BY <3>1, <3>2, Zenon DEF TypeOK
      <3> QED BY <2>2, <3>1, <3>2, <3>3, Zenon DEF TypeOK, StagedIsOneEpoch
    <2>6. CASE UNCHANGED vars
      BY <2>6, Zenon DEF vars, TypeOK, StagedIsOneEpoch
    <2> QED BY <2>1, <2>3, <2>4, <2>5, <2>6 DEF Next, Worker
  <1> QED BY <1>1, <1>2, PTL DEF Spec

-----------------------------------------------------------------------------
(* Without reuse of a sequence number *)

\* As long as no number was used twice, publications count 1, 2, 3, ..., a
\* sample's number is its timestamp, and one host has written them all.
Fresh ==
    ~reused =>
        /\ begun = 1..stamp
        /\ command_sequence <= stamp
        /\ writing # 0 => stamp = NextSequence
        /\ \A s \in Pool : s.sequence = s.stamp
        /\ \A s, r \in Pool : s # None /\ r # None => s.session = r.session
        /\ writing # 0 \/ command_sequence # 0
              => \A s \in Pool : s # None => s.session = session

\* The publication under way has not come to topic t.
Unwritten(t) == writing # 0 /\ writing <= t

Queues ==
    \A t \in Topics : \A s \in sent[t] :
        s # None /\ (Unwritten(t) => s.stamp # stamp)

\* A commit of the whole robot that is still to be taken is newer than what the
\* ingress has accepted.
CommitsAhead ==
    ~reused =>
        /\ ~rejected
        /\ \A t \in Commits : Members(CommitGroup(t)) = Axes =>
              /\ \A s \in sent[t] : s.stamp > Last.stamp
              /\ Unwritten(t) => Last.stamp < stamp

\* The newest sample of topic t is still to be written or to be taken.
Underway(t) == Unwritten(t) \/ \E s \in sent[t] : s.stamp = stamp

\* The host that is running began the last publication, and it has not failed.
Running == writing # 0 \/ (command_sequence = stamp /\ stamp # 0)

Delivery ==
    ~reused /\ Running =>
        /\ \A t \in Topics : sent[t] # {} => Underway(t)
        /\ \A t \in Servos : Underway(t) \/ servo[t].stamp = stamp
        /\ (\E g \in Groups : Members(g) = Axes)
              => Last.stamp = stamp \/ early = stamp \/ \E t \in Commits : Underway(t)

EmptyGroups == \A g \in Groups : Members(g) = {} => epoch[g] = 0

\* A number once reused stays reused; handle notices when it takes one again.
LEMMA ReuseIsKept ==
    ASSUME [Next]_vars, ~reused'
    PROVE  ~reused /\ (handle => NextSequence \notin begun)
  <1>1. CASE handle
    <2>1. reused' = (reused \/ NextSequence \in begun)
      BY <1>1 DEF handle
    <2> QED BY <2>1, Zenon
  <1>2. CASE ~handle
    <2>1. UNCHANGED reused
      BY <1>2, Zenon DEF Next, Host, Restart, publish_commands, publish_damiao_commands,
         PublicationFails, Worker, take_axis, take_commit, take_servo, Takes, vars, hostVars
    <2> QED BY <1>2, <2>1
  <1> QED BY <1>1, <1>2

\* The worker and the host leave each other's variables alone.
LEMMA HostFrame ==
    ASSUME Host
    PROVE  UNCHANGED <<worker, daemonVars>>
  BY Zenon DEF Host, Restart, handle, publish_commands, publish_damiao_commands, PublicationFails

LEMMA WorkerFrame ==
    ASSUME Worker
    PROVE  UNCHANGED hostVars
  BY Zenon DEF Worker, take_axis, take_commit, take_servo, Takes

\* What a take leaves in the topics.
LEMMA TakesLeaves ==
    ASSUME Shape, NEW t \in Topics, NEW s, Takes(t, s)
    PROVE  /\ sent'[t] = {r \in sent[t] : r.session # s.session \/ r.stamp > s.stamp}
           /\ \A u \in Topics : u # t => sent'[u] = sent[u]
  BY Zenon DEF Takes, Shape

\* What a write leaves in them.
LEMMA WriteLeaves ==
    ASSUME Shape, publish_commands
    PROVE  /\ writing \in Topics /\ writing' = writing + 1
           /\ Current \in sent'[writing] /\ sent'[writing] \subseteq sent[writing] \cup {Current}
           /\ \A u \in Topics : u # writing => sent'[u] = sent[u]
           /\ UNCHANGED <<session, stamp, command_sequence, begun, daemonVars>>
  BY Zenon DEF publish_commands, Shape

\* Only a write makes a sample.
LEMMA PoolMoves ==
    ASSUME PathInv, [Next]_vars
    PROVE  /\ publish_commands => Pool' \subseteq Pool \cup {Current}
           /\ ~publish_commands => Pool' \subseteq Pool
  <1>0. Shape
    BY DEF PathInv
  <1>1. CASE publish_commands
    <2>1. \A u \in Topics : sent'[u] \subseteq sent[u] \cup {Current}
      BY <1>0, <1>1, WriteLeaves
    <2>2. UNCHANGED <<commands, ingress, servo>>
      BY <1>1, Zenon DEF publish_commands, daemonVars, groupVars
    <2> QED BY <1>1, <2>1, <2>2 DEF Pool, Held, Sent
  <1>2. CASE Host /\ ~publish_commands
    <2>1. UNCHANGED <<sent, commands, ingress, servo>>
      BY <1>2, Zenon DEF Host, Restart, handle, publish_damiao_commands, PublicationFails, daemonVars,
         groupVars
    <2> QED BY <1>2, <2>1, Zenon DEF Pool, Held, Sent
  <1>3. CASE Worker
    <2>0. ~publish_commands
      BY <1>3, WorkerFrame, ShapeAssumption DEF publish_commands, hostVars, Topics, NTopics
    <2>1. \A u \in Topics : sent'[u] \subseteq sent[u]
      <3>1. \E t \in Topics, s \in Pool : Takes(t, s)
        BY <1>3, TopicFacts, HeldInPool, Zenon DEF Worker, take_axis, take_commit, take_servo, Pool
      <3> QED BY <1>0, <3>1, TakesLeaves, Zenon
    <2>2. /\ \A a \in Axes : commands'[a] \in Pool /\ ingress'[a] \in Pool
          /\ \A t \in Servos : servo'[t] \in Pool
      <3>1. ASSUME NEW a \in Axes, take_axis(a)
            PROVE  \A b \in Axes : commands'[b] \in Pool
        <4>1. PICK s \in sent[a] \cup {None} :
                 commands' = IF s = None THEN commands ELSE [commands EXCEPT ![a] = s]
          BY <3>1, Zenon DEF take_axis, groupVars
        <4>2. s \in Pool
          BY TopicFacts, HeldInPool DEF Pool
        <4> QED BY <1>0, <4>1, <4>2, HeldInPool, Zenon DEF Shape
      <3>2. ASSUME NEW t \in Servos, take_servo(t)
            PROVE  \A u \in Servos : servo'[u] \in Pool
        <4>1. PICK s \in sent[t] :
                 servo' = IF InspectsServo(s, servo[t]) THEN [servo EXCEPT ![t] = s] ELSE servo
          BY <3>2, Zenon DEF take_servo
        <4>2. s \in Pool
          BY TopicFacts, HeldInPool
        <4> QED BY <1>0, <4>1, <4>2, HeldInPool, Zenon DEF Shape
      <3>3. ASSUME NEW t \in Commits, take_commit(t)
            PROVE  \A a \in Axes : ingress'[a] \in Pool
        BY <3>3, CommitAccepts, HeldInPool
      <3>4. /\ (\A a \in Axes : ~take_axis(a)) => UNCHANGED commands
            /\ (\A t \in Commits : ~take_commit(t)) => UNCHANGED ingress
            /\ (\A t \in Servos : ~take_servo(t)) => UNCHANGED servo
        BY <1>3, Zenon DEF Worker, take_axis, take_commit, take_servo, groupVars
      <3> QED BY <3>1, <3>2, <3>3, <3>4, HeldInPool, Zenon
    <2> QED BY <2>0, <2>1, <2>2 DEF Pool, Held, Sent
  <1>4. CASE UNCHANGED vars
    <2>0. ~publish_commands
      BY <1>4, ShapeAssumption DEF publish_commands, vars, hostVars, Topics, NTopics
    <2>1. UNCHANGED <<sent, commands, ingress, servo>>
      BY <1>4 DEF vars, daemonVars, groupVars
    <2> QED BY <2>0, <2>1, Zenon DEF Pool, Held, Sent
  <1> QED BY <1>1, <1>2, <1>3, <1>4 DEF Next

LEMMA FreshStep ==
    ASSUME PathInv, Fresh, [Next]_vars
    PROVE  Fresh'
  <1> SUFFICES ASSUME ~reused'
               PROVE  /\ begun' = 1..stamp'
                      /\ command_sequence' <= stamp'
                      /\ writing' # 0 => stamp' = NextSequence'
                      /\ \A s \in Pool' : s.sequence = s.stamp
                      /\ \A s, r \in Pool' : s # None /\ r # None => s.session = r.session
                      /\ writing' # 0 \/ command_sequence' # 0
                            => \A s \in Pool' : s # None => s.session = session'
    BY Zenon DEF Fresh
  <1>0. /\ stamp \in Nat /\ command_sequence \in Nat
        /\ begun = 1..stamp /\ command_sequence <= stamp
        /\ writing # 0 => stamp = NextSequence
        /\ \A s \in Pool : s.sequence = s.stamp
        /\ \A s, r \in Pool : s # None /\ r # None => s.session = r.session
        /\ writing # 0 \/ command_sequence # 0 => \A s \in Pool : s # None => s.session = session
    BY ReuseIsKept, Zenon DEF Fresh, PathInv, Shape
  <1>1. CASE publish_commands
    <2>1. Pool' \subseteq Pool \cup {Current}
      BY <1>1, PoolMoves
    <2>2. /\ writing # 0 /\ UNCHANGED <<begun, stamp, command_sequence, session, NextSequence>>
      BY <1>1, WriteLeaves, ShapeAssumption DEF PathInv, Topics, NTopics, NextSequence
    <2>3. Current.sequence = stamp /\ Current.stamp = stamp /\ Current.session = session
      BY <1>0, <2>2, Zenon DEF Current
    <2>4. \A s \in Pool' : s.sequence = s.stamp /\ (s # None => s.session = session)
      BY <1>0, <2>1, <2>2, <2>3, Zenon
    <2> QED BY <1>0, <2>2, <2>4, Zenon
  <1>2. CASE ~publish_commands
    <2>0. Pool' \subseteq Pool
      BY <1>2, PoolMoves
    <2>1. CASE handle
      <3>1. /\ writing' = 1 /\ stamp' = stamp + 1 /\ begun' = begun \cup {NextSequence}
            /\ UNCHANGED <<session, command_sequence, NextSequence>>
        BY <2>1 DEF handle, NextSequence
      <3>2. command_sequence = stamp
        BY <1>0, <2>1, ReuseIsKept DEF NextSequence
      <3>3. NextSequence = stamp + 1
        BY <3>2 DEF NextSequence
      <3>4. begun' = 1..stamp'
        BY <1>0, <3>1, <3>3
      <3>5. \A s \in Pool : s # None => s.session = session
        <4>1. CASE stamp = 0
          BY <4>1, <1>0 DEF PathInv, Past, Sample
        <4>2. CASE stamp # 0
          BY <1>0, <3>2, <4>2, Zenon
        <4> QED BY <4>1, <4>2
      <3> QED BY <1>0, <2>0, <3>1, <3>2, <3>3, <3>4, <3>5
    <2>2. CASE Restart
      BY <1>0, <2>0, <2>2 DEF Restart
    <2>3. CASE publish_damiao_commands
      <3>1. writing # 0
        BY <2>3, ShapeAssumption DEF publish_damiao_commands, NTopics
      <3> QED BY <1>0, <2>0, <2>3, <3>1 DEF publish_damiao_commands
    <2>4. CASE PublicationFails
      BY <1>0, <2>0, <2>4, Zenon DEF PublicationFails
    <2>5. CASE Worker \/ UNCHANGED vars
      <3>1. UNCHANGED <<begun, stamp, command_sequence, writing, session, NextSequence>>
        BY <2>5, WorkerFrame DEF hostVars, vars, NextSequence
      <3> QED BY <1>0, <2>0, <3>1, Zenon
    <2> QED BY <1>2, <2>1, <2>2, <2>3, <2>4, <2>5, Zenon DEF Next, Host
  <1> QED BY <1>1, <1>2, Zenon

\* Unless it is a write, a step leaves no topic with a sample it did not have.
LEMMA TopicsShrink ==
    ASSUME PathInv, [Next]_vars, ~publish_commands
    PROVE  \A u \in Topics : sent'[u] \subseteq sent[u]
  <1>1. CASE Worker
    <2>1. \E t \in Topics, s \in Pool : Takes(t, s)
      BY <1>1, TopicFacts, HeldInPool, Zenon DEF Worker, take_axis, take_commit, take_servo, Pool
    <2> QED BY <2>1, TakesLeaves, Zenon DEF PathInv
  <1>2. CASE ~Worker
    BY <1>2, Zenon DEF Next, Host, Restart, handle, publish_damiao_commands, PublicationFails, vars
  <1> QED BY <1>1, <1>2

LEMMA QueuesStep ==
    ASSUME PathInv, Queues, [Next]_vars
    PROVE  Queues'
  <1>0. /\ stamp \in Nat /\ writing \in Nat
        /\ \A t \in Topics : \A s \in sent[t] : s.stamp \in Nat /\ s.stamp <= stamp
    BY HeldInPool, Zenon DEF PathInv, Shape, Past, Sample
  <1>1. CASE publish_commands
    <2>1. writing \in Topics /\ writing' = writing + 1 /\ stamp' = stamp /\ writing # 0
      BY <1>1, WriteLeaves, ShapeAssumption DEF PathInv, Topics, NTopics
    <2>2. \A u \in Topics : Unwritten(u)' => Unwritten(u) /\ u # writing
      BY <1>0, <2>1 DEF Unwritten, Topics
    <2>3. Current # None
      BY <2>1, Zenon DEF PathInv, Shape, Current, None
    <2>4. \A u \in Topics : sent'[u] \subseteq sent[u] \cup {Current}
                            /\ (u # writing => sent'[u] = sent[u])
      BY <1>1, WriteLeaves, Zenon DEF PathInv
    <2> QED BY <2>1, <2>2, <2>3, <2>4, Zenon DEF Queues
  <1>2. CASE ~publish_commands
    <2>1. \A u \in Topics : sent'[u] \subseteq sent[u]
      BY <1>2, TopicsShrink
    <2>2. CASE handle
      <3>1. stamp' = stamp + 1
        BY <2>2 DEF handle
      <3> QED BY <1>0, <2>1, <3>1 DEF Queues
    <2>3. CASE ~handle
      <3>1. \A u \in Topics : Unwritten(u)' => Unwritten(u) /\ stamp' = stamp
        BY <1>2, <2>3, WorkerFrame, Zenon DEF Next, Host, Restart, publish_damiao_commands,
           PublicationFails, hostVars, vars, Unwritten
      <3> QED BY <2>1, <3>1 DEF Queues
    <2> QED BY <2>2, <2>3
  <1> QED BY <1>1, <1>2

\* Everything about the samples that the two theorems below need.
SampleInv == PathInv /\ Fresh /\ Queues

LEMMA PoolTypes ==
    ASSUME PathInv
    PROVE  /\ stamp \in Nat /\ writing \in Nat
           /\ \A s \in Pool : /\ s.stamp \in Nat /\ s.stamp <= stamp
                              /\ s.stamp = 0 => s = None
  BY Zenon DEF PathInv, Shape, Past, Sample

LEMMA CommitTopics ==
    /\ \A t \in Commits : t \in Topics /\ t \in Int /\ CommitGroup(t) \in Groups
    /\ \A g \in Groups : NAxes + g \in Commits /\ CommitGroup(NAxes + g) = g
    /\ \A a \in Axes : a \notin Commits /\ a \notin Servos
    /\ \A t \in Commits : t \notin Servos
    /\ Groups # {}
  BY ShapeAssumption DEF Commits, CommitGroup, Groups, Axes, Servos, Topics, NTopics

\* There is one commit for the whole robot, or none.
LEMMA OneWhole ==
    ASSUME NEW g \in Groups, NEW h \in Groups, Members(g) = Axes
    PROVE  Members(h) = IF h = g THEN Axes ELSE {}
  BY DEF Members

LEMMA WholeTopic ==
    ASSUME NEW t \in Commits, NEW u \in Commits, Members(CommitGroup(t)) = Axes,
           Members(CommitGroup(u)) = Axes
    PROVE  t = u
  <1>1. CommitGroup(t) = CommitGroup(u)
    BY CommitTopics, OneWhole, TopicFacts
  <1>2. t \in Int /\ u \in Int /\ NAxes \in Int
    BY CommitTopics, ShapeAssumption
  <1> QED BY <1>1, <1>2 DEF CommitGroup

\* A commit of the whole robot that finds its group complete is accepted.
LEMMA WholeIsAccepted ==
    ASSUME SampleInv, StagedIsOneEpoch, CommitsAhead, ~reused,
           NEW t \in Commits, Members(CommitGroup(t)) = Axes,
           NEW s \in sent[t], CommitsGroup(CommitGroup(t), s.sequence)
    PROVE  Accepts(s.sequence) /\ commands[1].stamp = s.stamp
  <1>1. \A a \in Axes : commands[a].sequence = s.sequence
    BY Zenon DEF CommitsGroup, StagedIsOneEpoch, Members
  <1>2. /\ s \in Pool /\ Last \in Pool /\ 1 \in Axes
        /\ \A a \in Axes : commands[a] \in Pool
    BY HeldInPool, TopicFacts DEF Last
  <1>3. \A r \in Pool : r.sequence = r.stamp
    BY Zenon DEF SampleInv, Fresh
  <1>4. \A a \in Axes : commands[a].stamp = s.stamp
    BY <1>1, <1>2, <1>3, Zenon
  <1>5. valid_snapshot(s.sequence)
    BY <1>1, <1>2, <1>4, Zenon DEF valid_snapshot
  <1>6. s.stamp > Last.stamp
    BY DEF CommitsAhead
  <1>7. s.sequence > Last.sequence /\ commands[1].stamp >= Last.stamp
    BY <1>2, <1>3, <1>4, <1>6, PoolTypes DEF SampleInv
  <1> QED BY <1>2, <1>4, <1>5, <1>7, Zenon DEF Accepts

\* Of one host, a take leaves what is newer.
LEMMA TakeLeavesNewer ==
    ASSUME SampleInv, ~reused, NEW t \in Topics, NEW s \in sent[t], Takes(t, s)
    PROVE  /\ \A r \in sent[t] : r \in sent'[t] <=> r.stamp > s.stamp
           /\ sent'[t] \subseteq sent[t]
           /\ \A u \in Topics : u # t => sent'[u] = sent[u]
  <1>1. \A r \in sent[t] : r \in Pool /\ r # None
    BY HeldInPool DEF SampleInv, Queues
  <1>2. \A r \in sent[t] : r.session = s.session
    BY <1>1, Zenon DEF SampleInv, Fresh
  <1> QED BY <1>2, TakesLeaves, Zenon DEF SampleInv, PathInv

\* A take that finds nothing changes nothing.
LEMMA TakeNothing ==
    ASSUME SampleInv, NEW t \in Topics, Takes(t, None)
    PROVE  \A u \in Topics : sent'[u] = sent[u]
  <1>1. \A r \in sent[t] : r.stamp > None.stamp
    BY HeldInPool, PoolTypes, NoneIsSample DEF SampleInv, Queues
  <1> QED BY <1>1, TakesLeaves, Zenon DEF SampleInv, PathInv

LEMMA CommitsAheadStep ==
    ASSUME SampleInv, StagedIsOneEpoch, CommitsAhead, [Next]_vars
    PROVE  CommitsAhead'
  <1> SUFFICES ASSUME ~reused'
               PROVE  /\ ~rejected'
                      /\ \A t \in Commits : Members(CommitGroup(t)) = Axes =>
                            /\ \A s \in sent'[t] : s.stamp > Last'.stamp
                            /\ Unwritten(t)' => Last'.stamp < stamp'
    BY Zenon DEF CommitsAhead
  <1>0. /\ ~reused /\ ~rejected
        /\ \A t \in Commits : Members(CommitGroup(t)) = Axes =>
              /\ \A s \in sent[t] : s.stamp > Last.stamp
              /\ Unwritten(t) => Last.stamp < stamp
    BY ReuseIsKept, Zenon DEF CommitsAhead
  <1>1. Last \in Pool /\ Last.stamp \in Nat /\ Last.stamp <= stamp /\ stamp \in Nat
        /\ writing \in Nat
    BY HeldInPool, TopicFacts, PoolTypes, Zenon DEF SampleInv, Last
  <1>2. CASE publish_commands
    <2>1. UNCHANGED <<Last, stamp>> /\ writing \in Topics /\ writing' = writing + 1
          /\ UNCHANGED rejected
      BY <1>2, WriteLeaves, Zenon DEF SampleInv, PathInv, daemonVars, Last
    <2>2. writing # 0 /\ Current.stamp = stamp
      BY <2>1, ShapeAssumption DEF Current, Topics, NTopics
    <2>3. ASSUME NEW t \in Commits, Members(CommitGroup(t)) = Axes
          PROVE  /\ \A s \in sent'[t] : s.stamp > Last.stamp
                 /\ Unwritten(t)' => Last.stamp < stamp
      <3>1. t \in Topics /\ t \in Int
        BY CommitTopics
      <3>2. Unwritten(t)' => Unwritten(t)
        BY <1>1, <2>1, <2>2, <3>1 DEF Unwritten
      <3>3. CASE t = writing
        <4>1. Unwritten(t) /\ sent'[t] \subseteq sent[t] \cup {Current}
          BY <1>1, <1>2, <2>2, <3>3, WriteLeaves DEF SampleInv, PathInv, Unwritten
        <4> QED BY <1>0, <1>1, <2>2, <2>3, <4>1, Zenon
      <3>4. CASE t # writing
        <4>1. sent'[t] = sent[t]
          BY <1>2, <3>1, <3>4, WriteLeaves, Zenon DEF SampleInv, PathInv
        <4> QED BY <1>0, <2>3, <3>2, <4>1, Zenon
      <3> QED BY <3>3, <3>4, Zenon
    <2> QED BY <1>0, <2>1, <2>3, Zenon
  <1>3. CASE ~publish_commands
    <2>0. \A t \in Commits : t \in Topics /\ sent'[t] \subseteq sent[t]
      BY <1>3, TopicsShrink, CommitTopics DEF SampleInv
    <2>1. CASE handle
      <3>1. stamp' = stamp + 1 /\ UNCHANGED <<Last, rejected>>
        BY <2>1 DEF handle, daemonVars, Last
      <3> QED BY <1>0, <1>1, <2>0, <3>1
    <2>2. CASE ~handle
      <3>1. \A t \in Commits : Unwritten(t)' => Unwritten(t) /\ stamp' = stamp
        BY <1>3, <2>2, WorkerFrame, Zenon DEF Next, Host, Restart, publish_damiao_commands,
           PublicationFails, hostVars, vars, Unwritten
      <3>2. CASE UNCHANGED <<ingress, rejected>>
        <4>1. Last' = Last
          BY <3>2 DEF Last
        <4> QED BY <1>0, <2>0, <3>1, <3>2, <4>1, Zenon
      <3>3. ASSUME NEW t \in Commits, NEW s \in sent[t], s # None, Takes(t, s),
                   Members(CommitGroup(t)) = Axes,
                   CommitsGroup(CommitGroup(t), s.sequence),
                   stage_ethercat_epoch(CommitGroup(t), s.sequence)
            PROVE  /\ ~rejected'
                   /\ \A u \in Commits : Members(CommitGroup(u)) = Axes =>
                         /\ \A r \in sent'[u] : r.stamp > Last'.stamp
                         /\ Unwritten(u)' => Last'.stamp < stamp'
        <4>1. Accepts(s.sequence) /\ commands[1].stamp = s.stamp
          BY <1>0, <3>3, WholeIsAccepted, Zenon
        <4>2. rejected' = rejected /\ ingress' = commands
          BY <3>3, <4>1 DEF stage_ethercat_epoch
        <4>3. Last'.stamp = s.stamp
          BY <4>1, <4>2 DEF Last
        <4>4. t \in Topics /\ s \in Pool /\ s.stamp \in Nat /\ s.stamp <= stamp
          BY <2>0, HeldInPool, PoolTypes, Zenon DEF SampleInv
        <4>5. \A r \in sent'[t] : r.stamp > s.stamp
          BY <1>0, <3>3, <4>4, TakeLeavesNewer, Zenon
        <4>6. Unwritten(t) => s.stamp < stamp
          BY <1>1, <4>4 DEF SampleInv, Queues
        <4>7. \A u \in Commits : Members(CommitGroup(u)) = Axes => u = t
          BY <3>3, WholeTopic
        <4> QED BY <1>0, <3>1, <4>2, <4>3, <4>5, <4>6, <4>7, Zenon
      <3>4. CASE ~UNCHANGED <<ingress, rejected>>
        <4>1. PICK t \in Commits : take_commit(t)
          BY <3>4, <2>2, <1>3, HostFrame, Zenon DEF Next, Host, Worker, take_axis, take_servo, vars,
             daemonVars
        <4>2. PICK s \in sent[t] \cup {None} :
                 /\ Takes(t, s) /\ s # None /\ CommitsGroup(CommitGroup(t), s.sequence)
                 /\ stage_ethercat_epoch(CommitGroup(t), s.sequence)
          BY <3>4, <4>1, Zenon DEF take_commit
        <4>3. Members(CommitGroup(t)) = Axes
          BY <3>4, <4>2 DEF stage_ethercat_epoch
        <4> QED BY <3>3, <4>2, <4>3, Zenon
      <3> QED BY <3>2, <3>4, Zenon
    <2> QED BY <2>1, <2>2, Zenon
  <1> QED BY <1>2, <1>3, Zenon

LEMMA EmptyGroupsStep ==
    ASSUME TypeOK, EmptyGroups, [Next]_vars
    PROVE  EmptyGroups'
  <1>0. epoch \in [Groups -> Nat]
    BY Zenon DEF TypeOK
  <1>1. ASSUME NEW a \in Axes, take_axis(a)
        PROVE  EmptyGroups'
    <2>1. PICK e : epoch' = epoch \/ epoch' = [epoch EXCEPT ![GroupOf[a]] = e]
      BY <1>1, Zenon DEF take_axis, groupVars
    <2>2. Members(GroupOf[a]) # {}
      BY DEF Members
    <2> QED BY <1>0, <2>1, <2>2 DEF EmptyGroups
  <1>2. CASE \A a \in Axes : ~take_axis(a)
    <2>1. epoch' = epoch
      BY <1>2, HostFrame, Zenon DEF Next, Worker, take_commit, take_servo, vars, daemonVars, groupVars
    <2> QED BY <2>1 DEF EmptyGroups
  <1> QED BY <1>1, <1>2

\* What a take of topic t leaves under way.
LEMMA TakeUnderway ==
    ASSUME SampleInv, Delivery, ~reused, Running, NEW t \in Topics,
           NEW s \in sent[t] \cup {None}, Takes(t, s)
    PROVE  /\ \A u \in Topics : u # t \/ s = None => (Underway(u)' <=> Underway(u))
           /\ \A u \in Topics : sent'[u] # {} => Underway(u)'
           /\ s # None /\ s.stamp # stamp => Underway(t)'
  <1>0. stamp' = stamp /\ \A u : Unwritten(u)' <=> Unwritten(u)
    BY Zenon DEF Takes, hostVars, Unwritten
  <1>1. \A u \in Topics : sent[u] # {} => Underway(u)
    BY DEF Delivery
  <1>2. CASE s = None
    <2>1. \A u \in Topics : sent'[u] = sent[u]
      BY <1>2, TakeNothing
    <2> QED BY <1>0, <1>1, <1>2, <2>1, Zenon DEF Underway
  <1>3. CASE s # None
    <2>0. s \in sent[t]
      BY <1>3
    <2>1. /\ \A r \in sent[t] : r \in sent'[t] <=> r.stamp > s.stamp
          /\ sent'[t] \subseteq sent[t]
          /\ \A u \in Topics : u # t => sent'[u] = sent[u]
      BY <2>0, TakeLeavesNewer, Zenon
    <2>2. \A u \in Topics : u # t => (Underway(u)' <=> Underway(u))
      BY <1>0, <2>1, Zenon DEF Underway
    <2>3. stamp \in Nat /\ \A r \in sent[t] : r.stamp \in Nat /\ r.stamp <= stamp
      BY HeldInPool, PoolTypes, Zenon DEF SampleInv
    <2>4. s.stamp # stamp => Underway(t)'
      <3> SUFFICES ASSUME s.stamp # stamp PROVE Underway(t)'
        OBVIOUS
      <3>1. s.stamp < stamp
        BY <2>0, <2>3
      <3>2. CASE Unwritten(t)
        BY <1>0, <3>2 DEF Underway
      <3>3. CASE \E r \in sent[t] : r.stamp = stamp
        BY <1>0, <2>1, <3>1, <3>3, Zenon DEF Underway
      <3> QED BY <1>1, <2>0, <3>2, <3>3, Zenon DEF Underway
    <2>5. s.stamp = stamp => sent'[t] = {}
      BY <2>1, <2>3
    <2> QED BY <1>1, <1>3, <2>1, <2>2, <2>4, <2>5, Zenon
  <1> QED BY <1>2, <1>3, Zenon

\* The commit of the whole robot, of the last publication, is accepted or was
\* early.
LEMMA LastCommit ==
    ASSUME SampleInv, StagedIsOneEpoch, CommitsAhead, EmptyGroups, ~reused,
           NEW t \in Commits, NEW s \in sent[t], take_commit(t),
           NEW g \in Groups, Members(g) = Axes, s.stamp = stamp, s # None,
           IF CommitsGroup(CommitGroup(t), s.sequence)
           THEN stage_ethercat_epoch(CommitGroup(t), s.sequence)
           ELSE early' = s.stamp
    PROVE  Last'.stamp = stamp \/ early' = stamp
  <1>0. t \in Topics /\ s \in Pool /\ s.stamp # 0 /\ s.sequence = s.stamp
    BY CommitTopics, HeldInPool, PoolTypes, Zenon DEF SampleInv, Fresh
  <1>1. CASE ~CommitsGroup(CommitGroup(t), s.sequence)
    BY <1>1
  <1>2. CASE CommitsGroup(CommitGroup(t), s.sequence) /\ CommitGroup(t) # g
    <2>1. Members(CommitGroup(t)) = {}
      BY <1>2, CommitTopics, OneWhole, Zenon
    <2>2. epoch[CommitGroup(t)] = 0
      BY <2>1, CommitTopics, Zenon DEF EmptyGroups
    <2> QED BY <1>0, <1>2, <2>2, Zenon DEF CommitsGroup
  <1>3. CASE CommitsGroup(CommitGroup(t), s.sequence) /\ CommitGroup(t) = g
    <2>1. Accepts(s.sequence) /\ commands[1].stamp = s.stamp
      BY <1>3, WholeIsAccepted, Zenon
    <2>2. ingress' = commands
      BY <1>3, <2>1 DEF stage_ethercat_epoch
    <2> QED BY <2>1, <2>2, Zenon DEF Last
  <1> QED BY <1>1, <1>2, <1>3, Zenon

LEMMA DeliveryStep ==
    ASSUME SampleInv, TypeOK, StagedIsOneEpoch, CommitsAhead, EmptyGroups, Delivery,
           [Next]_vars
    PROVE  Delivery'
  <1> DEFINE Whole == \E g \in Groups : Members(g) = Axes
             All == /\ \A t \in Topics : sent'[t] # {} => Underway(t)'
                    /\ \A t \in Servos : Underway(t)' \/ servo'[t].stamp = stamp'
                    /\ Whole => Last'.stamp = stamp' \/ early' = stamp'
                                  \/ \E t \in Commits : Underway(t)'
  <1> SUFFICES ASSUME ~reused', Running' PROVE All
    BY Zenon DEF Delivery
  <1>0. ~reused /\ stamp \in Nat /\ writing \in Nat /\ command_sequence \in Nat
    BY ReuseIsKept DEF TypeOK
  <1>1. /\ Servos \subseteq Topics /\ Commits \subseteq Topics /\ Topics \subseteq Nat
        /\ NTopics \in Nat /\ \A t \in Topics : 1 <= t /\ t <= NTopics
    BY ShapeAssumption DEF Servos, Commits, Topics, NTopics
  <1>2. CASE handle
    <2>0. writing' = 1
      BY <1>2 DEF handle
    <2>1. \A t \in Topics : Underway(t)'
      BY <1>1, <2>0 DEF Underway, Unwritten
    <2>2. \E t \in Commits : TRUE
      BY CommitTopics
    <2>3. \E t \in Commits : Underway(t)'
      BY <1>1, <2>1, <2>2
    <2> QED BY <1>1, <2>1, <2>3, Zenon
  <1>3. CASE Restart
    BY <1>3, <1>0, Zenon DEF Restart, Running
  <1>4. CASE PublicationFails
    <2>1. stamp = command_sequence + 1
      BY <1>0, <1>4, Zenon DEF PublicationFails, SampleInv, Fresh, NextSequence
    <2> QED BY <1>0, <1>4, <2>1 DEF PublicationFails, Running
  <1>5. ASSUME Running, UNCHANGED <<stamp, daemonVars>>,
               \A t \in Topics : Underway(t) => Underway(t)',
               \A t \in Topics : sent'[t] # {} => sent[t] # {} \/ Underway(t)'
        PROVE  All
    <2>1. UNCHANGED <<servo, Last, early>>
      BY <1>5 DEF daemonVars, Last
    <2>2. /\ \A t \in Topics : sent[t] # {} => Underway(t)
          /\ \A t \in Servos : Underway(t) \/ servo[t].stamp = stamp
          /\ Whole => Last.stamp = stamp \/ early = stamp \/ \E t \in Commits : Underway(t)
      BY <1>0, <1>5, Zenon DEF Delivery
    <2>3. \A t \in Topics : sent'[t] # {} => Underway(t)'
      BY <1>5, <2>2, Zenon
    <2>4. \A t \in Servos : Underway(t)' \/ servo'[t].stamp = stamp'
      BY <1>1, <1>5, <2>1, <2>2, Zenon
    <2>5. Whole => Last'.stamp = stamp' \/ early' = stamp' \/ \E t \in Commits : Underway(t)'
      BY <1>1, <1>5, <2>1, <2>2, Zenon
    <2> QED BY <2>3, <2>4, <2>5, Zenon
  <1>6. CASE publish_commands
    <2>1. /\ UNCHANGED <<stamp, daemonVars>> /\ writing \in Topics /\ writing' = writing + 1
          /\ \A u \in Topics : u # writing => sent'[u] = sent[u]
          /\ Current \in sent'[writing]
      BY <1>6, WriteLeaves, Zenon DEF SampleInv, PathInv
    <2>2. Running /\ Current.stamp = stamp
      BY <1>1, <2>1 DEF Running, Current
    <2>3. \A u \in Topics : u = writing => Underway(u)'
      BY <2>1, <2>2 DEF Underway
    <2>4. \A u \in Topics : Underway(u) => Underway(u)'
      <3> SUFFICES ASSUME NEW u \in Topics, Underway(u), u # writing PROVE Underway(u)'
        BY <2>3
      <3>1. Unwritten(u) => Unwritten(u)'
        BY <1>0, <1>1, <2>1 DEF Unwritten
      <3> QED BY <2>1, <3>1, Zenon DEF Underway
    <2>5. \A u \in Topics : sent'[u] # {} => sent[u] # {} \/ Underway(u)'
      BY <2>1, <2>3
    <2> QED BY <1>5, <2>1, <2>2, <2>4, <2>5, Zenon
  <1>7. CASE publish_damiao_commands
    <2>1. Running /\ UNCHANGED <<stamp, daemonVars, sent>>
      BY <1>1, <1>7 DEF publish_damiao_commands, Running
    <2>2. \A u \in Topics : ~Unwritten(u)
      BY <1>1, <1>7 DEF publish_damiao_commands, Unwritten
    <2>3. \A u \in Topics : Underway(u) => Underway(u)'
      BY <2>1, <2>2 DEF Underway
    <2> QED BY <1>5, <2>1, <2>3, Zenon
  <1>8. CASE UNCHANGED vars
    <2>1. Running /\ UNCHANGED <<stamp, daemonVars, sent>>
          /\ \A u : Unwritten(u) => Unwritten(u)'
      BY <1>8 DEF vars, hostVars, Running, Unwritten
    <2>2. \A u \in Topics : Underway(u) => Underway(u)'
      BY <2>1 DEF Underway
    <2> QED BY <1>5, <2>1, <2>2, Zenon
  <1>9. CASE Worker
    <2>1. Running /\ UNCHANGED stamp
      BY <1>9, WorkerFrame DEF hostVars, Running
    <2>2. /\ \A t \in Servos : Underway(t) \/ servo[t].stamp = stamp
          /\ Whole => Last.stamp = stamp \/ early = stamp \/ \E t \in Commits : Underway(t)
      BY <1>0, <2>1, Zenon DEF Delivery
    <2>3. ASSUME NEW a \in Axes, take_axis(a)
          PROVE  All
      <3>1. UNCHANGED <<servo, Last, early>> /\ a \in Topics
        BY <2>3, TopicFacts, Zenon DEF take_axis, Last
      <3>2. PICK s \in sent[a] \cup {None} : Takes(a, s)
        BY <2>3, Zenon DEF take_axis
      <3>3. /\ \A u \in Topics : u # a => (Underway(u)' <=> Underway(u))
            /\ \A u \in Topics : sent'[u] # {} => Underway(u)'
        BY <1>0, <2>1, <3>1, <3>2, TakeUnderway, Zenon
      <3>4. \A u \in Servos \cup Commits : Underway(u)' <=> Underway(u)
        BY <1>1, <3>3, CommitTopics, Zenon
      <3>5. \A t \in Servos : Underway(t)' \/ servo'[t].stamp = stamp'
        BY <2>1, <2>2, <3>1, <3>4, Zenon
      <3>6. Whole => Last'.stamp = stamp' \/ early' = stamp' \/ \E t \in Commits : Underway(t)'
        BY <2>1, <2>2, <3>1, <3>4, Zenon
      <3> QED BY <3>3, <3>5, <3>6, Zenon
    <2>4. ASSUME NEW t \in Servos, take_servo(t)
          PROVE  All
      <3>1. UNCHANGED <<Last, early>> /\ t \in Topics
        BY <1>1, <2>4, Zenon DEF take_servo, Last
      <3>2. PICK s \in sent[t] :
               /\ Takes(t, s)
               /\ servo' = IF InspectsServo(s, servo[t]) THEN [servo EXCEPT ![t] = s] ELSE servo
        BY <2>4, Zenon DEF take_servo
      <3>3. s # None
        BY <3>1 DEF SampleInv, Queues
      <3>4. /\ \A u \in Topics : u # t => (Underway(u)' <=> Underway(u))
            /\ \A u \in Topics : sent'[u] # {} => Underway(u)'
            /\ s.stamp # stamp => Underway(t)'
        BY <1>0, <2>1, <3>1, <3>2, <3>3, TakeUnderway, Zenon
      <3>5. s.stamp = stamp => servo'[t].stamp = stamp
        <4>1. servo \in [Servos -> Sample]
          BY Zenon DEF TypeOK
        <4>2. s \in Pool /\ servo[t] \in Pool
          BY <3>1, HeldInPool
        <4>3. /\ s.sequence = s.stamp /\ servo[t].sequence = servo[t].stamp
              /\ servo[t].stamp \in Nat /\ servo[t].stamp <= stamp
          BY <1>0, <4>2, PoolTypes, Zenon DEF SampleInv, Fresh
        <4>4. s.stamp = stamp /\ servo[t].stamp # stamp => InspectsServo(s, servo[t])
          BY <1>0, <4>3 DEF InspectsServo
        <4> QED BY <3>2, <4>1, <4>4
      <3>6. \A u \in Servos : u # t => servo'[u] = servo[u]
        <4>1. servo \in [Servos -> Sample]
          BY Zenon DEF TypeOK
        <4> QED BY <3>2, <4>1
      <3>7. \A u \in Servos : Underway(u)' \/ servo'[u].stamp = stamp'
        BY <1>1, <2>1, <2>2, <3>4, <3>5, <3>6, Zenon
      <3>8. \A u \in Commits : Underway(u)' <=> Underway(u)
        BY <1>1, <3>4, CommitTopics, Zenon
      <3>9. Whole => Last'.stamp = stamp' \/ early' = stamp' \/ \E u \in Commits : Underway(u)'
        BY <2>1, <2>2, <3>1, <3>8, Zenon
      <3> QED BY <3>4, <3>7, <3>9, Zenon
    <2>5. ASSUME NEW t \in Commits, take_commit(t)
          PROVE  All
      <3>1. UNCHANGED servo /\ t \in Topics
        BY <1>1, <2>5, Zenon DEF take_commit
      <3>2. PICK s \in sent[t] \cup {None} :
               /\ Takes(t, s)
               /\ IF s # None /\ CommitsGroup(CommitGroup(t), s.sequence)
                  THEN stage_ethercat_epoch(CommitGroup(t), s.sequence)
                  ELSE early' = IF s = None THEN early ELSE s.stamp
               /\ s = None => UNCHANGED <<ingress, early>>
        BY <2>5, Zenon DEF take_commit
      <3>3. /\ \A u \in Topics : u # t \/ s = None => (Underway(u)' <=> Underway(u))
            /\ \A u \in Topics : sent'[u] # {} => Underway(u)'
            /\ s # None /\ s.stamp # stamp => Underway(t)'
        BY <1>0, <2>1, <3>1, <3>2, TakeUnderway, Zenon
      <3>4. \A u \in Servos : Underway(u)' \/ servo'[u].stamp = stamp'
        BY <1>1, <2>1, <2>2, <3>1, <3>3, CommitTopics, Zenon
      <3>5. ASSUME NEW g \in Groups, Members(g) = Axes
            PROVE  Last'.stamp = stamp' \/ early' = stamp' \/ \E u \in Commits : Underway(u)'
        <4>1. CASE s = None
          <5>1. UNCHANGED <<Last, early>>
            BY <3>2, <4>1 DEF Last
          <5> QED BY <1>1, <2>1, <2>2, <3>3, <3>5, <4>1, <5>1, Zenon
        <4>2. CASE s # None /\ s.stamp # stamp
          BY <3>3, <4>2
        <4>3. CASE s # None /\ s.stamp = stamp
          <5>1. s \in sent[t]
            BY <4>3
          <5>2. IF CommitsGroup(CommitGroup(t), s.sequence)
                THEN stage_ethercat_epoch(CommitGroup(t), s.sequence)
                ELSE early' = s.stamp
            BY <3>2, <4>3
          <5> QED BY <1>0, <2>1, <2>5, <3>5, <4>3, <5>1, <5>2, LastCommit, Zenon
        <4> QED BY <4>1, <4>2, <4>3, Zenon
      <3> QED BY <3>3, <3>4, <3>5, Zenon
    <2> QED BY <1>9, <2>3, <2>4, <2>5, Zenon DEF Worker
  <1> QED BY <1>2, <1>3, <1>4, <1>6, <1>7, <1>8, <1>9, Zenon DEF Next, Host

\* The invariant behind the two theorems: without a sequence number used
\* twice, samples are ordered by their numbers and none is lost unnoticed.
DeliveryInv == SampleInv /\ CommitsAhead /\ EmptyGroups /\ Delivery

LEMMA DeliveryInit == Init => DeliveryInv
  <1> SUFFICES ASSUME Init PROVE DeliveryInv
    OBVIOUS
  <1>1. PathInv
    BY PathInit
  <1>2. \A s \in Pool : s = None
    BY DEF Init, Pool, Sent, Held
  <1>3. Fresh
    BY <1>2 DEF Init, Fresh, None
  <1>4. Queues /\ CommitsAhead /\ EmptyGroups
    BY CommitTopics, Zenon DEF Init, Queues, CommitsAhead, EmptyGroups, Unwritten
  <1>5. Delivery
    BY DEF Init, Delivery, Running
  <1> QED BY <1>1, <1>3, <1>4, <1>5 DEF DeliveryInv, SampleInv

LEMMA DeliveryInvariant == Spec => []DeliveryInv
  <1>1. DeliveryInv /\ TypeOK /\ StagedIsOneEpoch /\ [Next]_vars => DeliveryInv'
    <2> SUFFICES ASSUME DeliveryInv, TypeOK, StagedIsOneEpoch, [Next]_vars
                 PROVE  DeliveryInv'
      OBVIOUS
    <2>1. SampleInv'
      BY PathStep, FreshStep, QueuesStep DEF DeliveryInv, SampleInv
    <2> QED BY <2>1, CommitsAheadStep, EmptyGroupsStep, DeliveryStep DEF DeliveryInv
  <1> QED BY <1>1, DeliveryInit, OneEpoch, PTL DEF Spec

\* RejectionNeedsReuse for any number of axes, groups and servos in any
\* grouping: as long as no sequence number was published twice the ingress
\* rejects no staged epoch (accept_commands, safety_supervisor.cpp:117-140),
\* however the topics were delayed, overtaken or replaced.
THEOREM NoRejectionWithoutReuse == Spec => []RejectionNeedsReuse
  <1>1. DeliveryInv => RejectionNeedsReuse
    BY DEF DeliveryInv, CommitsAhead, RejectionNeedsReuse
  <1> QED BY <1>1, DeliveryInvariant, PTL

\* LossNeedsEarlyCommit for every robot one of whose groups holds all axes,
\* the only kind whose epochs the callback of attach_dds passes on
\* (daemon.cpp:324-331): the last complete publication reaches
\* the servos, and the axes unless its commit was taken too early.
THEOREM LossIsEarlyCommit ==
    (\E g \in Groups : Members(g) = Axes) => (Spec => []LossNeedsEarlyCommit)
  <1> SUFFICES ASSUME \E g \in Groups : Members(g) = Axes
               PROVE  Spec => []LossNeedsEarlyCommit
    OBVIOUS
  <1>1. DeliveryInv /\ TypeOK => LossNeedsEarlyCommit
    <2> SUFFICES ASSUME DeliveryInv, TypeOK, Quiet, ~reused
                 PROVE  /\ \A t \in Servos : servo[t].stamp = stamp
                        /\ Last.stamp = stamp \/ early = stamp
      BY DEF LossNeedsEarlyCommit
    <2>1. command_sequence \in Nat /\ stamp \in Nat /\ begun = 1..stamp
          /\ command_sequence <= stamp
      BY Zenon DEF DeliveryInv, SampleInv, Fresh, TypeOK
    <2>2. writing = 0 /\ command_sequence # 0 /\ NextSequence \notin begun
      BY DEF Quiet
    <2>3. command_sequence = stamp /\ stamp # 0
      BY <2>1, <2>2 DEF NextSequence
    <2>4. \A t \in Topics : sent[t] = {}
      <3>1. \A s \in Pool : s # None => s.session = session
        BY <2>2, Zenon DEF DeliveryInv, SampleInv, Fresh
      <3>2. \A t \in Topics : \A s \in sent[t] : s \in Pool /\ s # None
        BY HeldInPool DEF DeliveryInv, SampleInv, Queues
      <3> QED BY <3>1, <3>2 DEF Quiet
    <2>5. \A t \in Topics : ~Underway(t)
      BY <2>2, <2>4 DEF Underway, Unwritten
    <2>6. Servos \subseteq Topics /\ Commits \subseteq Topics
      BY ShapeAssumption DEF Servos, Commits, Topics, NTopics
    <2> QED BY <2>3, <2>5, <2>6, Zenon DEF DeliveryInv, Delivery, Running
  <1> QED BY <1>1, DeliveryInvariant, OneEpoch, PTL
=============================================================================
