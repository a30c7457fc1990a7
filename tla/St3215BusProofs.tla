-------------------------- MODULE St3215BusProofs --------------------------
(***************************************************************************)
(* The goals written to the ST3215 bus, for any number of servos and any   *)
(* timeouts.  The owner's copy of a command is never ahead of the ingress, *)
(* and the goal sent last never ahead of that copy; so a goal that differs *)
(* from the one sent last is newer.                                        *)
(***************************************************************************)
EXTENDS St3215Bus, SequenceTheorems, WellFoundedInduction, TLAPS

Types ==
  /\ last \in [Servos -> Commands] /\ command \in [Servos -> Commands]
  /\ goal \in [Servos -> 0..MaxSequence] /\ silence \in [Servos -> 0..AgeCap]
  /\ cursor \in Servos /\ lag \in 0..MaxLag

Ladder ==
  \A i \in Servos :
    /\ goal[i] <= command[i].sequence /\ command[i].sequence <= last[i].sequence
    /\ ~last[i].present => last[i].sequence = 0

GoalInv == Types /\ Ladder

LEMMA Caps ==
  /\ AgeCap \in Nat /\ CommandTimeout <= AgeCap /\ MaxLag <= AgeCap
  /\ 0 \in Ages /\ Ages \subseteq Int
  /\ \A a \in Ages : Older(a) \in Ages
  /\ \A a \in 0..AgeCap : Older(a) \in 0..AgeCap
  /\ \A a \in -MaxFuture..CommandTimeout : a \in Ages
  <1>1. AgeCap \in Nat /\ CommandTimeout <= AgeCap /\ MaxLag <= AgeCap
    BY BusAssumption DEF AgeCap
  <1> QED BY <1>1, BusAssumption DEF Ages, Older

LEMMA CommandFields ==
  ASSUME NEW c \in Commands
  PROVE  c.sequence \in 0..MaxSequence /\ c.sequence \in Nat /\ c.age \in Ages /\ c.age \in Int
  <1>1. c.sequence \in 0..MaxSequence /\ c.age \in Ages
    BY DEF Commands
  <1>2. \A n \in 0..MaxSequence : n \in Nat
    OBVIOUS
  <1>3. Ages \subseteq Int
    BY Caps
  <1> QED BY <1>1, <1>2, <1>3

LEMMA GoalInit == Init => GoalInv
  <1> SUFFICES ASSUME Init PROVE GoalInv
    OBVIOUS
  <1>1. NoCommand \in Commands /\ NoCommand.sequence = 0
    BY Caps, BusAssumption DEF NoCommand, Commands
  <1>2. 1 \in Servos /\ 0 \in 0..MaxSequence /\ 0 \in 0..AgeCap /\ 0 \in 0..MaxLag
    BY Caps, BusAssumption DEF Servos
  <1> QED BY <1>1, <1>2 DEF Init, GoalInv, Types, Ladder

\* Ageing and expiry keep the sequence of a command.
LEMMA AgedKeeps ==
  ASSUME NEW c \in Commands
  PROVE  Aged(c) \in Commands /\ Aged(c).sequence = c.sequence /\ (Aged(c).present <=> c.present)
  <1>1. c.age \in Ages /\ Older(c.age) \in Ages
    BY CommandFields, Caps
  <1> DEFINE b == IF c.present THEN Older(c.age) ELSE c.age
  <1>2. b \in Ages /\ Aged(c) = [c EXCEPT !.age = b]
    BY <1>1 DEF Aged
  <1> HIDE DEF b
  <1> QED BY <1>2 DEF Commands

LEMMA WithdrawnKeeps ==
  ASSUME NEW c \in Commands
  PROVE  LET d == [c EXCEPT !.present = FALSE, !.enabled = FALSE, !.age = 0]
         IN  d \in Commands /\ d.sequence = c.sequence /\ ~d.present
  <1> DEFINE d == [c EXCEPT !.present = FALSE, !.enabled = FALSE, !.age = 0]
  <1>1. \A x \in Commands : LET y == [x EXCEPT !.present = FALSE]
                         IN  y \in Commands /\ y.sequence = x.sequence /\ ~y.present
    BY DEF Commands
  <1>2. \A x \in Commands : LET y == [x EXCEPT !.enabled = FALSE]
                         IN  y \in Commands /\ y.sequence = x.sequence /\ y.present = x.present
    BY DEF Commands
  <1>3. \A x \in Commands : LET y == [x EXCEPT !.age = 0]
                         IN  y \in Commands /\ y.sequence = x.sequence /\ y.present = x.present
    BY Caps DEF Commands
  <1> DEFINE c1 == [c EXCEPT !.present = FALSE]
  <1> DEFINE c2 == [c1 EXCEPT !.enabled = FALSE]
  <1>4. c1 \in Commands /\ c1.sequence = c.sequence /\ ~c1.present
    BY <1>1
  <1> HIDE DEF c1
  <1>5. c2 \in Commands /\ c2.sequence = c1.sequence /\ c2.present = c1.present
    BY <1>2, <1>4
  <1>6. d = [c2 EXCEPT !.age = 0]
    BY DEF c1, c2
  <1> HIDE DEF c2, d
  <1>7. d \in Commands /\ d.sequence = c2.sequence /\ d.present = c2.present
    BY <1>3, <1>5, <1>6
  <1>8. d \in Commands /\ d.sequence = c.sequence /\ ~d.present
    BY <1>4, <1>5, <1>7
  <1> QED BY <1>8 DEF d

LEMMA RefreshedKeeps ==
  ASSUME Types, NEW i \in Servos, NEW got \in BOOLEAN
  PROVE  /\ Refreshed(i, got) \in Commands
         /\ Refreshed(i, got).sequence = Taken(i, got).sequence
         /\ Refreshed(i, got).present => ~Expired(Taken(i, got)) /\ Refreshed(i, got) = Taken(i, got)
  <1>1. Taken(i, got) \in Commands
    BY DEF Taken, Types
  <1>2. CASE Expired(Taken(i, got))
    <2>1. Refreshed(i, got) = [Taken(i, got) EXCEPT !.present = FALSE, !.enabled = FALSE, !.age = 0]
      BY <1>2 DEF Refreshed
    <2> QED BY <1>1, <1>2, <2>1, WithdrawnKeeps
  <1>3. CASE ~Expired(Taken(i, got))
    BY <1>1, <1>3 DEF Refreshed
  <1> QED BY <1>2, <1>3

\* A refresh moves the owner's copy towards the ingress and never past it.
LEMMA RefreshStep ==
  ASSUME GoalInv, NEW i \in Servos, NEW got \in BOOLEAN, refresh_staged(i, got)
  PROVE  /\ command' \in [Servos -> Commands]
         /\ \A j \in Servos : j # i => command'[j] = command[j]
         /\ command'[i] = Refreshed(i, got)
         /\ command[i].sequence <= command'[i].sequence
         /\ command'[i].sequence <= last[i].sequence
  <1>1. command' = [command EXCEPT ![i] = Refreshed(i, got)]
    BY DEF refresh_staged
  <1>2. Refreshed(i, got) \in Commands /\ Refreshed(i, got).sequence = Taken(i, got).sequence
    BY RefreshedKeeps DEF GoalInv
  <1>3. /\ Taken(i, got) = last[i] \/ Taken(i, got) = command[i]
        /\ command[i].sequence \in Nat /\ last[i].sequence \in Nat
        /\ command[i].sequence <= last[i].sequence
    BY DEF GoalInv, Types, Ladder, Taken, Commands
  <1>4. command'[i] = Refreshed(i, got) /\ \A j \in Servos : j # i => command'[j] = command[j]
    BY <1>1 DEF GoalInv, Types
  <1> QED BY <1>1, <1>2, <1>3, <1>4 DEF GoalInv, Types

\* What dispatch_request writes.
LEMMA DispatchStep ==
  ASSUME GoalInv, NEW got \in BOOLEAN, dispatch_request(got)
  PROVE  /\ goal' \in [Servos -> 0..MaxSequence]
         /\ sent' \in [servo : Servos, goal : 0..MaxSequence]
         /\ \A j \in Servos : j # cursor => goal'[j] = goal[j]
         /\ goal'[cursor] \in {goal[cursor], command'[cursor].sequence}
         /\ sent'.goal # 0 => /\ sent'.servo = cursor
                              /\ sent'.goal = command'[cursor].sequence
                              /\ SendsGoal(command'[cursor], goal[cursor])
  <1>0. cursor \in Servos /\ goal \in [Servos -> 0..MaxSequence] /\ refresh_staged(cursor, got)
    BY DEF GoalInv, Types, dispatch_request
  <1>1. command'[cursor].sequence \in 0..MaxSequence /\ 0 \in 0..MaxSequence
    BY <1>0, RefreshStep, CommandFields, BusAssumption
  <1>2. goal' = [goal EXCEPT ![cursor] =
                   IF SendsGoal(command'[cursor], @) THEN command'[cursor].sequence ELSE @]
    BY DEF dispatch_request
  <1>3. \/ sent' = [servo |-> cursor,
                    goal |-> IF SendsGoal(command'[cursor], goal[cursor])
                             THEN command'[cursor].sequence ELSE 0]
        \/ sent' = NothingSent
    BY Zenon DEF dispatch_request, SendsRequest, RequestRefused
  <1>4. NothingSent \in [servo : Servos, goal : 0..MaxSequence] /\ NothingSent.goal = 0
    BY BusAssumption DEF NothingSent, Servos
  <1> QED BY <1>0, <1>1, <1>2, <1>3, <1>4

LEMMA GoalStep ==
  ASSUME GoalInv, [Next]_vars
  PROVE  GoalInv'
  <1>0. Types /\ Ladder
    BY DEF GoalInv
  <1>1. CASE Stage
    <2>1. PICK i \in Commanded, s \in 1..MaxSequence, e \in BOOLEAN,
               a \in -MaxFuture..CommandTimeout :
            stage_command(i, [present |-> TRUE, sequence |-> s, enabled |-> e, age |-> a])
      BY <1>1 DEF Stage
    <2> DEFINE c == [present |-> TRUE, sequence |-> s, enabled |-> e, age |-> a]
    <2>2. c \in Commands /\ c.sequence = s /\ c.present /\ s \in Nat /\ i \in Servos
      <3>1. s \in 0..MaxSequence /\ a \in Ages /\ s \in Nat /\ i \in Servos
        BY BusAssumption, Caps DEF Servos
      <3> QED BY <3>1 DEF Commands
    <2> HIDE DEF c
    <2>3. /\ last' = [last EXCEPT ![i] = c] /\ Admissible(i, c)
          /\ UNCHANGED <<command, goal, silence, cursor, lag>>
      BY <2>1 DEF stage_command, busVars, c
    <2>4. last[i].sequence <= c.sequence
      BY <1>0, <2>2, <2>3 DEF Admissible, Types, Ladder, Commands
    <2>5. last' \in [Servos -> Commands] /\ last'[i] = c
          /\ \A j \in Servos : j # i => last'[j] = last[j]
      BY <1>0, <2>2, <2>3 DEF Types
    <2>6. Types'
      BY <1>0, <2>3, <2>5 DEF Types
    <2>7. Ladder'
      <3> SUFFICES ASSUME NEW j \in Servos
                   PROVE  /\ goal'[j] <= command'[j].sequence
                          /\ command'[j].sequence <= last'[j].sequence
                          /\ ~last'[j].present => last'[j].sequence = 0
        BY DEF Ladder
      <3>1. command[j].sequence \in Nat /\ last[j].sequence \in Nat /\ last'[j].sequence \in Nat
        BY <1>0, <2>5 DEF Types, Commands
      <3> QED BY <1>0, <2>2, <2>3, <2>4, <2>5, <3>1 DEF Ladder
    <2> QED BY <2>6, <2>7 DEF GoalInv
  <1>2. CASE Tick
    <2>1. /\ last' = [i \in Servos |-> Aged(last[i])]
          /\ command' = [i \in Servos |-> Aged(command[i])]
          /\ silence' = [i \in Servos |-> Older(silence[i])]
          /\ UNCHANGED <<goal, cursor>> /\ lag' \in 0..MaxLag
      BY <1>0, <1>2, BusAssumption DEF Tick, busVars, Types
    <2>2. \A i \in Servos : last[i] \in Commands /\ command[i] \in Commands
      BY <1>0 DEF Types
    <2>3. Types'
      <3>1. silence' \in [Servos -> 0..AgeCap]
        BY <1>0, <2>1, Caps DEF Types
      <3> QED BY <1>0, <2>1, <2>2, <3>1, AgedKeeps DEF Types
    <2>4. Ladder'
      BY <1>0, <2>1, <2>2, AgedKeeps DEF Ladder
    <2> QED BY <2>3, <2>4 DEF GoalInv
  <1>3. CASE UNCHANGED <<last, command, goal, silence, cursor>> /\ lag' \in 0..MaxLag
    BY <1>0, <1>3 DEF GoalInv, Types, Ladder
  <1>4. ASSUME NEW got \in BOOLEAN, poll_response(got)
        PROVE  GoalInv'
    <2>1. refresh_staged(cursor, got) /\ UNCHANGED <<last, goal>> /\ cursor \in Servos
      BY <1>0, <1>4 DEF poll_response, Types
    <2>2. cursor' \in Servos /\ lag' \in 0..MaxLag
      BY <1>0, <1>4, BusAssumption DEF poll_response, EndCycle, Successor, Servos, Types
    <2>a. silence' \in [Servos -> 0..AgeCap]
      <3>1. lag \in 0..AgeCap /\ silence \in [Servos -> 0..AgeCap]
        BY <1>0, Caps, BusAssumption DEF Types
      <3>2. UNCHANGED silence \/ silence' = [silence EXCEPT ![cursor] = lag]
        BY <1>4 DEF poll_response, PollAnswer, PollForeign, PollNothing
      <3> QED BY <3>1, <3>2
    <2>3. Types'
      BY <1>0, <2>1, <2>2, <2>a, RefreshStep DEF Types
    <2>4. Ladder'
      <3> SUFFICES ASSUME NEW j \in Servos
                   PROVE  goal[j] <= command'[j].sequence /\ command'[j].sequence <= last[j].sequence
        BY <1>0, <2>1 DEF Ladder
      <3>1. goal[j] \in Nat /\ command[j].sequence \in Nat /\ command'[j].sequence \in Nat
        BY <1>0, <2>1, RefreshStep DEF Types, Commands
      <3> QED BY <1>0, <2>1, <3>1, RefreshStep DEF Ladder
    <2> QED BY <2>3, <2>4 DEF GoalInv
  <1>5. ASSUME NEW got \in BOOLEAN, dispatch_request(got)
        PROVE  GoalInv'
    <2>1. refresh_staged(cursor, got) /\ UNCHANGED <<last, cursor>> /\ cursor \in Servos
      BY <1>0, <1>5 DEF dispatch_request, Types
    <2>2. lag' \in 0..MaxLag /\ UNCHANGED silence
      <3>1. lag' \in {0, lag} /\ UNCHANGED silence
        BY <1>5, Zenon DEF dispatch_request, SendsRequest, RequestRefused, write_all, WriteFails,
           EndCycle
      <3> QED BY <1>0, <3>1, BusAssumption DEF Types
    <2>3. Types'
      BY <1>0, <1>5, <2>1, <2>2, RefreshStep, DispatchStep DEF Types
    <2>4. Ladder'
      <3> SUFFICES ASSUME NEW j \in Servos
                   PROVE  goal'[j] <= command'[j].sequence /\ command'[j].sequence <= last[j].sequence
        BY <1>0, <2>1 DEF Ladder
      <3>1. goal[j] \in Nat /\ command[j].sequence \in Nat /\ command'[j].sequence \in Nat
        BY <1>0, <2>1, RefreshStep DEF Types, Commands
      <3> QED BY <1>0, <1>5, <2>1, <3>1, RefreshStep, DispatchStep DEF Ladder
    <2> QED BY <2>3, <2>4 DEF GoalInv
  <1>6. CASE BeginCycle \/ receive_one \/ ReceiveFails \/ UNCHANGED vars
    BY <1>0, <1>3, <1>6, BusAssumption DEF BeginCycle, receive_one, ReceiveFails, EndCycle, servoVars, busVars,
       vars, Types
  <1>7. ASSUME NEW i \in Servos, Answer(i) \/ NoAnswer(i)
        PROVE  GoalInv'
    BY <1>0, <1>3, <1>7 DEF Answer, NoAnswer, servoVars, busVars, Types
  <1> QED BY <1>1, <1>2, <1>4, <1>5, <1>6, <1>7 DEF Next, Owner

LEMMA GoalInvariant == Spec => []GoalInv
  BY GoalInit, GoalStep, PTL DEF Spec

\* Only dispatch_request ends the dispatch of a request.
LEMMA OnlyDispatchWrites ==
  ASSUME Next, Writes
  PROVE  \E got \in BOOLEAN : dispatch_request(got)
  BY DEF Next, Writes, Stage, stage_command, Tick, ReceiveFails, Owner, BeginCycle,
     poll_response, receive_one, Answer, NoAnswer

\* GoalsAscend for any number of servos: however staging, expiry, failed writes
\* and the owner's reads interleave, a goal written to a servo has a greater
\* sequence than every goal written to it before (send_request, servo.cpp).
THEOREM GoalsOnlyAscend == Spec => GoalsAscend
  <1>1. GoalInv /\ [Next]_vars => [Writes /\ sent'.goal # 0 => sent'.goal > goal[sent'.servo]]_vars
    <2> SUFFICES ASSUME GoalInv, Next, Writes, sent'.goal # 0
                 PROVE  sent'.goal > goal[sent'.servo]
      OBVIOUS
    <2>1. PICK got \in BOOLEAN : dispatch_request(got)
      BY OnlyDispatchWrites
    <2>2. /\ sent'.servo = cursor /\ sent'.goal = command'[cursor].sequence
          /\ SendsGoal(command'[cursor], goal[cursor])
      BY <2>1, DispatchStep
    <2>3. cursor \in Servos /\ refresh_staged(cursor, got)
      BY <2>1 DEF dispatch_request, GoalInv, Types
    <2>4. /\ goal[cursor] <= command[cursor].sequence
          /\ command[cursor].sequence <= command'[cursor].sequence
          /\ goal[cursor] \in Nat /\ command[cursor].sequence \in Nat
          /\ command'[cursor].sequence \in Nat
      BY <2>3, RefreshStep DEF GoalInv, Types, Ladder, Commands
    <2>5. goal[cursor] # command'[cursor].sequence
      BY <2>2 DEF SendsGoal
    <2> QED BY <2>2, <2>4, <2>5
  <1> QED BY <1>1, GoalInvariant, PTL DEF Spec, GoalsAscend

\* GoalsAreFresh for every bus that has a command timeout (without one a goal
\* has no age limit), also when ticks pass between the cycle's clock reading
\* and its use: refresh_staged withdraws an expired command before send_request.
THEOREM GoalsStayFresh == CommandTimeout > 0 => (Spec => GoalsAreFresh)
  <1> SUFFICES ASSUME CommandTimeout > 0 PROVE Spec => GoalsAreFresh
    OBVIOUS
  <1>1. GoalInv /\ [Next]_vars
          => [Writes /\ sent'.goal # 0
                => command'[sent'.servo].age - lag \in 0..CommandTimeout]_vars
    <2> SUFFICES ASSUME GoalInv, Next, Writes, sent'.goal # 0
                 PROVE  command'[sent'.servo].age - lag \in 0..CommandTimeout
      OBVIOUS
    <2>1. PICK got \in BOOLEAN : dispatch_request(got)
      BY OnlyDispatchWrites
    <2>2. sent'.servo = cursor /\ command'[cursor].present
      BY <2>1, DispatchStep DEF SendsGoal
    <2>3. cursor \in Servos /\ refresh_staged(cursor, got)
      BY <2>1 DEF dispatch_request, GoalInv, Types
    <2>4. command'[cursor] = Refreshed(cursor, got)
      BY <2>3, RefreshStep
    <2>5. ~Expired(command'[cursor])
      BY <2>2, <2>3, <2>4, RefreshedKeeps DEF GoalInv
    <2>6. command'[cursor].age \in Int /\ lag \in Nat
      BY <2>3, RefreshStep, CommandFields DEF GoalInv, Types
    <2>7. ~(command'[cursor].age < lag) /\ ~(command'[cursor].age - lag > CommandTimeout)
      BY <2>2, <2>5 DEF Expired
    <2> QED BY <2>2, <2>6, <2>7, BusAssumption
  <1> QED BY <1>1, GoalInvariant, PTL DEF Spec, GoalsAreFresh

-----------------------------------------------------------------------------
(* The port *)

OnLine == Frames \cup {Noise}

Flags ==
  /\ unread \in [Servos -> BOOLEAN] /\ timedOut \in [Servos -> BOOLEAN]
  /\ fault \in [Servos -> BOOLEAN]
  /\ dispatched \in BOOLEAN /\ latched \in BOOLEAN

Wire ==
  /\ rx \in {<<>>} \cup {<<f>> : f \in Frames}
  /\ lastError \in {"none", "timeout", "failed"}
  /\ line \in Seq(OnLine) /\ Len(line) <= MaxLine
  /\ asked \subseteq Servos
  /\ sent \in [servo : Servos, goal : 0..MaxSequence]
  /\ pc \in {"idle", "poll", "dispatch", "receive"}

\* A frame waits in the receive queue only between the cycle that received it
\* and the poll of the next one.
Turn ==
  /\ pc \in {"poll", "receive"} => dispatched
  /\ rx # <<>> => pc \in {"idle", "poll"} /\ dispatched

LEMMA SetHasMin ==
  ASSUME NEW I, I \subseteq Nat, I # {}
  PROVE  Min(I) \in I
  <1>1. PICK x \in I : \A y \in I : ~ (<<y, x>> \in OpToRel(<, Nat))
    BY NatLessThanWellFounded, WFMin, Zenon
  <1>2. \A y \in I : ~ (y < x)
    BY <1>1 DEF OpToRel
  <1>3. \A y \in I : x <= y
    BY <1>2
  <1> QED BY <1>3 DEF Min

\* receive_one finds a frame that is on the line.
LEMMA FirstFrameOnLine ==
  ASSUME line \in Seq(OnLine)
  PROVE  FirstFrame > 0 => FirstFrame \in 1..Len(line) /\ line[FirstFrame] \in Frames
  <1> DEFINE I == {i \in 1..Len(line) : line[i] # Noise}
  <1>0. Len(line) \in Nat /\ \A i \in 1..Len(line) : line[i] \in OnLine
    BY LenProperties, ElementOfSeq
  <1>1. FirstFrame = IF I # {} THEN Min(I) ELSE 0
    BY Zenon DEF FirstFrame, SelectInSeq
  <1>2. I \subseteq Nat
    OBVIOUS
  <1>3. \A i \in I : i \in 1..Len(line) /\ line[i] \in Frames
    BY <1>0 DEF OnLine
  <1> HIDE DEF I
  <1>4. I # {} => Min(I) \in I
    BY <1>2, SetHasMin
  <1> QED BY <1>1, <1>3, <1>4

LEMMA LineShrinks ==
  ASSUME NEW s \in Seq(OnLine), NEW n \in 1..Len(s)
  PROVE  SubSeq(s, n + 1, Len(s)) \in Seq(OnLine) /\ Len(SubSeq(s, n + 1, Len(s))) <= Len(s)
  OBVIOUS

LEMMA RxCases ==
  ASSUME Wire
  PROVE  /\ rx = <<>> \/ \E f \in Frames : rx = <<f>>
         /\ rx # <<>> => Tail(rx) = <<>>
  <1>1. rx = <<>> \/ \E f \in Frames : rx = <<f>>
    BY DEF Wire
  <1>2. ASSUME NEW f PROVE Tail(<<f>>) = <<>>
    <2>1. <<f>> \in Seq({f}) /\ <<f>> # <<>> /\ Len(<<f>>) = 1
      OBVIOUS
    <2>2. Tail(<<f>>) \in Seq({f}) /\ Len(Tail(<<f>>)) = 0
      BY <2>1, HeadTailProperties
    <2> QED BY <2>2, EmptySeq
  <1> QED BY <1>1, <1>2

LEMMA FlagsStep ==
  ASSUME Flags, Types, [Next]_vars
  PROVE  Flags'
  <1>1. ASSUME NEW got \in BOOLEAN, NEW i \in Servos, refresh_staged(i, got)
        PROVE  unread' \in [Servos -> BOOLEAN] /\ timedOut' \in [Servos -> BOOLEAN]
    <2>1. unread' = [unread EXCEPT ![i] = unread[i] /\ ~got]
      BY <1>1, Zenon DEF refresh_staged
    <2>2. timedOut' = [timedOut EXCEPT ![i] = Expired(Taken(i, got)) \/ (timedOut[i] /\ ~got)]
      BY <1>1, Zenon DEF refresh_staged
    <2> DEFINE u == unread[i] /\ ~got
               w == Expired(Taken(i, got)) \/ (timedOut[i] /\ ~got)
    <2>3. u \in BOOLEAN /\ w \in BOOLEAN
      BY Zenon
    <2>4. unread' = [unread EXCEPT ![i] = u] /\ timedOut' = [timedOut EXCEPT ![i] = w]
      BY <2>1, <2>2, Zenon
    <2> HIDE DEF u, w
    <2> QED BY <2>3, <2>4 DEF Flags
  <1>2. CASE UNCHANGED <<unread, timedOut, fault, dispatched, latched>>
    BY <1>2 DEF Flags
  <1>3. CASE Stage
    <2>1. PICK i \in Commanded : unread' = [unread EXCEPT ![i] = TRUE]
                                 /\ UNCHANGED <<timedOut, fault, dispatched, latched>>
      BY <1>3 DEF Stage, stage_command, busVars
    <2> QED BY <2>1 DEF Flags
  <1>4. CASE BeginCycle
    <2> DEFINE b == fault[cursor] \/ latched
    <2>1. b \in BOOLEAN
      BY Zenon
    <2>2. fault' = [fault EXCEPT ![cursor] = b]
      BY <1>4, Zenon DEF BeginCycle
    <2> HIDE DEF b
    <2> QED BY <1>4, <2>1, <2>2 DEF BeginCycle, Flags, busVars
  <1>5. ASSUME NEW got \in BOOLEAN, poll_response(got)
        PROVE  Flags'
    <2>1. unread' \in [Servos -> BOOLEAN] /\ timedOut' \in [Servos -> BOOLEAN]
      BY <1>1, <1>5 DEF poll_response, Types
    <2>2. UNCHANGED dispatched /\ (PollAnswer(cursor) \/ PollForeign(cursor) \/ PollNothing(cursor))
      BY <1>5 DEF poll_response
    <2>3. fault' \in [Servos -> BOOLEAN] /\ latched' \in BOOLEAN
      <3>1. CASE PollAnswer(cursor)
        <4>1. PICK error \in BOOLEAN :
                 fault' = [fault EXCEPT ![cursor] = error \/ timedOut'[cursor]]
          BY <3>1, Zenon DEF PollAnswer
        <4> DEFINE b == error \/ timedOut'[cursor]
        <4>2. b \in BOOLEAN
          BY Zenon
        <4>3. fault' = [fault EXCEPT ![cursor] = b]
          BY <4>1, Zenon
        <4>4. UNCHANGED latched
          BY <3>1 DEF PollAnswer
        <4> HIDE DEF b
        <4> QED BY <4>2, <4>3, <4>4 DEF Flags
      <3>2. CASE Latch(cursor) \/ UNCHANGED <<latched, fault>>
        BY <3>2 DEF Latch, Flags
      <3> QED BY <2>2, <3>1, <3>2 DEF PollForeign, PollNothing
    <2> QED BY <2>1, <2>2, <2>3 DEF Flags
  <1>6. ASSUME NEW got \in BOOLEAN, dispatch_request(got)
        PROVE  Flags'
    <2>1. unread' \in [Servos -> BOOLEAN] /\ timedOut' \in [Servos -> BOOLEAN]
      BY <1>1, <1>6 DEF dispatch_request, Types
    <2>2. UNCHANGED <<latched, fault>> \/ Latch(cursor)
      BY <1>6, Zenon DEF dispatch_request, SendsRequest, RequestRefused
    <2>3. dispatched' = TRUE
      BY <1>6 DEF dispatch_request
    <2> QED BY <2>1, <2>2, <2>3 DEF Latch, Flags
  <1> QED
    BY <1>2, <1>3, <1>4, <1>5, <1>6 DEF Next, Owner, Tick, ReceiveFails, receive_one, Answer,
       NoAnswer, servoVars, busVars, vars

LEMMA WireStep ==
  ASSUME Wire, Turn, GoalInv, [Next]_vars
  PROVE  Wire'
  <1>0. cursor \in Servos /\ NothingSent \in [servo : Servos, goal : 0..MaxSequence]
    BY BusAssumption DEF GoalInv, Types, NothingSent, Servos
  <1>1. CASE UNCHANGED <<portVars, pc>>
    BY <1>1 DEF portVars, Wire
  <1>2. CASE BeginCycle
    BY <1>0, <1>2 DEF BeginCycle, Wire
  <1>3. ASSUME NEW got \in BOOLEAN, poll_response(got)
        PROVE  Wire'
    <2>1. rx' = rx \/ (rx # <<>> /\ rx' = Tail(rx))
      BY <1>3 DEF poll_response, PollAnswer, PollForeign, PollNothing
    <2>2. rx' \in {<<>>} \cup {<<f>> : f \in Frames}
      BY <2>1, RxCases DEF Wire
    <2>3. /\ UNCHANGED <<line, asked>> \/ (line' = <<>> /\ asked' = {})
          /\ pc' \in {"idle", "dispatch"} /\ UNCHANGED <<lastError, sent>>
      BY <1>3 DEF poll_response, EndCycle, LineUnread
    <2>4. line' \in Seq(OnLine) /\ Len(line') <= MaxLine
      <3>1. CASE UNCHANGED line
        BY <3>1 DEF Wire
      <3>2. CASE line' = <<>>
        BY <3>2, EmptySeq, BusAssumption
      <3> QED BY <2>3, <3>1, <3>2
    <2> QED BY <2>2, <2>3, <2>4 DEF Wire
  <1>4. ASSUME NEW got \in BOOLEAN, dispatch_request(got)
        PROVE  Wire'
    <2>1. sent' \in [servo : Servos, goal : 0..MaxSequence]
      BY <1>4, DispatchStep
    <2>2. /\ UNCHANGED rx /\ pc' \in {"idle", "receive"}
          /\ lastError' \in {"timeout", "failed", lastError}
          /\ asked' \in {asked, asked \cup {cursor}, {}}
          /\ line' \in {line, <<>>}
      BY <1>4, Zenon DEF dispatch_request, SendsRequest, RequestRefused, write_all, WriteFails,
         publish_error, EndCycle, LineUnread
    <2>3. line' \in Seq(OnLine) /\ Len(line') <= MaxLine
      <3>1. CASE UNCHANGED line
        BY <3>1 DEF Wire
      <3>2. CASE line' = <<>>
        BY <3>2, EmptySeq, BusAssumption
      <3> QED BY <2>2, <3>1, <3>2
    <2> QED BY <1>0, <2>1, <2>2, <2>3 DEF Wire
  <1>5. CASE receive_one
    <2>0. rx = <<>>
      BY <1>5 DEF receive_one, Turn
    <2>1. /\ lastError' \in {"none", "timeout", "failed"} /\ sent' = NothingSent
          /\ UNCHANGED asked /\ pc' = "idle"
      BY <1>5 DEF receive_one, publish_error, EndCycle
    <2>2. rx' \in {<<>>} \cup {<<f>> : f \in Frames} /\ line' \in Seq(OnLine)
          /\ Len(line') <= MaxLine
      <3>1. CASE FirstFrame > 0
        <4>1. FirstFrame \in 1..Len(line) /\ line[FirstFrame] \in Frames
          BY <3>1, FirstFrameOnLine DEF Wire
        <4>2. rx' = Append(rx, line[FirstFrame]) /\ line' = SubSeq(line, FirstFrame + 1, Len(line))
          BY <1>5, <3>1 DEF receive_one
        <4> DEFINE n == FirstFrame
        <4> HIDE DEF n
        <4>3. line' \in Seq(OnLine) /\ Len(line') <= Len(line) /\ Len(line) \in Nat
              /\ Len(line') \in Nat
          BY <4>1, <4>2, LineShrinks, LenProperties DEF Wire
        <4>4. Len(line') <= MaxLine
          BY <4>3, BusAssumption DEF Wire
        <4>5. rx' = <<line[FirstFrame]>>
          BY <2>0, <4>2
        <4> QED BY <4>1, <4>3, <4>4, <4>5
      <3>2. CASE ~(FirstFrame > 0)
        <4>1. rx' = rx /\ line' = <<>>
          BY <1>5, <3>2 DEF receive_one
        <4> QED BY <2>0, <4>1, BusAssumption
      <3> QED BY <3>1, <3>2
    <2> QED BY <1>0, <2>1, <2>2 DEF Wire
  <1>6. CASE ReceiveFails
    BY <1>0, <1>6 DEF ReceiveFails, publish_error, EndCycle, Wire
  <1>7. ASSUME NEW i \in Servos, Answer(i)
        PROVE  Wire'
    <2>1. PICK f \in {Status(i), Corrupt, Noise} : line' = Append(line, f)
      BY <1>7 DEF Answer
    <2>2. f \in OnLine
      BY <2>1 DEF OnLine, Frames
    <2>3. line' \in Seq(OnLine) /\ Len(line') = Len(line) + 1 /\ Len(line) \in Nat
      BY <2>1, <2>2 DEF Wire
    <2>4. Len(line) < MaxLine /\ asked' \subseteq Servos /\ UNCHANGED <<rx, lastError, sent, pc>>
      BY <1>7 DEF Answer, Wire
    <2>5. Len(line') <= MaxLine
      BY <2>3, <2>4, BusAssumption
    <2> QED BY <2>3, <2>4, <2>5 DEF Wire
  <1>8. ASSUME NEW i \in Servos, NoAnswer(i)
        PROVE  Wire'
    BY <1>8 DEF NoAnswer, Wire
  <1> QED
    BY <1>1, <1>2, <1>3, <1>4, <1>5, <1>6, <1>7, <1>8
    DEF Next, Owner, Stage, stage_command, Tick, portVars, vars

LEMMA TurnStep ==
  ASSUME Wire, Turn, [Next]_vars
  PROVE  Turn'
  <1>1. CASE UNCHANGED <<rx, pc, dispatched>>
    BY <1>1 DEF Turn
  <1>2. CASE BeginCycle
    BY <1>2 DEF BeginCycle, Turn, busVars
  <1>3. ASSUME NEW got \in BOOLEAN, poll_response(got)
        PROVE  Turn'
    <2>1. rx' = <<>>
      BY <1>3, RxCases DEF poll_response, PollAnswer, PollForeign, PollNothing
    <2> QED BY <1>3, <2>1 DEF poll_response, EndCycle, Turn
  <1>4. ASSUME NEW got \in BOOLEAN, dispatch_request(got)
        PROVE  Turn'
    <2>1. rx = <<>> /\ UNCHANGED rx /\ dispatched' = TRUE
      BY <1>4 DEF dispatch_request, Turn
    <2> QED BY <2>1 DEF Turn
  <1>5. CASE receive_one \/ ReceiveFails
    <2>1. pc = "receive" /\ pc' = "idle" /\ UNCHANGED dispatched
      BY <1>5 DEF receive_one, ReceiveFails, EndCycle, busVars
    <2> QED BY <2>1 DEF Turn
  <1> QED
    BY <1>1, <1>2, <1>3, <1>4, <1>5
    DEF Next, Owner, Stage, stage_command, Tick, Answer, NoAnswer, busVars, portVars, vars

\* Type correctness.  In particular the receive queue never holds more than one
\* frame, however answers are delayed and writes fail, so that the push of
\* receive_one cannot find it full (serial_transport.cpp:325).
THEOREM BusTypes == Spec => []TypeOK
  <1> DEFINE BusInv == Flags /\ Wire /\ Turn
  <1>1. Init => BusInv
    <2> SUFFICES ASSUME Init PROVE BusInv
      OBVIOUS
    <2>1. Flags
      BY DEF Init, Flags
    <2>2. NothingSent \in [servo : Servos, goal : 0..MaxSequence]
      BY BusAssumption DEF NothingSent, Servos
    <2>3. Wire
      BY <2>2, BusAssumption DEF Init, Wire
    <2>4. Turn
      BY DEF Init, Turn
    <2> QED BY <2>1, <2>3, <2>4
  <1>2. BusInv /\ GoalInv /\ [Next]_vars => BusInv'
    BY FlagsStep, WireStep, TurnStep DEF GoalInv
  <1>3. BusInv /\ GoalInv => TypeOK
    BY DEF GoalInv, Types, Flags, Wire, TypeOK
  <1> HIDE DEF BusInv
  <1> QED BY <1>1, <1>2, <1>3, GoalInvariant, PTL DEF Spec
=============================================================================
