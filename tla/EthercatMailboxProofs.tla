----------------------- MODULE EthercatMailboxProofs ------------------------
(***************************************************************************)
(* The mailbox's safety properties for any number of objects, requests and *)
(* generations.  The inductive invariant has one part per question:        *)
(*   Admission    when a cycle can be running,                             *)
(*   Locking      which thread is where while a mutex is held,             *)
(*   Generations  which generation the mailbox and the closers work on,    *)
(*   Table        which entries of requests_ are in use,                   *)
(*   Slot         whose transfer the backend is running,                   *)
(*   Closing      who still answers for a request that has not ended,      *)
(*   Answers      what a client that was told "completed" may rely on.     *)
(***************************************************************************)
EXTENDS EthercatMailbox, TLAPS

CloseWork == {"lock", "fail"}
MayRunCycle == {"inactive", "mailbox", "lock", "fail", "wait"}

\* The gate is open only between open and close, a cycle runs only when it was
\* admitted and before close has waited for it.
Admission ==
    /\ inCycle <=> owner.pc # "idle"
    /\ gateOpen => mpc = "idle"
    /\ activated <=> gateOpen \/ mpc \in MayRunCycle \cup {"activate", "admit"}
    /\ inCycle => gateOpen \/ mpc \in MayRunCycle

\* A program counter inside a critical section is the one of the lock's holder.
Locking ==
    /\ lifecycleLock = "master" <=> mpc \in CloseWork
    /\ lifecycleLock = "frontend" <=> fpc \in CloseWork \cup {"open"}
    /\ requestsLock = "master" <=> mpc = "fail"
    /\ requestsLock = "frontend" <=> fpc = "fail"
    /\ requestsLock = "client" <=> status.id # 0

\* There is one generation at a time, zero while the master is closed; the
\* mailbox is open in it or not at all, and is closed for good once the master's
\* close has been through it.  A closer works on that generation.
Generations ==
    /\ openGen \in {0, generation} /\ activeGen \in {0, generation}
    /\ generation = 0 <=> mpc = "idle" /\ ~gateOpen
    /\ mpc \in {"mailbox", "lock", "fail", "wait", "reset"} => activeGen = 0
    /\ mpc \in {"lock", "fail", "wait", "reset"} => openGen = 0
    /\ mpc \in {"wait", "reset"} \/ generation = 0 => fpc = "idle"
    /\ mpc \in CloseWork => closer["master"].gen = generation
    /\ fpc # "idle" => closer["frontend"].gen = generation /\ openGen = 0

Table ==
    /\ \A i \in Ids : i >= nextId => requests[i] = Unused
    /\ \A i \in Ids : i < nextId => /\ requests[i].object \in Objects
                                    /\ requests[i].phase # "unused"
    /\ staged < nextId

\* The owner works on the staged request, and so does the backend: a transfer
\* belongs to the request in the slot until it ends.
Slot ==
    /\ owner.pc \in {"phase", "progress", "terminalize", "current", "store", "clear"}
          => owner.request = staged /\ staged # 0
    /\ transfer # NoTransfer => /\ transfer.request = staged /\ staged # 0
                                /\ transfer.object = requests[staged].object
    /\ owner.pc \in {"terminalize", "current", "store", "clear"} \/ mpc = "reset"
          => transfer = NoTransfer
    /\ ~foreign

Live(i) == requests[i].phase \notin Terminal \cup {"unused"}

\* The closer c has not come to request i yet.
Ahead(c, i) == ClosePc(c) = "lock" \/ (ClosePc(c) = "fail" /\ closer[c].id <= i)

Closing ==
    \A i \in Ids : Live(i) => /\ requests[i].gen = generation
                              /\ generation # 0
                              /\ openGen = generation \/ \E c \in Closers : Ahead(c, i)

\* The closer c has loaded the phase of request i.
Judging(c, i) == ClosePc(c) = "fail" /\ closer[c].id = i /\ closer[c].phase # "none"

Answers ==
    /\ owner.pc \in {"current", "store"} => requests[owner.request].phase = "terminalizing"
    /\ status.id # 0 /\ status.phase = "completed" => requests[status.id].phase = "completed"
    /\ \A i \in Ids : "completed" \in reports[i]
          => /\ requests[i].phase = "completed"
             /\ status.id = i => status.phase = "completed"
             /\ \A c \in Closers : ~Judging(c, i)

IInv ==
    /\ Typed /\ Admission /\ Locking /\ Generations /\ Table /\ Slot /\ Closing
    /\ Answers

-----------------------------------------------------------------------------
(* Type correctness *)

USE RequestAssumption, GenerationAssumption DEF Ids, Generation, Closers

\* The owner's locals, field by field.
LEMMA OwnerFields ==
    ASSUME owner \in OwnerState
    PROVE  /\ owner.pc \in OwnerPcs /\ owner.request \in 0..MaxRequests
           /\ owner.result \in Results /\ owner.current \in BOOLEAN
           /\ owner = [pc |-> owner.pc, request |-> owner.request,
                      result |-> owner.result, current |-> owner.current]
  BY DEF OwnerState

LEMMA OwnerRecord ==
    ASSUME NEW p \in OwnerPcs, NEW i \in 0..MaxRequests, NEW r \in Results,
           NEW b \in BOOLEAN
    PROVE  [pc |-> p, request |-> i, result |-> r, current |-> b] \in OwnerState
  BY Zenon DEF OwnerState

\* What the backend may answer to progress_download_sdo or progress_upload_sdo.
LEMMA ProgressAnswer ==
    ASSUME NEW o, NEW r, NEW answer \in SdoProgress(o, r)
    PROVE  /\ answer[1] \in {"pending", "completed", "failed"}
           /\ \/ answer[2] = NoTransfer \/ answer[2] = transfer
              \/ transfer = NoTransfer /\ answer[2] = [object |-> o, request |-> r]
           /\ answer[1] # "pending"
                 => answer[2] = NoTransfer \/ (transfer # NoTransfer /\ transfer.object # o)
  <1>1. CASE transfer = NoTransfer
    <2>1. SdoProgress(o, r) = {<<"pending", [object |-> o, request |-> r]>>,
                               <<"failed", NoTransfer>>}
      BY <1>1, Zenon DEF SdoProgress
    <2>2. CASE answer = <<"pending", [object |-> o, request |-> r]>>
      BY <1>1, <2>2
    <2>3. CASE answer = <<"failed", NoTransfer>>
      <3>1. answer[1] = "failed" /\ answer[2] = NoTransfer
        BY <2>3
      <3> QED BY <3>1
    <2> QED BY <2>1, <2>2, <2>3, Zenon
  <1>2. CASE transfer # NoTransfer /\ transfer.object # o
    <2>1. SdoProgress(o, r) = {<<"failed", transfer>>}
      BY <1>2 DEF SdoProgress
    <2> QED BY <1>2, <2>1
  <1>3. CASE transfer # NoTransfer /\ transfer.object = o
    <2>1. SdoProgress(o, r) = {<<"pending", transfer>>, <<"completed", NoTransfer>>,
                               <<"failed", NoTransfer>>}
      BY <1>3, Zenon DEF SdoProgress
    <2>2. CASE answer = <<"pending", transfer>>
      BY <1>3, <2>2
    <2>3. CASE answer = <<"completed", NoTransfer>> \/ answer = <<"failed", NoTransfer>>
      <3>1. answer[1] \in {"completed", "failed"} /\ answer[2] = NoTransfer
        BY <2>3
      <3> QED BY <3>1
    <2> QED BY <2>1, <2>2, <2>3, Zenon
  <1> QED BY <1>1, <1>2, <1>3, Zenon

\* What Progress makes of the answer.
LEMMA ProgressMoves ==
    ASSUME Progress
    PROVE  \E a \in {"pending", "completed", "failed"} :
              /\ \E p \in {"leave", "terminalize"} :
                    /\ owner' = [owner EXCEPT !.pc = p, !.result = a]
                    /\ p = "leave" <=> a = "pending"
              /\ \/ transfer' = NoTransfer \/ transfer' = transfer
                 \/ /\ transfer = NoTransfer
                    /\ transfer' = [object |-> requests[owner.request].object,
                                    request |-> owner.request]
              /\ a # "pending"
                    => \/ transfer' = NoTransfer
                       \/ /\ transfer # NoTransfer
                          /\ transfer.object # requests[owner.request].object
  <1> DEFINE o == requests[owner.request].object
             r == owner.request
  <1>1. PICK answer \in SdoProgress(o, r) :
           /\ transfer' = answer[2]
           /\ owner' = [owner EXCEPT !.pc = IF answer[1] = "pending" THEN "leave" ELSE "terminalize",
                                     !.result = answer[1]]
    BY Zenon DEF Progress
  <1> HIDE DEF o, r
  <1> DEFINE a == answer[1]
  <1>2. /\ a \in {"pending", "completed", "failed"}
        /\ \/ transfer' = NoTransfer \/ transfer' = transfer
           \/ transfer = NoTransfer /\ transfer' = [object |-> o, request |-> r]
        /\ a # "pending"
              => transfer' = NoTransfer \/ (transfer # NoTransfer /\ transfer.object # o)
    BY <1>1, ProgressAnswer
  <1>3. owner' = [owner EXCEPT !.pc = IF a = "pending" THEN "leave" ELSE "terminalize",
                               !.result = a]
    BY <1>1
  <1> HIDE DEF a
  <1>4. \E p \in {"leave", "terminalize"} :
           /\ owner' = [owner EXCEPT !.pc = p, !.result = a]
           /\ p = "leave" <=> a = "pending"
    BY <1>2, <1>3, Zenon
  <1> QED BY <1>2, <1>4, Zenon DEF o, r

\* What every step of the owner does to its locals.
LEMMA OwnerMoves ==
    ASSUME Typed, OwnerNext
    PROVE  owner' \in OwnerState
  <1> SUFFICES \E p \in OwnerPcs, i \in 0..MaxRequests, r \in Results, b \in BOOLEAN :
                  owner' = [pc |-> p, request |-> i, result |-> r, current |-> b]
    BY OwnerRecord, Zenon
  <1>0. /\ owner \in OwnerState /\ staged \in 0..MaxRequests /\ 0 \in 0..MaxRequests
        /\ FALSE \in BOOLEAN
    BY DEF Typed
  <1> USE OwnerFields, <1>0 DEF OwnerPcs, Results
  <1>1. CASE try_enter_cycle \/ leave_cycle
    BY <1>1, Zenon DEF try_enter_cycle, leave_cycle, IdleOwner
  <1>2. CASE progress_cancel_sdo \/ NoCancel \/ LoadStaged
    BY <1>2, ZenonT(30) DEF progress_cancel_sdo, NoCancel, LoadStaged
  <1>3. CASE Activate \/ Terminalize \/ StoreResult \/ ClearStaged
    BY <1>3 DEF Activate, Terminalize, StoreResult, ClearStaged
  <1>4. CASE Progress
    <2>1. PICK r \in Results, p \in OwnerPcs :
             owner' = [owner EXCEPT !.pc = p, !.result = r]
      BY <1>4, ProgressMoves, Zenon DEF Terminal
    <2>2. owner' = [pc |-> p, request |-> owner.request, result |-> r,
                    current |-> owner.current]
      BY <2>1, Zenon
    <2> QED BY <2>2, Zenon
  <1>5. CASE LoadCurrent
    <2>1. (activeGen = generation /\ openGen = generation) \in BOOLEAN
      BY Zenon
    <2> QED BY <1>5, <2>1, Zenon DEF LoadCurrent
  <1> QED BY <1>1, <1>2, <1>3, <1>4, <1>5, Zenon DEF OwnerNext, owner_step

LEMMA SetPhase ==
    ASSUME requests \in [Ids -> Request], NEW i, NEW p \in Phases
    PROVE  [requests EXCEPT ![i].phase = p] \in [Ids -> Request]
  BY Zenon DEF Request

LEMMA SetCloser ==
    ASSUME closer \in [Closers -> Closer], NEW c \in Closers, NEW g \in Generation,
           NEW i \in 1..(MaxRequests + 1), NEW p \in Phases \cup {"none"}
    PROVE  /\ [closer EXCEPT ![c].gen = g] \in [Closers -> Closer]
           /\ [closer EXCEPT ![c].id = i, ![c].phase = p] \in [Closers -> Closer]
           /\ [closer EXCEPT ![c].phase = p] \in [Closers -> Closer]
  BY Zenon DEF Closer

LEMMA OwnerTypes ==
    ASSUME Typed, Slot, OwnerNext
    PROVE  Typed'
  <1> USE DEF Typed, UnchangedByOwner, masterVars, frontVars, clientVars
  <1>1. owner' \in OwnerState
    BY OwnerMoves, Zenon
  <1>2. owner.request \in 0..MaxRequests
    BY OwnerFields, Zenon
  <1>3. CASE try_enter_cycle \/ leave_cycle \/ NoCancel \/ LoadStaged \/ LoadCurrent
    BY <1>1, <1>3, SMTT(30) DEF try_enter_cycle, leave_cycle, NoCancel, LoadStaged, LoadCurrent
  <1>4. CASE progress_cancel_sdo
    BY <1>1, <1>4, SMTT(30) DEF progress_cancel_sdo, SdoCancel, NoTransfer
  <1>5. CASE Activate \/ Terminalize \/ StoreResult
    <2>1. PICK p \in Phases :
             \/ requests' = [requests EXCEPT ![owner.request].phase = p]
             \/ requests' = requests
      BY <1>5, Zenon DEF Activate, Terminalize, StoreResult, StoredPhase, Phases, Terminal
    <2>2. requests' \in [Ids -> Request]
      BY <2>1, SetPhase, SMTT(30)
    <2> QED BY <1>1, <1>5, <2>2, SMTT(30) DEF Activate, Terminalize, StoreResult
  <1>6. CASE Progress
    <2>1. owner.request \in Ids
      BY <1>2, <1>6, SMTT(30) DEF Progress, Slot
    <2>2. requests[owner.request].object \in Objects \cup {0}
      BY <2>1, Zenon DEF Request
    <2>3. transfer' \in [object : Objects \cup {0}, request : 0..MaxRequests]
      BY <1>2, <1>6, <2>2, ProgressMoves, SMTT(30) DEF NoTransfer
    <2> QED BY <1>1, <1>6, <2>3, ZenonT(30) DEF Progress
  <1>7. CASE ClearStaged
    BY <1>1, <1>7, SMTT(30) DEF ClearStaged, SlotCleared
  <1> QED BY <1>3, <1>4, <1>5, <1>6, <1>7, Zenon DEF OwnerNext, owner_step

LEMMA CloserTypes ==
    ASSUME Typed, NEW c \in Closers, close_generation(c)
    PROVE  Typed'
  <1> USE DEF Typed, masterVars, frontVars, requestVars, clientVars
  <1>1. "none" \in Phases \cup {"none"} /\ "failed" \in Phases /\ 1 \in 1..(MaxRequests + 1)
    BY DEF Phases, Terminal
  <1>2. mpc' \in {"idle", "activate", "admit", "inactive", "mailbox", "lock", "fail", "wait", "reset"}
        /\ fpc' \in {"idle", "open", "lock", "fail"}
    BY Zenon DEF close_generation, LockRequests, LoadPhase, AwaitOwner, FailRequest, UnlockRequests,
           Visiting, SetClosePc
  <1>3. CASE LockRequests(c)
    <2>1. closer' \in [Closers -> Closer]
      BY <1>1, <1>3, SetCloser, Zenon DEF LockRequests
    <2> QED BY <1>2, <1>3, <2>1, Zenon DEF LockRequests
  <1>4. CASE UnlockRequests(c)
    <2>1. cancelGen' \in Generation
      BY <1>4, Zenon DEF UnlockRequests, CancelRequest, Closer
    <2> QED BY <1>2, <1>4, <2>1, Zenon DEF UnlockRequests
  <1>5. ASSUME Visiting(c), \/ NextRequest(c)
                            \/ closer' = [closer EXCEPT ![c].phase = Visited(c).phase],
               requests' = requests \/ requests' = [requests EXCEPT ![closer[c].id].phase = "failed"]
        PROVE  Typed'
    <2>1. closer[c].id \in Ids /\ closer[c].id + 1 \in 1..(MaxRequests + 1)
      BY <1>5, SMTT(30) DEF Visiting, Closer
    <2>2. Visited(c).phase \in Phases \cup {"none"}
      BY <2>1, Zenon DEF Visited, Request
    <2>3. closer' \in [Closers -> Closer]
      <3>1. CASE NextRequest(c)
        <4> DEFINE i == closer[c].id + 1
        <4>1. closer' = [closer EXCEPT ![c].id = i, ![c].phase = "none"]
          BY <3>1, Zenon DEF NextRequest
        <4>2. i \in 1..(MaxRequests + 1)
          BY <2>1, Zenon
        <4> HIDE DEF i
        <4> QED BY <1>1, <4>1, <4>2, SetCloser, Zenon
      <3>2. CASE closer' = [closer EXCEPT ![c].phase = Visited(c).phase]
        BY <1>1, <2>2, <3>2, SetCloser, Zenon
      <3> QED BY <1>5, <3>1, <3>2, Zenon
    <2>4. requests' \in [Ids -> Request]
      BY <1>1, <1>5, SetPhase, SMTT(30)
    <2> QED BY <1>5, <2>3, <2>4, SMTT(30) DEF Visiting
  <1>6. CASE LoadPhase(c)
    BY <1>5, <1>6, Zenon DEF LoadPhase
  <1>7. CASE AwaitOwner(c)
    BY <1>5, <1>7, Zenon DEF AwaitOwner
  <1>8. CASE FailRequest(c)
    BY <1>5, <1>8, Zenon DEF FailRequest
  <1> QED BY <1>3, <1>4, <1>6, <1>7, <1>8, Zenon DEF close_generation

LEMMA MasterTypes ==
    ASSUME Typed, MasterNext \/ FrontendNext
    PROVE  Typed'
  <1> USE DEF Typed, masterVars, frontVars, requestVars, clientVars
  <1>1. CASE MasterOpen
    BY <1>1 DEF MasterOpen
  <1>2. CASE MasterActivate \/ MasterInactive
    BY <1>2, SMTT(30) DEF MasterActivate, MasterInactive
  <1>6. CASE MasterAdmit \/ MasterCloseGate
    BY <1>6, Zenon DEF MasterAdmit, MasterCloseGate
  <1>7. CASE MasterDeactivate
    BY <1>7 DEF MasterDeactivate, NoTransfer
  <1>8. CASE reset_after_parent_deactivate
    BY <1>8 DEF reset_after_parent_deactivate
  <1>3. CASE close_for_parent
    <2>1. closer' \in [Closers -> Closer]
      BY <1>3, SetCloser, Zenon DEF close_for_parent
    <2> QED BY <1>3, <2>1 DEF close_for_parent
  <1>4. CASE open \/ close
    <2>1. PICK g \in Generation : closer' = [closer EXCEPT !["frontend"].gen = g]
      BY <1>4, Zenon DEF open, close
    <2>2. closer' \in [Closers -> Closer]
      BY <2>1, SetCloser, Zenon
    <2> QED BY <1>4, <2>2, SMTT(30) DEF open, close
  <1>5. CASE StoreOpen
    BY <1>5, Zenon DEF StoreOpen, Closer
  <1> QED BY <1>1, <1>2, <1>3, <1>4, <1>5, <1>6, <1>7, <1>8, CloserTypes, Zenon
          DEF MasterNext, FrontendNext

LEMMA ClientTypes ==
    ASSUME Typed, ClientNext \/ stage_one \/ \E o \in Objects : enqueue(o)
    PROVE  Typed'
  <1> USE DEF Typed, masterVars, frontVars, clientVars
  <1>1. ASSUME NEW i \in Ids, mailbox_status(i) PROVE Typed'
    BY <1>1 DEF mailbox_status, Request
  <1>2. CASE Report
    <2>1. reports' \in [Ids -> SUBSET Terminal]
      BY <1>2 DEF Report, Reported
    <2> QED BY <1>2, <2>1 DEF Report
  <1>3. CASE stage_one
    <2>1. PICK i \in Ids : /\ requests' = [requests EXCEPT ![i].phase = "staged"]
                           /\ staged' = i
      BY <1>3, Zenon DEF stage_one, Queued
    <2>2. "staged" \in Phases
      BY Zenon DEF Phases
    <2>3. requests' \in [Ids -> Request]
      BY <2>1, <2>2, SetPhase, Zenon
    <2> QED BY <1>3, <2>1, <2>3, SMTT(30) DEF stage_one
  <1>4. ASSUME NEW o \in Objects, enqueue(o) PROVE Typed'
    <2>1. requests' \in [Ids -> Request]
      BY <1>4, Zenon DEF enqueue, Request, Phases
    <2> QED BY <1>4, <2>1 DEF enqueue
  <1> QED BY <1>1, <1>2, <1>3, <1>4, Zenon DEF ClientNext

LEMMA TypeStep == Typed /\ Slot /\ [Next]_vars => Typed'
  <1>1. Typed /\ UNCHANGED vars => Typed'
    BY DEF Typed, vars, masterVars, frontVars, requestVars, clientVars
  <1> QED BY <1>1, OwnerTypes, MasterTypes, ClientTypes DEF Next

-----------------------------------------------------------------------------
(* Which thread changes what *)

LEMMA OwnerFrame ==
    ASSUME OwnerNext
    PROVE  UNCHANGED <<masterVars, frontVars, nextId, requestsLock, clientVars, closer>>
  BY Zenon DEF OwnerNext, owner_step, try_enter_cycle, leave_cycle, progress_cancel_sdo, NoCancel,
     LoadStaged, Activate, Progress, Terminalize, LoadCurrent, StoreResult, ClearStaged,
     UnchangedByOwner

LEMMA CloserFrame ==
    ASSUME NEW c \in Closers, close_generation(c)
    PROVE  /\ UNCHANGED <<activeGen, gateOpen, activated, generation, nextGen, openGen, nextId,
                          clientVars, inCycle, staged, transfer, owner, foreign>>
           /\ c = "master" => UNCHANGED fpc
           /\ c = "frontend" => UNCHANGED mpc
  BY Zenon DEF close_generation, LockRequests, LoadPhase, AwaitOwner, FailRequest, UnlockRequests,
     Visiting, SetClosePc, masterVars, frontVars

LEMMA OthersFrame ==
    ASSUME MasterNext \/ FrontendNext \/ ClientNext \/ stage_one \/ \E o \in Objects : enqueue(o)
    PROVE  UNCHANGED <<inCycle, owner, foreign>>
  BY CloserFrame, Zenon DEF MasterNext, FrontendNext, ClientNext, stage_one, enqueue, MasterOpen,
     MasterActivate, MasterAdmit, MasterCloseGate, MasterInactive, close_for_parent,
     MasterDeactivate, reset_after_parent_deactivate, open, StoreOpen, close, mailbox_status,
     Report

LEMMA QueueFrame ==
    ASSUME ClientNext \/ stage_one \/ \E o \in Objects : enqueue(o)
    PROVE  UNCHANGED <<masterVars, frontVars, inCycle, cancelGen, transfer, closer, owner,
                       foreign>>
  BY Zenon DEF ClientNext, stage_one, enqueue, mailbox_status, Report

LEMMA FrontFrame ==
    ASSUME open \/ StoreOpen \/ close
    PROVE  UNCHANGED <<masterVars, requestVars, clientVars, inCycle, cancelGen, staged, transfer,
                       owner, foreign>>
  BY Zenon DEF open, StoreOpen, close

-----------------------------------------------------------------------------
(* The cycle and the backend *)

LEMMA AdmissionStep ==
    ASSUME Typed, Admission, [Next]_vars
    PROVE  Admission'
  <1> USE DEF Admission, MayRunCycle
  <1>1. CASE OwnerNext
    <2>1. UNCHANGED <<gateOpen, mpc, activated>>
      BY <1>1, OwnerFrame, Zenon DEF masterVars
    <2>2. CASE try_enter_cycle
      BY <2>1, <2>2, Zenon DEF try_enter_cycle, IdleOwner
    <2>3. CASE leave_cycle
      BY <2>1, <2>3, Zenon DEF leave_cycle, IdleOwner
    <2>4. CASE owner_step
      <3>1. owner.pc # "idle" /\ UNCHANGED inCycle
        BY <2>4, Zenon DEF owner_step, progress_cancel_sdo, NoCancel, LoadStaged, Activate, Progress,
           Terminalize, LoadCurrent, StoreResult, ClearStaged
      <3>2. owner \in OwnerState
        BY Zenon DEF Typed
      <3>3. CASE Progress
        <4>1. owner'.pc # "idle"
          BY <3>2, <3>3, ProgressMoves, Zenon DEF OwnerState
        <4> QED BY <2>1, <3>1, <4>1, Zenon
      <3>4. CASE ~Progress
        <4>1. owner'.pc # "idle"
          BY <2>4, <3>2, <3>4, Zenon DEF owner_step, progress_cancel_sdo, NoCancel, LoadStaged,
             Activate, Terminalize, LoadCurrent, StoreResult, ClearStaged, OwnerState
        <4> QED BY <2>1, <3>1, <4>1, Zenon
      <3> QED BY <3>3, <3>4, Zenon
    <2> QED BY <1>1, <2>2, <2>3, <2>4, Zenon DEF OwnerNext
  <1>2. CASE MasterNext
    <2>1. UNCHANGED <<inCycle, owner>>
      BY <1>2, OthersFrame
    <2>2. CASE MasterOpen \/ MasterActivate \/ MasterAdmit
      BY <2>1, <2>2 DEF MasterOpen, MasterActivate, MasterAdmit
    <2>3. CASE MasterCloseGate \/ MasterInactive \/ close_for_parent
      BY <2>1, <2>3 DEF MasterCloseGate, MasterInactive, close_for_parent
    <2>4. CASE MasterDeactivate \/ reset_after_parent_deactivate
      BY <2>1, <2>4 DEF MasterDeactivate, reset_after_parent_deactivate, NoCycle
    <2>5. CASE close_generation("master")
      <3>1. UNCHANGED <<gateOpen, activated>>
        BY <2>5, CloserFrame, Zenon
      <3>2. mpc \in CloseWork /\ mpc' \in {"lock", "fail", "wait"}
        BY <2>5, Zenon DEF close_generation, LockRequests, LoadPhase, AwaitOwner, FailRequest,
           UnlockRequests, Visiting, SetClosePc, ClosePc, masterVars, CloseWork
      <3> QED BY <2>1, <3>1, <3>2, Zenon DEF CloseWork
    <2> QED BY <1>2, <2>2, <2>3, <2>4, <2>5, Zenon DEF MasterNext
  <1>3. CASE FrontendNext
    <2>1. UNCHANGED <<inCycle, owner, gateOpen, activated, mpc>>
      BY <1>3, FrontFrame, CloserFrame, Zenon DEF FrontendNext, masterVars
    <2> QED BY <2>1, Zenon
  <1>4. CASE ClientNext \/ stage_one \/ \E o \in Objects : enqueue(o)
    <2>1. UNCHANGED <<inCycle, owner, gateOpen, activated, mpc>>
      BY <1>4, QueueFrame, Zenon DEF masterVars
    <2> QED BY <2>1, Zenon
  <1>5. CASE UNCHANGED vars
    BY <1>5, Zenon DEF vars, masterVars
  <1> QED BY <1>1, <1>2, <1>3, <1>4, <1>5, Zenon DEF Next

-----------------------------------------------------------------------------
(* The two mutexes *)

LEMMA LockingStep ==
    ASSUME Typed, Locking, [Next]_vars
    PROVE  Locking'
  <1> USE DEF Locking, CloseWork
  <1>0. /\ lifecycleLock \in {"master", "frontend", "none"}
        /\ requestsLock \in {"master", "frontend", "none", "client"}
    BY Zenon DEF Typed
  <1>1. CASE OwnerNext
    <2>1. UNCHANGED <<lifecycleLock, requestsLock, mpc, fpc, status>>
      BY <1>1, OwnerFrame, Zenon DEF masterVars, frontVars, clientVars
    <2> QED BY <2>1, Zenon
  <1>2. CASE MasterOpen \/ MasterActivate \/ MasterAdmit \/ MasterCloseGate \/ MasterInactive
    BY <1>2, Zenon DEF MasterOpen, MasterActivate, MasterAdmit, MasterCloseGate, MasterInactive,
       frontVars, requestVars, clientVars
  <1>3. CASE close_for_parent \/ MasterDeactivate \/ reset_after_parent_deactivate
    BY <1>3, Zenon DEF close_for_parent, MasterDeactivate, reset_after_parent_deactivate,
       frontVars, requestVars, clientVars
  <1>4. CASE open \/ StoreOpen \/ close
    <2>1. UNCHANGED <<mpc, requestsLock, status>>
      BY <1>4, FrontFrame, Zenon DEF masterVars, requestVars, clientVars
    <2> QED BY <1>0, <1>4, <2>1, Zenon DEF open, StoreOpen, close
  <1>5. ASSUME NEW c \in Closers, close_generation(c) PROVE Locking'
    <2>1. UNCHANGED status /\ (c = "master" => UNCHANGED fpc) /\ (c = "frontend" => UNCHANGED mpc)
      BY <1>5, CloserFrame, Zenon DEF clientVars
    <2>2. CASE LockRequests(c)
      BY <1>0, <2>1, <2>2, Zenon DEF LockRequests, ClosePc, SetClosePc
    <2>3. CASE UnlockRequests(c)
      BY <1>0, <2>1, <2>3, Zenon DEF UnlockRequests, ClosePc, SetClosePc
    <2>4. CASE Visiting(c)
      BY <2>1, <2>4, Zenon DEF Visiting, masterVars, frontVars
    <2> QED BY <1>5, <2>2, <2>3, <2>4, Zenon DEF close_generation, LoadPhase, AwaitOwner, FailRequest
  <1>6. CASE ClientNext \/ stage_one \/ \E o \in Objects : enqueue(o)
    <2>1. UNCHANGED <<lifecycleLock, mpc, fpc>>
      BY <1>6, QueueFrame, Zenon DEF masterVars, frontVars
    <2>2. ASSUME NEW i \in Ids, mailbox_status(i) PROVE Locking'
      BY <2>1, <2>2 DEF mailbox_status
    <2>3. CASE Report
      BY <1>0, <2>1, <2>3, Zenon DEF Report
    <2>4. CASE stage_one \/ \E o \in Objects : enqueue(o)
      BY <2>1, <2>4, Zenon DEF stage_one, enqueue, clientVars
    <2> QED BY <1>6, <2>2, <2>3, <2>4, Zenon DEF ClientNext
  <1>7. CASE UNCHANGED vars
    BY <1>7, Zenon DEF vars, masterVars, frontVars, requestVars, clientVars
  <1> QED BY <1>1, <1>2, <1>3, <1>4, <1>5, <1>6, <1>7, Zenon DEF Next, MasterNext, FrontendNext

-----------------------------------------------------------------------------
(* Generations *)

\* close_generation leaves the generation of both closers alone and stays in
\* the critical section or leaves it.
LEMMA CloserMoves ==
    ASSUME Typed, NEW c \in Closers, close_generation(c)
    PROVE  /\ \A d \in Closers : closer'[d].gen = closer[d].gen
           /\ \A d \in Closers : d # c => closer'[d] = closer[d]
           /\ ClosePc(c) \in CloseWork
           /\ c = "master" => mpc' \in CloseWork \cup {"wait"}
           /\ c = "frontend" => fpc' \in CloseWork \cup {"idle"}
  <1> USE DEF Typed, Closer, CloseWork
  <1>1. CASE LockRequests(c)
    BY <1>1, Zenon DEF LockRequests, ClosePc, SetClosePc
  <1>2. CASE UnlockRequests(c)
    BY <1>2, Zenon DEF UnlockRequests, ClosePc, SetClosePc
  <1>3. CASE LoadPhase(c) \/ AwaitOwner(c) \/ FailRequest(c)
    <2>1. Visiting(c) /\ (NextRequest(c) \/ closer' = [closer EXCEPT ![c].phase = Visited(c).phase])
      BY <1>3, Zenon DEF LoadPhase, AwaitOwner, FailRequest
    <2>2. ClosePc(c) = "fail" /\ UNCHANGED <<mpc, fpc>>
      BY <2>1, Zenon DEF Visiting, masterVars, frontVars
    <2>3. \A d \in Closers : closer'[d].gen = closer[d].gen /\ (d # c => closer'[d] = closer[d])
      BY <2>1, SMTT(30) DEF NextRequest
    <2> QED BY <2>2, <2>3, Zenon DEF ClosePc
  <1> QED BY <1>1, <1>2, <1>3, Zenon DEF close_generation

LEMMA GenerationsStep ==
    ASSUME Typed, Admission, Locking, Generations, [Next]_vars
    PROVE  Generations'
  <1> USE DEF Generations, CloseWork
  <1>0. /\ fpc \in {"idle", "open", "lock", "fail"} /\ nextGen # 0
        /\ lifecycleLock = "none" => fpc = "idle"
        /\ mpc \in CloseWork => fpc = "idle"
        /\ gateOpen => mpc = "idle"
    BY DEF Typed, Locking, Admission
  <1>1. CASE OwnerNext \/ ClientNext \/ stage_one \/ \E o \in Objects : enqueue(o)
    <2>1. UNCHANGED <<activeGen, gateOpen, generation, openGen, mpc, fpc, closer>>
      BY <1>1, OwnerFrame, QueueFrame, Zenon DEF masterVars, frontVars
    <2> QED BY <2>1, Zenon
  <1>2. CASE MasterOpen
    BY <1>0, <1>2, Zenon DEF MasterOpen
  <1>3. CASE MasterActivate \/ MasterAdmit \/ MasterCloseGate
    BY <1>0, <1>3, Zenon DEF MasterActivate, MasterAdmit, MasterCloseGate, frontVars
  <1>4. CASE MasterInactive \/ MasterDeactivate
    BY <1>0, <1>4, Zenon DEF MasterInactive, MasterDeactivate, frontVars
  <1>5. CASE close_for_parent
    <2>1. closer'["master"].gen = generation
      BY <1>5, Zenon DEF close_for_parent, Typed, Closer
    <2> QED BY <1>0, <1>5, <2>1, Zenon DEF close_for_parent
  <1>6. CASE reset_after_parent_deactivate
    BY <1>0, <1>6, Zenon DEF reset_after_parent_deactivate
  <1>7. CASE open
    <2>1. closer'["frontend"].gen = activeGen /\ closer'["master"] = closer["master"]
      BY <1>7, Zenon DEF open, Typed, Closer
    <2>2. UNCHANGED <<activeGen, gateOpen, generation, mpc>>
      BY <1>7, Zenon DEF open, masterVars
    <2> QED BY <1>0, <1>7, <2>1, <2>2, Zenon DEF open
  <1>8. CASE StoreOpen
    <2>1. UNCHANGED <<activeGen, gateOpen, generation, mpc, closer>>
      BY <1>8, Zenon DEF StoreOpen, masterVars
    <2> QED BY <1>0, <1>8, <2>1, Zenon DEF StoreOpen
  <1>9. CASE close
    <2>1. closer'["frontend"].gen = openGen /\ closer'["master"] = closer["master"]
      BY <1>9, Zenon DEF close, Typed, Closer
    <2>2. UNCHANGED <<activeGen, gateOpen, generation, mpc>>
      BY <1>9, Zenon DEF close, masterVars
    <2> QED BY <1>0, <1>9, <2>1, <2>2, Zenon DEF close
  <1>10. CASE close_generation("master")
    <2>1. UNCHANGED <<activeGen, gateOpen, generation, openGen, fpc>>
      BY <1>10, CloserFrame, Zenon
    <2>2. /\ closer'["master"].gen = closer["master"].gen
          /\ closer'["frontend"].gen = closer["frontend"].gen
          /\ mpc \in CloseWork /\ mpc' \in CloseWork \cup {"wait"}
      BY <1>10, CloserMoves, Zenon DEF ClosePc
    <2> QED BY <1>0, <2>1, <2>2, Zenon
  <1>11. CASE close_generation("frontend")
    <2>1. UNCHANGED <<activeGen, gateOpen, generation, openGen, mpc>>
      BY <1>11, CloserFrame, Zenon
    <2>2. /\ closer'["master"].gen = closer["master"].gen
          /\ closer'["frontend"].gen = closer["frontend"].gen
          /\ fpc \in CloseWork /\ fpc' \in CloseWork \cup {"idle"}
      BY <1>11, CloserMoves, Zenon DEF ClosePc
    <2> QED BY <1>0, <2>1, <2>2, Zenon
  <1>12. CASE UNCHANGED vars
    BY <1>12, Zenon DEF vars, masterVars, frontVars
  <1> QED BY <1>1, <1>2, <1>3, <1>4, <1>5, <1>6, <1>7, <1>8, <1>9, <1>10, <1>11, <1>12, Zenon
          DEF Next, MasterNext, FrontendNext

-----------------------------------------------------------------------------
(* The request table *)

\* Apart from enqueue a step changes the phase of one queued request, or none.
LEMMA PhaseChange ==
    ASSUME Typed, Table, Slot, [Next]_vars, \A o \in Objects : ~enqueue(o)
    PROVE  /\ UNCHANGED nextId
           /\ \/ UNCHANGED requests
              \/ \E i \in Ids, p \in Phases \ {"unused"} :
                    i < nextId /\ requests' = [requests EXCEPT ![i].phase = p]
  <1> USE DEF Phases, Terminal
  <1>1. CASE OwnerNext
    <2>1. UNCHANGED nextId
      BY <1>1, OwnerFrame
    <2>2. CASE Activate \/ Terminalize \/ StoreResult
      <3>1. owner.request \in Ids /\ owner.request < nextId
        BY <2>2, OwnerFields DEF Typed, Slot, Table, Activate, Terminalize, StoreResult
      <3> QED BY <2>1, <2>2, <3>1, Zenon DEF Activate, Terminalize, StoreResult, StoredPhase
    <2>3. CASE ~(Activate \/ Terminalize \/ StoreResult)
      BY <1>1, <2>1, <2>3, Zenon DEF OwnerNext, owner_step, try_enter_cycle, leave_cycle,
         progress_cancel_sdo, NoCancel, LoadStaged, Progress, LoadCurrent, ClearStaged
    <2> QED BY <2>2, <2>3, Zenon
  <1>2. ASSUME NEW c \in Closers, close_generation(c)
        PROVE  UNCHANGED nextId /\ \/ UNCHANGED requests
                                   \/ \E i \in Ids, p \in Phases \ {"unused"} :
                                        i < nextId /\ requests' = [requests EXCEPT ![i].phase = p]
    <2>1. UNCHANGED nextId
      BY <1>2, CloserFrame, Zenon
    <2>2. CASE FailRequest(c)
      <3>1. closer[c].id \in Ids /\ closer[c].id < nextId
        BY <2>2, SMTT(30) DEF FailRequest, Visiting, Typed, Closer
      <3> QED BY <2>1, <2>2, <3>1, Zenon DEF FailRequest
    <2>3. CASE ~FailRequest(c)
      BY <1>2, <2>1, <2>3, Zenon DEF close_generation, LockRequests, LoadPhase, AwaitOwner,
         UnlockRequests
    <2> QED BY <2>2, <2>3, Zenon
  <1>3. CASE stage_one
    <2>1. PICK i \in Queued : requests' = [requests EXCEPT ![i].phase = "staged"]
      BY <1>3, Zenon DEF stage_one
    <2>2. i \in Ids /\ i < nextId
      BY <2>1, SMTT(30) DEF Queued, Table, Unused, Typed
    <2> QED BY <1>3, <2>1, <2>2, Zenon DEF stage_one
  <1>4. CASE MasterOpen \/ MasterActivate \/ MasterAdmit \/ MasterCloseGate \/ MasterInactive
             \/ close_for_parent \/ MasterDeactivate \/ reset_after_parent_deactivate
    BY <1>4, Zenon DEF MasterOpen, MasterActivate, MasterAdmit, MasterCloseGate, MasterInactive,
       close_for_parent, MasterDeactivate, reset_after_parent_deactivate, requestVars
  <1>5. CASE open \/ StoreOpen \/ close
    BY <1>5, FrontFrame, Zenon DEF requestVars
  <1>6. CASE ClientNext
    BY <1>6, Zenon DEF ClientNext, mailbox_status, Report
  <1>7. CASE UNCHANGED vars
    BY <1>7 DEF vars, requestVars
  <1> QED BY <1>1, <1>2, <1>3, <1>4, <1>5, <1>6, <1>7, Zenon DEF Next, MasterNext, FrontendNext

\* What a request was queued for does not change.
LEMMA TableSteady ==
    ASSUME Typed, Table, Slot, [Next]_vars
    PROVE  /\ nextId <= nextId'
           /\ \A i \in Ids : i < nextId => /\ requests'[i].object = requests[i].object
                                           /\ requests'[i].gen = requests[i].gen
  <1>0. nextId \in Nat /\ requests \in [Ids -> Request]
    BY DEF Typed
  <1>1. ASSUME NEW o \in Objects, enqueue(o)
        PROVE  /\ nextId <= nextId'
               /\ \A i \in Ids : i < nextId => requests'[i] = requests[i]
    BY <1>0, <1>1 DEF enqueue
  <1>2. CASE \A o \in Objects : ~enqueue(o)
    <2>1. CASE UNCHANGED requests
      BY <1>0, <1>2, <2>1, PhaseChange
    <2>2. ASSUME NEW j \in Ids, NEW p, requests' = [requests EXCEPT ![j].phase = p]
          PROVE  \A i \in Ids : /\ requests'[i].object = requests[i].object
                                /\ requests'[i].gen = requests[i].gen
      BY <1>0, <2>2, Zenon DEF Request
    <2> QED BY <1>0, <1>2, <2>1, <2>2, PhaseChange, SMTT(30)
  <1> QED BY <1>1, <1>2, Zenon

LEMMA StagedStep ==
    ASSUME Typed, Table, [Next]_vars
    PROVE  staged' = staged \/ staged' = 0 \/ (stage_one /\ staged = 0)
  BY OwnerFrame, CloserFrame, FrontFrame, Zenon
  DEF Next, MasterNext, FrontendNext, MasterOpen, MasterActivate, MasterAdmit, MasterCloseGate,
     MasterInactive, close_for_parent, MasterDeactivate, reset_after_parent_deactivate,
     ClientNext, mailbox_status, Report, stage_one, enqueue, OwnerNext, owner_step,
     try_enter_cycle, leave_cycle, progress_cancel_sdo, NoCancel, LoadStaged, Activate, Progress,
     Terminalize, LoadCurrent, StoreResult, ClearStaged, SlotCleared, vars

LEMMA TableStep ==
    ASSUME Typed, Table, Slot, [Next]_vars
    PROVE  Table'
  <1>0. nextId \in 1..(MaxRequests + 1) /\ requests \in [Ids -> Request] /\ staged \in Nat
    BY DEF Typed
  <1>1. staged' < nextId'
    <2>1. CASE stage_one
      <3>1. PICK i \in Queued : staged' = i
        BY <2>1, Zenon DEF stage_one
      <3>2. i < nextId
        BY <1>0, <3>1 DEF Queued, Table, Unused
      <3> QED BY <2>1, <3>1, <3>2, Zenon DEF stage_one
    <2>2. CASE ~stage_one
      <3>0. Typed'
        BY TypeStep, Zenon
      <3>1. nextId' \in Nat /\ nextId <= nextId' /\ nextId' >= 1
        <4>1. nextId' \in 1..(MaxRequests + 1)
          BY <3>0, Zenon DEF Typed
        <4>2. nextId <= nextId'
          BY TableSteady, Zenon
        <4> QED BY <4>1, <4>2
      <3>2. staged' = staged \/ staged' = 0
        BY <2>2, StagedStep
      <3> QED BY <1>0, <3>1, <3>2 DEF Table
    <2> QED BY <2>1, <2>2
  <1>2. ASSUME NEW o \in Objects, enqueue(o)
        PROVE  Table'
    <2>1. /\ nextId \in Ids /\ nextId' = nextId + 1
          /\ requests' = [requests EXCEPT ![nextId] = [gen |-> openGen, object |-> o,
                                                       phase |-> "queued"]]
      BY <1>0, <1>2 DEF enqueue
    <2> QED BY <1>0, <1>1, <2>1 DEF Table
  <1>3. CASE \A o \in Objects : ~enqueue(o)
    <2>1. CASE UNCHANGED requests
      BY <1>1, <1>3, <2>1, PhaseChange, Zenon DEF Table
    <2>2. ASSUME NEW j \in Ids, NEW p \in Phases \ {"unused"}, j < nextId,
                 requests' = [requests EXCEPT ![j].phase = p]
          PROVE  Table'
      <3>1. \A i \in Ids : i >= nextId => requests'[i] = requests[i]
        BY <1>0, <2>2
      <3>2. \A i \in Ids : /\ requests'[i].object = requests[i].object
                           /\ requests'[i].phase = IF i = j THEN p ELSE requests[i].phase
        BY <1>0, <2>2, Zenon DEF Request
      <3> QED BY <1>1, <1>3, <2>2, <3>1, <3>2, PhaseChange DEF Table
    <2> QED BY <1>3, <2>1, <2>2, PhaseChange, Zenon
  <1> QED BY <1>2, <1>3

-----------------------------------------------------------------------------
(* The slot and the backend's transfer *)

LEMMA SlotOwner ==
    ASSUME Typed, Admission, Table, Slot, OwnerNext
    PROVE  Slot'
  <1>0. /\ owner.pc \in OwnerPcs /\ owner.request \in 0..MaxRequests
        /\ staged \in 0..MaxRequests /\ requests \in [Ids -> Request]
        /\ staged # 0 => requests'[staged].object = requests[staged].object
    BY OwnerFields, TableSteady DEF Typed, Table, Next
  <1>1. mpc # "reset" /\ mpc' = mpc
    BY OwnerFrame, Zenon DEF Admission, MayRunCycle, OwnerNext, owner_step, try_enter_cycle, leave_cycle,
       progress_cancel_sdo, NoCancel, LoadStaged, Activate, Progress, Terminalize, LoadCurrent,
       StoreResult, ClearStaged, masterVars
  <1>2. CASE try_enter_cycle \/ leave_cycle \/ NoCancel \/ LoadStaged
    <2>1. UNCHANGED <<requests, staged, transfer, foreign>>
      BY <1>2, Zenon DEF try_enter_cycle, leave_cycle, NoCancel, LoadStaged
    <2>2. \/ owner'.pc \in {"cancel", "idle", "slot", "leave"}
          \/ owner'.pc = "phase" /\ owner'.request = staged /\ staged # 0
      <3>1. CASE try_enter_cycle \/ leave_cycle
        BY <3>1 DEF try_enter_cycle, leave_cycle, IdleOwner
      <3>2. CASE NoCancel
        BY <3>2, Zenon DEF NoCancel, Typed, OwnerState
      <3>3. CASE LoadStaged
        <4>1. CASE StagedIsCurrent
          BY <3>3, <4>1, Zenon DEF LoadStaged, StagedIsCurrent, Typed, OwnerState
        <4>2. CASE ~StagedIsCurrent
          BY <3>3, <4>2, Zenon DEF LoadStaged, Typed, OwnerState
        <4> QED BY <4>1, <4>2, Zenon
      <3> QED BY <1>2, <3>1, <3>2, <3>3, Zenon
    <2> QED BY <1>1, <2>1, <2>2, Zenon DEF Slot
  <1>3. CASE progress_cancel_sdo
    <2>1. owner'.pc = "leave" /\ foreign' = foreign
      BY <1>3, Zenon DEF progress_cancel_sdo, Typed, OwnerState
    <2>2. \/ transfer' = NoTransfer
          \/ transfer' = transfer /\ staged' = staged
      BY <1>3 DEF progress_cancel_sdo, SdoCancel
    <2>3. requests' = requests
      BY <1>3, Zenon DEF progress_cancel_sdo
    <2> QED BY <1>0, <1>1, <2>1, <2>2, <2>3, Zenon DEF Slot
  <1>4. CASE Activate \/ Terminalize \/ LoadCurrent \/ StoreResult \/ ClearStaged
    <2>1. UNCHANGED <<transfer, foreign>>
      BY <1>4, Zenon DEF Activate, Terminalize, LoadCurrent, StoreResult, ClearStaged
    <2>2. owner'.request = owner.request
      BY <1>4, Zenon DEF Activate, Terminalize, LoadCurrent, StoreResult, ClearStaged, Typed, OwnerState
    <2>3. CASE ClearStaged
      <3>1. owner'.pc = "leave" /\ requests' = requests /\ owner.pc = "clear"
        BY <2>3, Zenon DEF ClearStaged, Typed, OwnerState
      <3> QED BY <1>1, <2>1, <3>1 DEF Slot
    <2>4. CASE ~ClearStaged
      <3>1. staged' = staged
        BY <1>4, <2>4, Zenon DEF Activate, Terminalize, LoadCurrent, StoreResult
      <3>2. /\ owner.pc \in {"phase", "terminalize", "current", "store"}
            /\ owner'.pc \in {"terminalize", "current", "store", "clear"}
                  => owner.pc \in {"terminalize", "current", "store"}
        BY <1>4, <2>4, Zenon DEF Activate, Terminalize, LoadCurrent, StoreResult, Typed, OwnerState
      <3> QED BY <1>0, <1>1, <2>1, <2>2, <3>1, <3>2, Zenon DEF Slot
    <2> QED BY <2>3, <2>4
  <1>5. CASE Progress
    <2>1. owner.pc = "progress" /\ owner.request = staged /\ staged # 0 /\ staged \in Ids
      BY <1>0, <1>5 DEF Progress, Slot
    <2>2. UNCHANGED <<requests, staged>> /\ owner'.request = owner.request
      BY <1>5, Zenon DEF Progress, Typed, OwnerState
    <2> DEFINE o == requests[owner.request].object
    <2>3. PICK answer \in SdoProgress(o, owner.request) :
             /\ transfer' = answer[2]
             /\ owner'.pc = IF answer[1] = "pending" THEN "leave" ELSE "terminalize"
      BY <1>5, Zenon DEF Progress, Typed, OwnerState
    <2>4. ~foreign'
      <3>1. transfer.request \in {0, owner.request} /\ ~foreign
        BY <2>1 DEF Slot, NoTransfer
      <3>2. foreign' = (foreign \/ transfer.request \notin {0, owner.request})
        BY <1>5, Zenon DEF Progress
      <3> QED BY <3>1, <3>2, Zenon
    <2>5. CASE transfer = NoTransfer
      <3>1. \/ owner'.pc = "leave" /\ transfer' = [object |-> o, request |-> owner.request]
            \/ owner'.pc = "terminalize" /\ transfer' = NoTransfer
        BY <2>3, <2>5 DEF SdoProgress
      <3> QED BY <1>1, <2>1, <2>2, <2>4, <3>1 DEF Slot
    <2>6. CASE transfer # NoTransfer
      <3>1. transfer.object = o
        BY <2>1, <2>6, Zenon DEF Slot
      <3>2. \/ owner'.pc = "leave" /\ transfer' = transfer
            \/ owner'.pc = "terminalize" /\ transfer' = NoTransfer
        BY <2>3, <2>6, <3>1 DEF SdoProgress
      <3> QED BY <1>1, <2>1, <2>2, <2>4, <3>2, Zenon DEF Slot
    <2> QED BY <2>5, <2>6, Zenon
  <1> QED BY <1>2, <1>3, <1>4, <1>5 DEF OwnerNext, owner_step

LEMMA SlotStep ==
    ASSUME Typed, Admission, Table, Slot, [Next]_vars
    PROVE  Slot'
  <1>0. /\ staged \in 0..MaxRequests
        /\ staged # 0 => requests'[staged].object = requests[staged].object
    BY TableSteady DEF Typed, Table
  <1>1. CASE OwnerNext
    BY <1>1, SlotOwner
  <1>2. CASE MasterDeactivate
    BY <1>0, <1>2, Zenon DEF MasterDeactivate, Slot
  <1>3. CASE reset_after_parent_deactivate
    <2>1. owner.pc = "idle"
      BY <1>3, Zenon DEF reset_after_parent_deactivate, Admission, MayRunCycle
    <2> QED BY <2>1, <1>3, Zenon DEF reset_after_parent_deactivate, Slot
  <1>4. CASE stage_one
    BY <1>4, Zenon DEF stage_one, Slot, masterVars
  <1>5. CASE ~(OwnerNext \/ MasterDeactivate \/ reset_after_parent_deactivate \/ stage_one)
    <2>1. UNCHANGED <<staged, transfer, owner, foreign>>
      BY <1>5, CloserFrame, FrontFrame, Zenon
      DEF Next, MasterNext, FrontendNext, MasterOpen, MasterActivate, MasterAdmit,
          MasterCloseGate, MasterInactive, close_for_parent, ClientNext, mailbox_status, Report,
          enqueue, vars
    <2>2. mpc' = "reset" => mpc = "reset"
      BY <1>5, CloserFrame, FrontFrame, CloserMoves, Zenon
      DEF Next, MasterNext, FrontendNext, MasterOpen, MasterActivate, MasterAdmit,
          MasterCloseGate, MasterInactive, close_for_parent, ClientNext, mailbox_status, Report,
          enqueue, vars, masterVars, CloseWork
    <2> QED BY <1>0, <2>1, <2>2, Zenon DEF Slot
  <1> QED BY <1>1, <1>2, <1>3, <1>4, <1>5

-----------------------------------------------------------------------------
(* Who answers for a request *)

\* A closer works on the master's generation.
LEMMA CloserGeneration ==
    ASSUME Generations, NEW c \in Closers, ClosePc(c) \in CloseWork
    PROVE  closer[c].gen = generation
  BY Zenon DEF Generations, ClosePc, CloseWork

\* lifecycle_mutex_ keeps the closers apart.
LEMMA OneCloser ==
    ASSUME Typed, Locking, NEW c \in Closers, ClosePc(c) \in CloseWork
    PROVE  /\ lifecycleLock = c
           /\ \A d \in Closers : d # c => ClosePc(d) \notin CloseWork
  BY Zenon DEF Typed, Locking, ClosePc, CloseWork

\* The phases of an owner_step: forward, and only of a request that runs.
LEMMA OwnerPhases ==
    ASSUME Typed, Table, Slot, Answers, OwnerNext
    PROVE  \A i \in Ids : requests'[i].phase # requests[i].phase
              => /\ requests[i].phase \in {"staged", "active", "terminalizing"}
                 /\ requests'[i].phase \in {"active", "terminalizing"} \cup Terminal
  <1>0. requests \in [Ids -> Request] /\ owner.request \in 0..MaxRequests
    BY OwnerFields, Zenon DEF Typed
  <1>1. CASE Activate
    BY <1>0, <1>1 DEF Activate, Request
  <1>2. CASE Terminalize
    BY <1>0, <1>2, Zenon DEF Terminalize, Request
  <1>3. CASE StoreResult
    BY <1>0, <1>3, Zenon DEF StoreResult, StoredPhase, Request, Answers, Terminal
  <1>4. CASE ~(Activate \/ Terminalize \/ StoreResult)
    BY <1>4, Zenon DEF OwnerNext, owner_step, try_enter_cycle, leave_cycle, progress_cancel_sdo,
       NoCancel, LoadStaged, Progress, LoadCurrent, ClearStaged
  <1> QED BY <1>1, <1>2, <1>3, <1>4, Zenon

LEMMA CloserPhases ==
    ASSUME Typed, NEW c \in Closers, close_generation(c)
    PROVE  \A i \in Ids : requests'[i].phase # requests[i].phase
              => /\ requests'[i].phase = "failed"
                 /\ Judging(c, i) /\ requests[i].phase # "terminalizing"
  <1>0. requests \in [Ids -> Request] /\ closer[c].id \in 1..(MaxRequests + 1)
    BY Zenon DEF Typed, Closer
  <1>1. CASE FailRequest(c)
    <2>1. ClosePc(c) = "fail" /\ closer[c].phase \notin {"none", "terminalizing"}
      BY <1>1, Zenon DEF FailRequest, Visiting
    <2>2. CASE Visited(c).phase = closer[c].phase
      BY <1>0, <1>1, <2>1, <2>2, Zenon DEF FailRequest, Visited, Request, Judging
    <2>3. CASE Visited(c).phase # closer[c].phase
      BY <1>1, <2>3, Zenon DEF FailRequest
    <2> QED BY <2>2, <2>3, Zenon
  <1>2. CASE ~FailRequest(c)
    BY <1>2, Zenon DEF close_generation, LockRequests, LoadPhase, AwaitOwner, UnlockRequests
  <1> QED BY <1>1, <1>2, Zenon

\* Only enqueue makes a request live.
LEMMA LiveShrinks ==
    ASSUME Typed, Table, Slot, Answers, [Next]_vars, \A o \in Objects : ~enqueue(o)
    PROVE  \A i \in Ids : Live(i)' => Live(i) /\ requests'[i].gen = requests[i].gen
  <1> USE DEF Live, Terminal
  <1>0. \A i \in Ids : Live(i) => i < nextId
    BY DEF Table, Unused, Typed
  <1>1. ASSUME NEW i \in Ids, Live(i)'
        PROVE  Live(i)
    <2>1. CASE OwnerNext
      BY <1>1, <2>1, OwnerPhases, Zenon
    <2>2. ASSUME NEW c \in Closers, close_generation(c)
          PROVE  Live(i)
      BY <1>1, <2>2, CloserPhases, Zenon
    <2>3. CASE stage_one
      BY <1>1, <2>3, Zenon DEF stage_one, Queued, Typed, Request
    <2>4. CASE ~OwnerNext /\ ~stage_one /\ \A c \in Closers : ~close_generation(c)
      <3>1. UNCHANGED requests
        BY <2>4, FrontFrame, Zenon
        DEF Next, MasterNext, FrontendNext, MasterOpen, MasterActivate, MasterAdmit,
            MasterCloseGate, MasterInactive, close_for_parent, MasterDeactivate,
            reset_after_parent_deactivate, ClientNext, mailbox_status, Report, vars, requestVars
      <3> QED BY <1>1, <3>1, Zenon
    <2> QED BY <2>1, <2>2, <2>3, <2>4, Zenon
  <1> QED BY <1>0, <1>1, TableSteady, Zenon

LEMMA ClosingCloser ==
    ASSUME Typed, Locking, Generations, Table, Slot, Closing, Answers,
           NEW c \in Closers, close_generation(c)
    PROVE  Closing'
  <1>0. /\ closer \in [Closers -> Closer] /\ nextId \in Nat /\ ClosePc(c) \in CloseWork
        /\ requests \in [Ids -> Request]
        /\ UNCHANGED <<generation, openGen>>
        /\ \A o \in Objects : ~enqueue(o)
    <2>1. UNCHANGED <<generation, openGen, nextId>>
      BY CloserFrame, Zenon
    <2> QED BY <2>1, CloserMoves DEF Typed, enqueue
  <1>1. [Next]_vars
    BY DEF Next, MasterNext, FrontendNext
  <1> SUFFICES ASSUME NEW i \in Ids, Live(i)'
               PROVE  /\ requests'[i].gen = generation' /\ generation' # 0
                      /\ openGen' = generation' \/ \E d \in Closers : Ahead(d, i)'
    BY Zenon DEF Closing
  <1>2. /\ Live(i) /\ requests'[i].gen = requests[i].gen
        /\ requests[i].gen = generation /\ generation # 0
        /\ openGen = generation \/ \E d \in Closers : Ahead(d, i)
    BY <1>0, <1>1, LiveShrinks, Zenon DEF Closing
  <1> SUFFICES ASSUME Ahead(c, i)
               PROVE  Ahead(c, i)'
    <2>1. \A d \in Closers : Ahead(d, i) => d = c
      BY <1>0, OneCloser, Zenon DEF Ahead, CloseWork
    <2> QED BY <1>0, <1>2, <2>1, Zenon
  <1>3. closer[c].gen = generation
    BY <1>0, CloserGeneration, Zenon
  <1>4. closer[c] \in Closer /\ i \in Nat
    BY <1>0
  <1>5. CASE LockRequests(c)
    <2>1. ClosePc(c)' = "fail" /\ closer'[c].id = 1
      BY <1>0, <1>5, Zenon DEF LockRequests, ClosePc, SetClosePc, Closer
    <2> QED BY <2>1, <1>4 DEF Ahead
  <1>6. CASE LoadPhase(c) \/ AwaitOwner(c) \/ FailRequest(c)
    <2>1. ClosePc(c)' = "fail" /\ ClosePc(c) = "fail" /\ closer[c].id <= i
      BY <1>6, Zenon DEF LoadPhase, AwaitOwner, FailRequest, Visiting, ClosePc, masterVars, frontVars,
         Ahead
    <2>2. closer'[c].id = closer[c].id \/ (NextRequest(c) /\ closer'[c].id = closer[c].id + 1)
      <3>1. NextRequest(c) \/ closer' = [closer EXCEPT ![c].phase = Visited(c).phase]
        BY <1>6, Zenon DEF LoadPhase, AwaitOwner, FailRequest
      <3>2. CASE NextRequest(c)
        BY <1>0, <3>2, Zenon DEF NextRequest, Closer
      <3>3. CASE closer' = [closer EXCEPT ![c].phase = Visited(c).phase]
        BY <1>0, <3>3, Zenon DEF Closer
      <3> QED BY <3>1, <3>2, <3>3, Zenon
    <2>3. CASE closer[c].id = i
      <3>1. Visited(c).phase \notin Terminal /\ Visited(c).gen = closer[c].gen
        BY <1>2, <1>3, <2>3, Zenon DEF Live, Visited
      <3>2. ~NextRequest(c)
        <4>1. CASE LoadPhase(c) \/ AwaitOwner(c)
          <5>1. closer' = [closer EXCEPT ![c].phase = Visited(c).phase]
            BY <3>1, <4>1, Zenon DEF LoadPhase, AwaitOwner, LeavesAlone, Terminal
          <5> QED BY <1>0, <1>4, <2>2, <5>1 DEF Closer, NextRequest
        <4>2. CASE FailRequest(c)
          <5>1. Visited(c).phase # closer[c].phase
            BY <1>0, <2>3, <4>2 DEF FailRequest, Live, Terminal, Request
          <5>2. closer' = [closer EXCEPT ![c].phase = Visited(c).phase]
            BY <3>1, <4>2, <5>1, Zenon DEF FailRequest, Terminal
          <5> QED BY <1>0, <1>4, <2>2, <5>2 DEF Closer, NextRequest
        <4> QED BY <1>6, <4>1, <4>2
      <3> QED BY <2>1, <2>2, <2>3, <3>2, <1>4, Zenon DEF Ahead
    <2>4. CASE closer[c].id # i
      BY <1>4, <2>1, <2>2, <2>4 DEF Ahead, Closer
    <2> QED BY <2>3, <2>4, Zenon
  <1>7. CASE UnlockRequests(c)
    <2>1. i < nextId
      BY <1>2 DEF Table, Live, Unused, Typed
    <2> QED BY <1>0, <1>4, <1>7, <2>1 DEF UnlockRequests, Ahead, Closer
  <1> QED BY <1>5, <1>6, <1>7 DEF close_generation

LEMMA ClosingStep ==
    ASSUME Typed, Admission, Locking, Generations, Table, Slot, Closing, Answers, [Next]_vars
    PROVE  Closing'
  <1>1. ASSUME NEW o \in Objects, enqueue(o)
        PROVE  Closing'
    <2>1. openGen = generation /\ generation # 0
      BY <1>1, Zenon DEF enqueue, Current, Generations
    <2>2. UNCHANGED <<openGen, generation>>
      BY <1>1, QueueFrame DEF masterVars, frontVars
    <2>3. \A i \in Ids : i # nextId => requests'[i] = requests[i]
      BY <1>1, Zenon DEF enqueue, Typed
    <2>4. nextId \in Ids => requests'[nextId].gen = generation
      BY <1>1, <2>1, Zenon DEF enqueue, Typed
    <2> QED BY <2>1, <2>2, <2>3, <2>4, Zenon DEF Closing, Live
  <1>2. ASSUME NEW c \in Closers, close_generation(c)
        PROVE  Closing'
    BY <1>2, ClosingCloser
  <1>3. CASE /\ \A o \in Objects : ~enqueue(o)
             /\ \A c \in Closers : ~close_generation(c)
    <2> SUFFICES ASSUME NEW i \in Ids, Live(i)'
                 PROVE  /\ requests'[i].gen = generation' /\ generation' # 0
                        /\ openGen' = generation' \/ \E d \in Closers : Ahead(d, i)'
      BY Zenon DEF Closing
    <2>1. /\ Live(i) /\ requests'[i].gen = requests[i].gen
          /\ requests[i].gen = generation /\ generation # 0
          /\ openGen = generation \/ \E d \in Closers : Ahead(d, i)
      BY <1>3, LiveShrinks, Zenon DEF Closing
    <2>2. CASE OwnerNext \/ ClientNext \/ stage_one \/ UNCHANGED vars
      <3>1. UNCHANGED <<generation, openGen, mpc, fpc, closer>>
        BY <2>2, OwnerFrame, QueueFrame, Zenon DEF masterVars, frontVars, vars
      <3> QED BY <2>1, <3>1, Zenon DEF Ahead, ClosePc
    <2>3. CASE MasterOpen
      BY <2>1, <2>3, Zenon DEF MasterOpen, Generations
    <2>4. CASE MasterActivate \/ MasterAdmit \/ MasterCloseGate \/ MasterInactive
      <3>1. UNCHANGED <<generation, openGen, fpc, closer>> /\ mpc \notin CloseWork
        BY <2>4, Zenon DEF MasterActivate, MasterAdmit, MasterCloseGate, MasterInactive, frontVars,
           CloseWork
      <3> QED BY <2>1, <3>1, Zenon DEF Ahead, ClosePc, CloseWork
    <2>5. CASE close_for_parent
      BY <2>5, <2>1, Zenon DEF close_for_parent, Ahead, ClosePc
    <2>6. CASE MasterDeactivate \/ reset_after_parent_deactivate
      BY <2>1, <2>6, Zenon DEF MasterDeactivate, reset_after_parent_deactivate, Generations, Ahead,
         ClosePc
    <2>7. CASE open
      BY <2>1, <2>7, OneCloser, Zenon DEF open, Ahead, ClosePc, CloseWork, Locking
    <2>8. CASE StoreOpen
      BY <2>1, <2>8, Zenon DEF StoreOpen, Generations, masterVars
    <2>9. CASE close
      BY <2>1, <2>9, Zenon DEF close, Ahead, ClosePc, masterVars
    <2> QED BY <1>3, <2>2, <2>3, <2>4, <2>5, <2>6, <2>7, <2>8, <2>9, Zenon
            DEF Next, MasterNext, FrontendNext
  <1> QED BY <1>1, <1>2, <1>3

-----------------------------------------------------------------------------
(* What a client is told *)

\* A request that has completed stays completed unless a closer has its phase.
LEMMA CompletedStays ==
    ASSUME Typed, Table, Slot, Answers, [Next]_vars,
           NEW i \in Ids, requests[i].phase = "completed", \A c \in Closers : ~Judging(c, i)
    PROVE  requests'[i].phase = "completed"
  <1>1. CASE OwnerNext
    BY <1>1, OwnerPhases, Zenon
  <1>2. ASSUME NEW c \in Closers, close_generation(c)
        PROVE  requests'[i].phase = "completed"
    BY <1>2, CloserPhases, Zenon
  <1>3. CASE stage_one
    BY <1>3, Zenon DEF stage_one, Queued, Typed, Request
  <1>4. ASSUME NEW o \in Objects, enqueue(o)
        PROVE  requests'[i].phase = "completed"
    BY <1>4 DEF enqueue, Table, Unused, Typed, Request
  <1>5. CASE ~OwnerNext /\ ~stage_one /\ (\A c \in Closers : ~close_generation(c))
               /\ \A o \in Objects : ~enqueue(o)
    <2>1. UNCHANGED requests
      BY <1>5, FrontFrame, Zenon
      DEF Next, MasterNext, FrontendNext, MasterOpen, MasterActivate, MasterAdmit,
          MasterCloseGate, MasterInactive, close_for_parent, MasterDeactivate,
          reset_after_parent_deactivate, ClientNext, mailbox_status, Report, vars, requestVars
    <2> QED BY <2>1
  <1> QED BY <1>1, <1>2, <1>3, <1>4, <1>5, Zenon

\* A closer loads the phase of a request that has not ended.
LEMMA JudgingBegins ==
    ASSUME Typed, [Next]_vars, NEW i \in Ids, NEW d \in Closers, Judging(d, i)',
           requests[i].phase = "completed"
    PROVE  Judging(d, i)
  <1>0. closer \in [Closers -> Closer]
    BY Zenon DEF Typed
  <1>1. CASE OwnerNext \/ ClientNext \/ stage_one \/ UNCHANGED vars
             \/ \E o \in Objects : enqueue(o)
    <2>1. UNCHANGED <<mpc, fpc, closer>>
      BY <1>1, OwnerFrame, QueueFrame, Zenon DEF masterVars, frontVars, vars
    <2> QED BY <2>1, Zenon DEF Judging, ClosePc
  <1>2. CASE MasterOpen \/ MasterActivate \/ MasterAdmit \/ MasterCloseGate \/ MasterInactive
             \/ MasterDeactivate \/ reset_after_parent_deactivate
    <2>1. UNCHANGED <<fpc, closer>> /\ mpc' # "fail"
      BY <1>2, Zenon DEF MasterOpen, MasterActivate, MasterAdmit, MasterCloseGate, MasterInactive,
         MasterDeactivate, reset_after_parent_deactivate, frontVars
    <2> QED BY <2>1, Zenon DEF Judging, ClosePc
  <1>3. CASE close_for_parent
    <2>1. closer'["frontend"] = closer["frontend"] /\ mpc' # "fail" /\ fpc' = fpc
      BY <1>0, <1>3, Zenon DEF close_for_parent
    <2> QED BY <2>1, Zenon DEF Judging, ClosePc
  <1>4. CASE open \/ StoreOpen \/ close
    <2>1. closer'["master"] = closer["master"] /\ fpc' # "fail" /\ mpc' = mpc
      BY <1>0, <1>4, Zenon DEF open, StoreOpen, close, masterVars
    <2> QED BY <2>1, Zenon DEF Judging, ClosePc
  <1>5. ASSUME NEW c \in Closers, close_generation(c)
        PROVE  Judging(d, i)
    <2>1. CASE d # c
      <3>1. closer'[d] = closer[d]
        BY <1>5, <2>1, CloserMoves, Zenon
      <3>2. ClosePc(d)' = ClosePc(d)
        BY <1>5, <2>1, CloserFrame, Zenon DEF ClosePc
      <3> QED BY <3>1, <3>2, Zenon DEF Judging
    <2>2. CASE d = c
      <3>1. CASE LockRequests(c)
        BY <1>0, <2>2, <3>1, Zenon DEF LockRequests, Judging, Closer
      <3>2. CASE UnlockRequests(c)
        BY <2>2, <3>2, Zenon DEF UnlockRequests, Judging, ClosePc, SetClosePc
      <3>3. CASE LoadPhase(c) \/ AwaitOwner(c) \/ FailRequest(c)
        <4>0. ClosePc(c) = "fail"
          BY <3>3, Zenon DEF LoadPhase, AwaitOwner, FailRequest, Visiting
        <4>1. ~NextRequest(c)
          BY <1>0, <2>2 DEF NextRequest, Judging, Closer
        <4>2. closer' = [closer EXCEPT ![c].phase = Visited(c).phase]
          BY <3>3, <4>1, Zenon DEF LoadPhase, AwaitOwner, FailRequest
        <4>3. closer[c].id = i
          BY <1>0, <2>2, <4>2, Zenon DEF Judging, Closer
        <4>4. ~LoadPhase(c)
          BY <4>1, <4>3, Zenon DEF LoadPhase, LeavesAlone, Visited, Terminal
        <4> QED BY <2>2, <3>3, <4>0, <4>3, <4>4, Zenon DEF Judging, AwaitOwner, FailRequest
      <3> QED BY <1>5, <3>1, <3>2, <3>3 DEF close_generation
    <2> QED BY <2>1, <2>2
  <1> QED BY <1>1, <1>2, <1>3, <1>4, <1>5, Zenon DEF Next, MasterNext, FrontendNext

\* While a client holds requests_mutex_ no closer is among the requests.
LEMMA ClientAlone ==
    ASSUME Locking, status.id # 0
    PROVE  \A c \in Closers, i \in Ids : ~Judging(c, i)
  BY Zenon DEF Locking, Judging, ClosePc

\* Only mailbox_status and its report touch what a client has been told.
LEMMA ClientFrame ==
    ASSUME [Next]_vars, ~ClientNext
    PROVE  UNCHANGED <<status, reports>>
  BY OwnerFrame, CloserFrame, FrontFrame, Zenon
  DEF Next, MasterNext, FrontendNext, MasterOpen, MasterActivate, MasterAdmit, MasterCloseGate,
      MasterInactive, close_for_parent, MasterDeactivate, reset_after_parent_deactivate,
      stage_one, enqueue, vars, clientVars

LEMMA OwnerAnswers ==
    ASSUME Typed, Table, Slot, Answers, [Next]_vars, owner'.pc \in {"current", "store"}
    PROVE  requests'[owner'.request].phase = "terminalizing"
  <1>0. /\ owner \in OwnerState /\ requests \in [Ids -> Request] /\ nextId \in Nat
        /\ owner.request \in 0..MaxRequests
    BY OwnerFields, SMTT(30) DEF Typed
  <1>1. CASE OwnerNext
    <2>1. CASE Terminalize
      <3>1. owner.pc = "terminalize" /\ owner.request \in Ids
        BY <1>0, <2>1 DEF Terminalize, Slot
      <3> QED BY <1>0, <2>1, <3>1 DEF Terminalize, OwnerState, Request
    <2>2. CASE LoadCurrent
      BY <1>0, <2>2, Zenon DEF LoadCurrent, OwnerState, Answers
    <2>3. CASE ~Terminalize /\ ~LoadCurrent
      <3>1. owner'.pc \notin {"current", "store"}
        <4>1. CASE try_enter_cycle \/ leave_cycle
          BY <4>1 DEF try_enter_cycle, leave_cycle, IdleOwner
        <4>2. CASE progress_cancel_sdo \/ NoCancel \/ LoadStaged \/ Activate
          BY <1>0, <4>2, Zenon DEF progress_cancel_sdo, NoCancel, LoadStaged, Activate, OwnerState
        <4>3. CASE StoreResult \/ ClearStaged
          BY <1>0, <4>3, Zenon DEF StoreResult, ClearStaged, OwnerState
        <4>4. CASE Progress
          BY <1>0, <4>4, Zenon DEF Progress, OwnerState
        <4> QED BY <1>1, <2>3, <4>1, <4>2, <4>3, <4>4, Zenon DEF OwnerNext, owner_step
      <3> QED BY <3>1, Zenon
    <2> QED BY <2>1, <2>2, <2>3, Zenon
  <1>2. CASE ~OwnerNext
    <2>1. owner' = owner
      BY <1>2, OthersFrame, Zenon DEF Next, vars
    <2>2. requests[owner.request].phase = "terminalizing" /\ owner.request \in Ids
          /\ owner.request < nextId
      BY <1>0, <2>1 DEF Answers, Slot, Table
    <2>3. ASSUME NEW c \in Closers, close_generation(c)
          PROVE  requests'[owner.request].phase = "terminalizing"
      BY <2>2, <2>3, CloserPhases, Zenon
    <2>4. CASE stage_one
      BY <1>0, <2>2, <2>4, Zenon DEF stage_one, Queued, Request
    <2>5. ASSUME NEW o \in Objects, enqueue(o)
          PROVE  requests'[owner.request].phase = "terminalizing"
      BY <1>0, <2>2, <2>5 DEF enqueue
    <2>6. CASE ~stage_one /\ (\A c \in Closers : ~close_generation(c))
               /\ \A o \in Objects : ~enqueue(o)
      <3>1. UNCHANGED requests
        BY <1>2, <2>6, FrontFrame, Zenon
        DEF Next, MasterNext, FrontendNext, MasterOpen, MasterActivate, MasterAdmit,
            MasterCloseGate, MasterInactive, close_for_parent, MasterDeactivate,
            reset_after_parent_deactivate, ClientNext, mailbox_status, Report, vars, requestVars
      <3> QED BY <2>1, <2>2, <3>1, Zenon
    <2> QED BY <2>1, <2>3, <2>4, <2>5, <2>6, Zenon
  <1> QED BY <1>1, <1>2, Zenon

LEMMA AnswersStep ==
    ASSUME Typed, Locking, Table, Slot, Answers, [Next]_vars
    PROVE  Answers'
  <1>0. /\ reports \in [Ids -> SUBSET Terminal]
        /\ status \in [id : 0..MaxRequests, phase : Phases \cup {"none"}]
    BY Zenon DEF Typed
  <1>1. owner'.pc \in {"current", "store"} => requests'[owner'.request].phase = "terminalizing"
    BY OwnerAnswers, Zenon
  <1>2. ASSUME NEW i \in Ids, "completed" \in reports[i]
        PROVE  requests'[i].phase = "completed" /\ \A c \in Closers : ~Judging(c, i)'
    BY <1>2, CompletedStays, JudgingBegins, Zenon DEF Answers
  <1>3. ASSUME NEW i \in Ids, status.id = i, status.phase = "completed"
        PROVE  requests'[i].phase = "completed" /\ \A c \in Closers : ~Judging(c, i)'
    <2>1. requests[i].phase = "completed" /\ \A c \in Closers : ~Judging(c, i)
      BY <1>3, ClientAlone DEF Answers
    <2> QED BY <2>1, CompletedStays, JudgingBegins, Zenon
  <1>4. CASE ~ClientNext
    <2>1. UNCHANGED <<status, reports>>
      BY <1>4, ClientFrame
    <2>2. status.id # 0 => status.id \in Ids
      BY <1>0
    <2> QED BY <1>1, <1>2, <1>3, <2>1, <2>2, Zenon DEF Answers
  <1>5. ASSUME NEW j \in Ids, mailbox_status(j)
        PROVE  Answers'
    <2>1. /\ status'.id = j /\ status'.phase = requests[j].phase
          /\ UNCHANGED <<requests, reports>>
      BY <1>5, Zenon DEF mailbox_status
    <2>2. \A i \in Ids : "completed" \in reports[i] => requests[i].phase = "completed"
      BY Zenon DEF Answers
    <2> QED BY <1>1, <1>2, <2>1, <2>2, Zenon DEF Answers
  <1>6. CASE Report
    <2>1. status'.id = 0 /\ status.id \in Ids
      BY <1>0, <1>6 DEF Report
    <2>2. ASSUME NEW i \in Ids, "completed" \in reports'[i]
          PROVE  requests'[i].phase = "completed" /\ \A c \in Closers : ~Judging(c, i)'
      <3>1. CASE "completed" \in reports[i]
        BY <1>2, <3>1, Zenon
      <3>2. CASE "completed" \notin reports[i]
        <4>1. i = status.id /\ Reported = "completed"
          BY <1>0, <1>6, <2>2, <3>2, Zenon DEF Report
        <4>2. status.phase = "completed"
          BY <4>1, Zenon DEF Reported
        <4> QED BY <1>3, <2>1, <4>1, <4>2, Zenon
      <3> QED BY <3>1, <3>2, Zenon
    <2> QED BY <1>1, <2>1, <2>2 DEF Answers
  <1> QED BY <1>4, <1>5, <1>6 DEF ClientNext

-----------------------------------------------------------------------------
(* The flags *)

Flags ==
    /\ gateOpen \in BOOLEAN /\ inCycle \in BOOLEAN
    /\ activated \in BOOLEAN /\ foreign \in BOOLEAN

LEMMA FlagsStep ==
    ASSUME Flags, [Next]_vars
    PROVE  Flags'
  <1>1. CASE OwnerNext
    <2>1. UNCHANGED <<gateOpen, activated>>
      BY <1>1, OwnerFrame DEF masterVars
    <2>2. inCycle' \in BOOLEAN
      BY <1>1, Zenon DEF Flags, OwnerNext, owner_step, try_enter_cycle, leave_cycle,
         progress_cancel_sdo, NoCancel, LoadStaged, Activate, Progress, Terminalize,
         LoadCurrent, StoreResult, ClearStaged
    <2>3. foreign' \in BOOLEAN
      BY <1>1, Zenon DEF Flags, OwnerNext, owner_step, try_enter_cycle, leave_cycle,
         progress_cancel_sdo, NoCancel, LoadStaged, Activate, Progress, Terminalize,
         LoadCurrent, StoreResult, ClearStaged
    <2> QED BY <2>1, <2>2, <2>3, Zenon DEF Flags
  <1>2. CASE MasterOpen \/ MasterActivate \/ MasterAdmit \/ MasterCloseGate \/ MasterInactive
             \/ close_for_parent \/ MasterDeactivate \/ reset_after_parent_deactivate
    BY <1>2, Zenon DEF Flags, MasterOpen, MasterActivate, MasterAdmit, MasterCloseGate,
       MasterInactive, close_for_parent, MasterDeactivate, reset_after_parent_deactivate
  <1>3. CASE UNCHANGED <<gateOpen, inCycle, activated, foreign>>
    BY <1>3, Zenon DEF Flags
  <1>4. CASE FrontendNext \/ ClientNext \/ stage_one \/ UNCHANGED vars
             \/ close_generation("master") \/ \E o \in Objects : enqueue(o)
    <2>1. UNCHANGED <<gateOpen, inCycle, activated, foreign>>
      BY <1>4, CloserFrame, FrontFrame, QueueFrame, Zenon DEF FrontendNext, masterVars, vars
    <2> QED BY <1>3, <2>1
  <1> QED BY <1>1, <1>2, <1>4 DEF Next, MasterNext

-----------------------------------------------------------------------------
(* The theorems *)

LEMMA MailboxInit ==
    ASSUME Init
    PROVE  IInv
  <1>1. owner \in OwnerState
    <2>1. "idle" \in OwnerPcs /\ 0 \in 0..MaxRequests /\ "none" \in Results
      BY DEF OwnerPcs, Results
    <2> QED BY <2>1, OwnerRecord, Zenon DEF Init, IdleOwner
  <1>2. Typed
    BY <1>1 DEF Init, Typed, Request, Closer, Phases, Unused, NoTransfer
  <1>3. Admission /\ Locking /\ Generations /\ Table
    BY DEF Init, Admission, Locking, Generations, Table, MayRunCycle, CloseWork, IdleOwner,
       Unused
  <1>4. Slot /\ Closing /\ Answers
    BY Zenon DEF Init, Slot, Closing, Answers, Live, IdleOwner, Unused, NoTransfer
  <1> QED BY <1>2, <1>3, <1>4 DEF IInv

\* The parts hold together in every state the five threads can reach.
THEOREM MailboxInvariant == Spec => []IInv
  <1>1. IInv /\ [Next]_vars => IInv'
    BY TypeStep, AdmissionStep, LockingStep, GenerationsStep, TableStep, SlotStep, ClosingStep,
       AnswersStep, Zenon DEF IInv
  <1> QED BY <1>1, MailboxInit, PTL DEF Spec

\* No thread leaves a variable of the master or the mailbox out of its range.
THEOREM MailboxTypes == Spec => []TypeOK
  <1>1. Init => Flags
    BY Zenon DEF Init, Flags
  <1>2. Flags /\ [Next]_vars => Flags'
    BY FlagsStep
  <1>3. IInv /\ Flags => TypeOK
    BY Zenon DEF IInv, Flags, TypeOK
  <1> QED BY <1>1, <1>2, <1>3, MailboxInvariant, PTL DEF Spec

\* The owner is at the backend only while the backend is activated: close
\* shuts the gate and waits for the admitted cycle before it deactivates.
THEOREM BackendIsActivated == Spec => []BackendOnlyWhileActivated
  <1>1. IInv => BackendOnlyWhileActivated
    BY DEF IInv, Admission, BackendOnlyWhileActivated
  <1> QED BY <1>1, MailboxInvariant, PTL

\* A request of owner_step never meets the transfer of another one, although
\* the backend tells transfers apart by their object only.
THEOREM TransfersAreOwn == Spec => []NoForeignTransfer
  <1>1. IInv => NoForeignTransfer
    BY Zenon DEF IInv, Slot, NoForeignTransfer
  <1> QED BY <1>1, MailboxInvariant, PTL

\* When the mailbox is closed and no close is on its way, every request has
\* ended: the closer fails what enqueue and stage_one left behind.
THEOREM EveryRequestIsEnded == Spec => []NoOrphans
  <1>1. IInv => NoOrphans
    <2> SUFFICES ASSUME IInv, openGen = 0, lifecycleLock = "none", mpc \in {"idle", "reset"},
                        NEW i \in Ids
                 PROVE  ~Live(i)
      BY Zenon DEF NoOrphans, Live
    <2>1. \A c \in Closers : ~Ahead(c, i)
      BY Zenon DEF IInv, Locking, Ahead, ClosePc, CloseWork
    <2> QED BY <2>1 DEF IInv, Closing
  <1> QED BY <1>1, MailboxInvariant, PTL

\* mailbox_status never says "failed" of a request it has reported completed.
THEOREM CompletedStaysCompleted == Spec => CompletedIsKept
  <1>1. IInv /\ [Next]_vars => [\A i \in Ids : reports[i] = {"completed"}
                                   => reports'[i] = {"completed"}]_vars
    <2> SUFFICES ASSUME IInv, [Next]_vars, NEW i \in Ids, reports[i] = {"completed"}
                 PROVE  reports'[i] = {"completed"}
      OBVIOUS
    <2>1. CASE Report
      <3>1. reports \in [Ids -> SUBSET Terminal] /\ status.id \in 0..MaxRequests
        BY Zenon DEF IInv, Typed
      <3>2. status.id = i => Reported = "completed"
        BY Zenon DEF IInv, Answers, Reported
      <3> QED BY <2>1, <3>1, <3>2, Zenon DEF Report
    <2>2. CASE ~Report
      <3>1. UNCHANGED reports
        BY <2>2, ClientFrame, Zenon DEF ClientNext, mailbox_status
      <3> QED BY <3>1
    <2> QED BY <2>1, <2>2
  <1> QED BY <1>1, MailboxInvariant, PTL DEF Spec, CompletedIsKept
=============================================================================
