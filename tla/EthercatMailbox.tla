-------------------------- MODULE EthercatMailbox ---------------------------
(***************************************************************************)
(* One slave's SDO mailbox and the EtherCAT master that drives it          *)
(* (src/transport/ethercat/master.cpp, igh_backend.cpp).  Five threads     *)
(* meet here:                                                              *)
(*   - the owner runs EthercatMaster::cycle and is the only one to touch   *)
(*     the backend; it takes no lock;                                      *)
(*   - the master's lifecycle thread opens and closes the master;          *)
(*   - the frontend opens and closes the mailbox alone and queues requests;*)
(*   - the mailbox thread runs EthercatMailbox::cycle, which stages one    *)
(*     request in the slot the owner looks at;                             *)
(*   - a client polls mailbox_status.                                      *)
(*                                                                         *)
(* A step is one access to shared state; accesses made under a lock that   *)
(* nobody else can observe in between share a step.  Process data, health  *)
(* words, error texts and payloads are left out.  An object stands for the *)
(* kind of transfer, index and subindex by which the backend recognises a  *)
(* transfer.                                                               *)
(***************************************************************************)
EXTENDS Integers

CONSTANTS
    Objects,               \* objects requested, none of them 0
    MaxRequests,           \* bound: requests queued in one behaviour
    MaxGenerations         \* bound: times the master is opened

ASSUME ObjectAssumption == 0 \notin Objects
ASSUME RequestAssumption == MaxRequests \in Nat
ASSUME GenerationAssumption == MaxGenerations \in Nat

Ids == 1..MaxRequests
Closers == {"master", "frontend"}
Terminal == {"completed", "failed"}

VARIABLES
    activeGen,             \* owner_lifecycle_->active_generation
    gateOpen, inCycle,     \* cycle_admission_: open bit, admitted cycles
    activated,             \* the backend is activated
    generation,            \* generation_ of the master
    nextGen,               \* next_generation_
    openGen,               \* open_generation_ of the mailbox
    cancelGen,             \* cancel_requested_generation_
    staged,                \* staged_request_; 0 is nullptr
    requests,              \* requests_: generation, object, phase
    nextId,                \* next_request_id_
    transfer,              \* backend: active object, and who scheduled it
    lifecycleLock,         \* holder of lifecycle_mutex_ of the mailbox
    requestsLock,          \* holder of requests_mutex_
    mpc, fpc,              \* where the lifecycle thread and the frontend are
    closer,                \* per closing thread: generation, request, phase
    owner,                 \* owner: pc and locals
    status,                \* client: request and phase it has loaded
    reports,               \* history: terminal states reported per request
    foreign                \* history: a request met another one's transfer

frontVars == <<openGen, lifecycleLock, fpc>>
masterVars == <<activeGen, gateOpen, activated, generation, nextGen, mpc>>
requestVars == <<requests, nextId, requestsLock>>
clientVars == <<status, reports>>
vars == <<masterVars, frontVars, requestVars, clientVars, inCycle, cancelGen,
          staged, transfer, closer, owner, foreign>>

NoTransfer == [object |-> 0, request |-> 0]
Unused == [gen |-> 0, object |-> 0, phase |-> "unused"]
IdleOwner == [pc |-> "idle", request |-> 0, result |-> "none",
              current |-> FALSE]

Init ==
    /\ activeGen = 0 /\ gateOpen = FALSE /\ inCycle = FALSE
    /\ activated = FALSE /\ generation = 0 /\ nextGen = 1
    /\ openGen = 0 /\ cancelGen = 0 /\ staged = 0
    /\ requests = [i \in Ids |-> Unused] /\ nextId = 1
    /\ transfer = NoTransfer
    /\ lifecycleLock = "none" /\ requestsLock = "none"
    /\ mpc = "idle" /\ fpc = "idle"
    /\ closer = [c \in Closers |-> [gen |-> 0, id |-> 1, phase |-> "none"]]
    /\ owner = IdleOwner
    /\ status = [id |-> 0, phase |-> "none"]
    /\ reports = [i \in Ids |-> {}]
    /\ foreign = FALSE

\* A phase of the closing thread c is kept in its thread's program counter.
ClosePc(c) == IF c = "master" THEN mpc ELSE fpc
SetClosePc(c, pc) ==
    IF c = "master" THEN mpc' = pc /\ UNCHANGED fpc
                    ELSE fpc' = pc /\ UNCHANGED mpc

-----------------------------------------------------------------------------
(* EthercatMaster::open.  A failing backend leaves everything as it was.   *)
(* open_for_parent's own checks are the last conjuncts of the guard; a     *)
(* mailbox that close has left always passes them, so open has nothing to  *)
(* roll back.                                                              *)

MasterOpen ==
    /\ mpc = "idle" /\ ~gateOpen
    /\ nextGen <= MaxGenerations
    /\ lifecycleLock = "none"
    /\ openGen = 0 /\ cancelGen = 0 /\ staged = 0
    /\ activated' = TRUE
    /\ generation' = nextGen /\ nextGen' = nextGen + 1
    /\ openGen' = nextGen
    /\ mpc' = "activate"
    /\ UNCHANGED <<activeGen, gateOpen, lifecycleLock, fpc, requestVars,
                   clientVars, inCycle, cancelGen, staged, transfer, closer,
                   owner, foreign>>

MasterActivate ==
    /\ mpc = "activate"
    /\ activeGen' = generation
    /\ mpc' = "admit"
    /\ UNCHANGED <<gateOpen, activated, generation, nextGen, frontVars,
                   requestVars, clientVars, inCycle, cancelGen, staged,
                   transfer, closer, owner, foreign>>

MasterAdmit ==
    /\ mpc = "admit"
    /\ gateOpen' = TRUE
    /\ mpc' = "idle"
    /\ UNCHANGED <<activeGen, activated, generation, nextGen, frontVars,
                   requestVars, clientVars, inCycle, cancelGen, staged,
                   transfer, closer, owner, foreign>>

-----------------------------------------------------------------------------
(* EthercatMaster::close *)

MasterCloseGate ==
    /\ mpc = "idle" /\ gateOpen
    /\ gateOpen' = FALSE
    /\ mpc' = "inactive"
    /\ UNCHANGED <<activeGen, activated, generation, nextGen, frontVars,
                   requestVars, clientVars, inCycle, cancelGen, staged,
                   transfer, closer, owner, foreign>>

MasterInactive ==
    /\ mpc = "inactive"
    /\ activeGen' = 0
    /\ mpc' = "mailbox"
    /\ UNCHANGED <<gateOpen, activated, generation, nextGen, frontVars,
                   requestVars, clientVars, inCycle, cancelGen, staged,
                   transfer, closer, owner, foreign>>

\* close_for_parent up to close_generation.
close_for_parent ==
    /\ mpc = "mailbox" /\ lifecycleLock = "none"
    /\ lifecycleLock' = "master"
    /\ openGen' = IF openGen = generation THEN 0 ELSE openGen
    /\ closer' = [closer EXCEPT !["master"].gen = generation]
    /\ mpc' = "lock"
    /\ UNCHANGED <<activeGen, gateOpen, activated, generation, nextGen, fpc,
                   requestVars, clientVars, inCycle, cancelGen, staged,
                   transfer, owner, foreign>>

\* Mutant: the master is deactivated without waiting for the cycle.
NoCycleUnchecked == TRUE

NoCycle == ~inCycle

MasterDeactivate ==
    /\ mpc = "wait" /\ NoCycle
    /\ activated' = FALSE
    /\ transfer' = NoTransfer
    /\ mpc' = "reset"
    /\ UNCHANGED <<activeGen, gateOpen, generation, nextGen, frontVars,
                   requestVars, clientVars, inCycle, cancelGen, staged,
                   closer, owner, foreign>>

reset_after_parent_deactivate ==
    /\ mpc = "reset" /\ lifecycleLock = "none"
    /\ staged' = 0 /\ cancelGen' = 0 /\ openGen' = 0
    /\ generation' = 0
    /\ mpc' = "idle"
    /\ UNCHANGED <<activeGen, gateOpen, activated, nextGen, lifecycleLock,
                   fpc, requestVars, clientVars, inCycle, transfer, closer,
                   owner, foreign>>

-----------------------------------------------------------------------------
(* EthercatMailbox::open and close *)

Drained == cancelGen = 0 /\ staged = 0

open ==
    /\ fpc = "idle" /\ lifecycleLock = "none"
    /\ activeGen # 0 /\ openGen = 0 /\ Drained
    /\ lifecycleLock' = "frontend"
    /\ closer' = [closer EXCEPT !["frontend"].gen = activeGen]
    /\ fpc' = "open"
    /\ UNCHANGED <<masterVars, openGen, requestVars, clientVars, inCycle,
                   cancelGen, staged, transfer, owner, foreign>>

StoreOpen ==
    /\ fpc = "open"
    /\ openGen' = closer["frontend"].gen
    /\ lifecycleLock' = "none"
    /\ fpc' = "idle"
    /\ UNCHANGED <<masterVars, requestVars, clientVars, inCycle, cancelGen,
                   staged, transfer, closer, owner, foreign>>

close ==
    /\ fpc = "idle" /\ lifecycleLock = "none" /\ openGen # 0
    /\ lifecycleLock' = "frontend"
    /\ openGen' = 0
    /\ closer' = [closer EXCEPT !["frontend"].gen = openGen]
    /\ fpc' = "lock"
    /\ UNCHANGED <<masterVars, requestVars, clientVars, inCycle, cancelGen,
                   staged, transfer, owner, foreign>>

-----------------------------------------------------------------------------
(* close_generation and fail_request, run by either closing thread.        *)

LockRequests(c) ==
    /\ ClosePc(c) = "lock" /\ requestsLock = "none"
    /\ requestsLock' = c
    /\ closer' = [closer EXCEPT ![c].id = 1, ![c].phase = "none"]
    /\ SetClosePc(c, "fail")
    /\ UNCHANGED <<activeGen, gateOpen, activated, generation, nextGen,
                   openGen, lifecycleLock, requests, nextId, clientVars,
                   inCycle, cancelGen, staged, transfer, owner, foreign>>

\* The request the closer c is at.
Visited(c) == requests[closer[c].id]

\* Mutant: a request the owner has begun is left to it.
LeavesActiveAlone(c) ==
    Visited(c).gen # closer[c].gen
        \/ Visited(c).phase \in Terminal \union {"active"}

\* Mutant: a request that has completed is failed as well.
LeavesCompletedAlone(c) ==
    Visited(c).gen # closer[c].gen \/ Visited(c).phase = "failed"

\* fail_request returns at once, or the request is of another generation.
LeavesAlone(c) ==
    Visited(c).gen # closer[c].gen \/ Visited(c).phase \in Terminal

NextRequest(c) ==
    closer' = [closer EXCEPT ![c].id = @ + 1, ![c].phase = "none"]

Visiting(c) ==
    /\ ClosePc(c) = "fail" /\ closer[c].id < nextId
    /\ UNCHANGED <<masterVars, frontVars, nextId, requestsLock, clientVars,
                   inCycle, cancelGen, staged, transfer, owner, foreign>>

LoadPhase(c) ==
    /\ Visiting(c) /\ closer[c].phase = "none"
    /\ IF LeavesAlone(c)
       THEN NextRequest(c)
       ELSE closer' = [closer EXCEPT ![c].phase = Visited(c).phase]
    /\ UNCHANGED requests

\* phase.wait, and the load that follows it.
AwaitOwner(c) ==
    /\ Visiting(c) /\ closer[c].phase = "terminalizing"
    /\ Visited(c).phase # "terminalizing"
    /\ IF Visited(c).phase = "failed"
       THEN NextRequest(c)
       ELSE closer' = [closer EXCEPT ![c].phase = Visited(c).phase]
    /\ UNCHANGED requests

\* The compare-exchange to terminalizing, and the store of failed after it.
FailRequest(c) ==
    /\ Visiting(c) /\ closer[c].phase \notin {"none", "terminalizing"}
    /\ IF Visited(c).phase = closer[c].phase
       THEN /\ requests' = [requests EXCEPT ![closer[c].id].phase = "failed"]
            /\ NextRequest(c)
       ELSE /\ IF Visited(c).phase = "failed"
               THEN NextRequest(c)
               ELSE closer' = [closer EXCEPT ![c].phase = Visited(c).phase]
            /\ UNCHANGED requests

\* cancel_requested_generation_ after close_generation.
CancelRequest(c) == IF c = "frontend" THEN closer[c].gen ELSE cancelGen

UnlockRequests(c) ==
    /\ ClosePc(c) = "fail" /\ closer[c].id >= nextId
    /\ requestsLock' = "none" /\ lifecycleLock' = "none"
    /\ cancelGen' = CancelRequest(c)
    /\ SetClosePc(c, IF c = "master" THEN "wait" ELSE "idle")
    /\ UNCHANGED <<activeGen, gateOpen, activated, generation, nextGen,
                   openGen, requests, nextId, clientVars, inCycle, staged,
                   transfer, closer, owner, foreign>>

close_generation(c) ==
    LockRequests(c) \/ LoadPhase(c) \/ AwaitOwner(c) \/ FailRequest(c)
        \/ UnlockRequests(c)

-----------------------------------------------------------------------------
(* enqueue, stage_one, mailbox_status: each under requests_mutex_.         *)

\* The mailbox is open and so is the master it belongs to.
Current == openGen # 0 /\ openGen = activeGen

enqueue(o) ==
    /\ requestsLock = "none" /\ Current /\ nextId <= MaxRequests
    /\ requests' = [requests EXCEPT
                      ![nextId] = [gen |-> openGen, object |-> o,
                                   phase |-> "queued"]]
    /\ nextId' = nextId + 1
    /\ UNCHANGED <<masterVars, frontVars, requestsLock, clientVars, inCycle,
                   cancelGen, staged, transfer, closer, owner, foreign>>

Queued == {i \in Ids : requests[i].gen = openGen
                       /\ requests[i].phase = "queued"}

stage_one ==
    /\ requestsLock = "none" /\ Current /\ staged = 0
    /\ \E i \in Queued :
          /\ \A j \in Queued : i <= j
          /\ requests' = [requests EXCEPT ![i].phase = "staged"]
          /\ staged' = i
    /\ UNCHANGED <<masterVars, frontVars, nextId, requestsLock, clientVars,
                   inCycle, cancelGen, transfer, closer, owner, foreign>>

mailbox_status(i) ==
    /\ status.id = 0 /\ requestsLock = "none" /\ i < nextId
    /\ requestsLock' = "client"
    /\ status' = [id |-> i, phase |-> requests[i].phase]
    /\ UNCHANGED <<masterVars, frontVars, requests, nextId, reports, inCycle,
                   cancelGen, staged, transfer, closer, owner, foreign>>

\* A terminalizing request counts as failed once its mailbox is closed.
Reported ==
    IF status.phase = "terminalizing" /\ openGen # requests[status.id].gen
    THEN "failed" ELSE status.phase

Report ==
    /\ status.id # 0
    /\ reports' = [reports EXCEPT ![status.id] =
                     IF Reported \in Terminal THEN @ \union {Reported} ELSE @]
    /\ status' = [id |-> 0, phase |-> "none"]
    /\ requestsLock' = "none"
    /\ UNCHANGED <<masterVars, frontVars, requests, nextId, inCycle,
                   cancelGen, staged, transfer, closer, owner, foreign>>

-----------------------------------------------------------------------------
(* EthercatMaster::cycle and owner_step.  owner.pc names the next access.  *)

UnchangedByOwner ==
    UNCHANGED <<masterVars, frontVars, nextId, requestsLock, clientVars,
                closer>>

try_enter_cycle ==
    /\ owner.pc = "idle" /\ gateOpen
    /\ inCycle' = TRUE
    /\ owner' = [IdleOwner EXCEPT !.pc = "cancel"]
    /\ UnchangedByOwner
    /\ UNCHANGED <<requests, cancelGen, staged, transfer, foreign>>

\* Mutant: the mailbox is released while the transfer goes on.
SdoCancelAbandons == {<<"completed", transfer>>}

\* What progress_cancel_sdo may answer: the backend is free, or its transfer
\* has ended, or it is busy still and the owner asks again in a later cycle.  A
\* failed answer changes none of this state and is asked again too: it stands
\* beside "pending".
SdoCancel ==
    {<<"completed", NoTransfer>>}
        \union (IF transfer = NoTransfer THEN {} ELSE {<<"pending", transfer>>})

progress_cancel_sdo ==
    /\ owner.pc = "cancel" /\ cancelGen # 0
    /\ \E answer \in SdoCancel :
          /\ transfer' = answer[2]
          /\ staged' = IF answer[1] = "completed" THEN 0 ELSE staged
          /\ cancelGen' = IF answer[1] = "completed" THEN 0 ELSE cancelGen
    /\ owner' = [owner EXCEPT !.pc = "leave"]
    /\ UnchangedByOwner
    /\ UNCHANGED <<inCycle, requests, foreign>>

NoCancel ==
    /\ owner.pc = "cancel" /\ cancelGen = 0
    /\ owner' = [owner EXCEPT !.pc = "slot"]
    /\ UnchangedByOwner
    /\ UNCHANGED <<inCycle, requests, cancelGen, staged, transfer, foreign>>

\* The generation checks on the staged request.
StagedIsCurrent ==
    /\ staged # 0
    /\ requests[staged].gen = generation
    /\ activeGen = generation /\ openGen = generation

LoadStaged ==
    /\ owner.pc = "slot"
    /\ owner' = IF StagedIsCurrent
                THEN [owner EXCEPT !.pc = "phase", !.request = staged]
                ELSE [owner EXCEPT !.pc = "leave"]
    /\ UnchangedByOwner
    /\ UNCHANGED <<inCycle, requests, cancelGen, staged, transfer, foreign>>

Activate ==
    /\ owner.pc = "phase"
    /\ IF requests[owner.request].phase \in {"staged", "active"}
       THEN /\ requests' = [requests EXCEPT ![owner.request].phase = "active"]
            /\ owner' = [owner EXCEPT !.pc = "progress"]
       ELSE /\ owner' = [owner EXCEPT !.pc = "leave"]
            /\ UNCHANGED requests
    /\ UnchangedByOwner
    /\ UNCHANGED <<inCycle, cancelGen, staged, transfer, foreign>>

\* What progress_download_sdo or progress_upload_sdo may answer for object o
\* on behalf of request r, with the transfer it leaves behind.
SdoProgress(o, r) ==
    CASE transfer = NoTransfer ->
            {<<"pending", [object |-> o, request |-> r]>>,
             <<"failed", NoTransfer>>}
      [] transfer # NoTransfer /\ transfer.object # o ->
            {<<"failed", transfer>>}
      [] OTHER ->
            {<<"pending", transfer>>, <<"completed", NoTransfer>>,
             <<"failed", NoTransfer>>}

Progress ==
    /\ owner.pc = "progress"
    /\ \E answer \in SdoProgress(requests[owner.request].object,
                                 owner.request) :
          /\ transfer' = answer[2]
          /\ owner' = [owner EXCEPT
                         !.pc = IF answer[1] = "pending" THEN "leave"
                                ELSE "terminalize",
                         !.result = answer[1]]
    /\ foreign' = (foreign \/ transfer.request \notin {0, owner.request})
    /\ UnchangedByOwner
    /\ UNCHANGED <<inCycle, requests, cancelGen, staged>>

Terminalize ==
    /\ owner.pc = "terminalize"
    /\ IF requests[owner.request].phase = "active"
       THEN /\ requests' = [requests EXCEPT
                              ![owner.request].phase = "terminalizing"]
            /\ owner' = [owner EXCEPT !.pc = "current"]
       ELSE /\ owner' = [owner EXCEPT !.pc = "leave"]
            /\ UNCHANGED requests
    /\ UnchangedByOwner
    /\ UNCHANGED <<inCycle, cancelGen, staged, transfer, foreign>>

LoadCurrent ==
    /\ owner.pc = "current"
    /\ owner' = [owner EXCEPT !.pc = "store",
                   !.current = activeGen = generation /\ openGen = generation]
    /\ UnchangedByOwner
    /\ UNCHANGED <<inCycle, requests, cancelGen, staged, transfer, foreign>>

\* Mutant: the outcome of a request that is no longer current is dropped.
StoredIfCurrent ==
    IF owner.current THEN owner.result ELSE "terminalizing"

StoredPhase ==
    IF owner.result = "completed" /\ owner.current THEN "completed"
    ELSE "failed"

StoreResult ==
    /\ owner.pc = "store"
    /\ requests' = [requests EXCEPT ![owner.request].phase = StoredPhase]
    /\ owner' = [owner EXCEPT !.pc = "clear"]
    /\ UnchangedByOwner
    /\ UNCHANGED <<inCycle, cancelGen, staged, transfer, foreign>>

\* Mutant: a finished request keeps the slot.
SlotKept == staged

SlotCleared == IF staged = owner.request THEN 0 ELSE staged

ClearStaged ==
    /\ owner.pc = "clear"
    /\ staged' = SlotCleared
    /\ owner' = [owner EXCEPT !.pc = "leave"]
    /\ UnchangedByOwner
    /\ UNCHANGED <<inCycle, requests, cancelGen, transfer, foreign>>

leave_cycle ==
    /\ owner.pc = "leave"
    /\ inCycle' = FALSE
    /\ owner' = IdleOwner
    /\ UnchangedByOwner
    /\ UNCHANGED <<requests, cancelGen, staged, transfer, foreign>>

owner_step ==
    progress_cancel_sdo \/ NoCancel \/ LoadStaged \/ Activate \/ Progress
        \/ Terminalize \/ LoadCurrent \/ StoreResult \/ ClearStaged

-----------------------------------------------------------------------------
MasterNext ==
    MasterOpen \/ MasterActivate \/ MasterAdmit \/ MasterCloseGate
        \/ MasterInactive \/ close_for_parent \/ close_generation("master")
        \/ MasterDeactivate \/ reset_after_parent_deactivate
FrontendNext == open \/ StoreOpen \/ close \/ close_generation("frontend")
OwnerNext == try_enter_cycle \/ owner_step \/ leave_cycle
ClientNext == (\E i \in Ids : mailbox_status(i)) \/ Report

Next ==
    \/ MasterNext \/ FrontendNext \/ OwnerNext \/ ClientNext
    \/ stage_one
    \/ \E o \in Objects : enqueue(o)

Spec == Init /\ [][Next]_vars

(* A thread that can run does; a mutex is granted in the end to a thread   *)
(* that keeps asking; an SDO transfer ends in the end, as the IgH master   *)
(* gives up on a slave that does not answer.  Nothing obliges anybody to   *)
(* open, close, queue or poll.                                             *)
TransferEnds ==
    transfer # NoTransfer /\ transfer' = NoTransfer
        /\ (Progress \/ progress_cancel_sdo)
Fairness ==
    /\ WF_vars(OwnerNext)
    /\ SF_vars(TransferEnds)
    /\ WF_vars(MasterActivate \/ MasterAdmit \/ MasterInactive
               \/ MasterDeactivate)
    /\ SF_vars(close_for_parent)
    /\ SF_vars(reset_after_parent_deactivate)
    /\ \A c \in Closers : SF_vars(close_generation(c))
    /\ WF_vars(StoreOpen)
    /\ WF_vars(Report)
    /\ SF_vars(stage_one)

FairSpec == Spec /\ Fairness

-----------------------------------------------------------------------------
Phases == {"unused", "queued", "staged", "active", "terminalizing"}
             \union Terminal
Generation == 0..MaxGenerations
Request == [gen : Generation, object : Objects \union {0}, phase : Phases]
Closer == [gen : Generation, id : 1..(MaxRequests + 1),
           phase : Phases \union {"none"}]
OwnerPcs == {"idle", "cancel", "slot", "phase", "progress", "terminalize",
             "current", "store", "clear", "leave"}
Results == {"none", "pending"} \union Terminal
OwnerState == [pc : OwnerPcs, request : 0..MaxRequests, result : Results,
               current : BOOLEAN]

\* The variables that are no flags.
Typed ==
    /\ activeGen \in Generation /\ generation \in Generation
    /\ openGen \in Generation /\ cancelGen \in Generation
    /\ nextGen \in 1..(MaxGenerations + 1)
    /\ staged \in 0..MaxRequests
    /\ requests \in [Ids -> Request]
    /\ nextId \in 1..(MaxRequests + 1)
    /\ transfer \in [object : Objects \union {0}, request : 0..MaxRequests]
    /\ lifecycleLock \in Closers \union {"none"}
    /\ requestsLock \in Closers \union {"none", "client"}
    /\ mpc \in {"idle", "activate", "admit", "inactive", "mailbox", "lock",
                "fail", "wait", "reset"}
    /\ fpc \in {"idle", "open", "lock", "fail"}
    /\ closer \in [Closers -> Closer]
    /\ owner \in OwnerState
    /\ status \in [id : 0..MaxRequests, phase : Phases \union {"none"}]
    /\ reports \in [Ids -> SUBSET Terminal]

TypeOK ==
    /\ Typed
    /\ gateOpen \in BOOLEAN /\ inCycle \in BOOLEAN
    /\ activated \in BOOLEAN /\ foreign \in BOOLEAN

\* The owner is only ever inside a cycle, and so at the backend, while the
\* backend is activated: close() waits for the admitted cycle before it
\* deactivates, and the gate admits none afterwards.
BackendOnlyWhileActivated == (inCycle \/ owner.pc # "idle") => activated

\* owner_step never takes another request's transfer for its own, nor finds
\* one in its way: the backend knows a transfer by its object only, and it is
\* the cancellation drained before a reopen that keeps the two apart, even
\* when the mailbox was closed and opened within one master generation.
NoForeignTransfer == ~foreign

\* Once a generation is closed no request of it is left to run: with the
\* mailbox closed and no close on its way, every request has ended.  A
\* request the frontend queued while the master was closing is no exception.
NoOrphans ==
    openGen = 0 /\ lifecycleLock = "none" /\ mpc \in {"idle", "reset"}
        => \A i \in Ids : requests[i].phase \in Terminal \union {"unused"}

\* A client that has been told a request completed is never told afterwards
\* that it failed, although closing turns some completed requests to failed.
\* (The converse does not hold: a request reported failed while it is
\* terminalizing may be reported completed later.)
CompletedIsKept ==
    [][\A i \in Ids : reports[i] = {"completed"}
                        => reports'[i] = {"completed"}]_vars

\* EthercatMaster::close and EthercatMailbox::close return: neither the wait
\* for a terminalizing request, under both mutexes, nor the wait for the
\* admitted cycle is for ever.
CloseReturns ==
    /\ mpc \in {"inactive", "mailbox", "lock", "fail", "wait", "reset"}
          ~> mpc = "idle"
    /\ fpc \in {"lock", "fail"} ~> fpc = "idle"

\* Every request that is queued ends, with a result or by a close.
RequestsEnd ==
    \A i \in Ids : requests[i].phase = "queued"
                     ~> requests[i].phase \in Terminal
=============================================================================
