--------------------------- MODULE LocalSnapshot ----------------------------
(***************************************************************************)
(* LocalSnapshot<T> (include/policy_runtime/robot_io/daemon/               *)
(* local_snapshot.hpp), one step per access to a shared atomic.  All of    *)
(* them are memory_order_seq_cst, so an interleaving is all there is.      *)
(* The writer's accesses to active_index_ and epoch_ that no reader can    *)
(* notice (only the writer stores them) share a step with the guard store  *)
(* that follows.                                                           *)
(*                                                                         *)
(* The payload of a publication is identified with its epoch, and every    *)
(* word of it holds that number: a value is torn when its words differ.    *)
(***************************************************************************)
EXTENDS Integers

CONSTANTS
    Readers,               \* threads that call read
    WordCount,             \* kWordCount
    MaxAttempts,           \* 16 in the code
    MaxPublications        \* bound: calls of publish in one behaviour

ASSUME WordAssumption == WordCount \in Nat \ {0}
ASSUME AttemptAssumption == MaxAttempts \in Nat \ {0}
ASSUME PublicationAssumption == MaxPublications \in Nat

Slots == 0..1
NoActiveSlot == 2          \* kNoActiveSlot: any index outside Slots
Words == 1..WordCount
Torn == -1                 \* no publication has this payload

VARIABLES
    active,                \* active_index_
    epoch,                 \* epoch_
    guard,                 \* per slot: guard
    words,                 \* per slot: words
    wpc, target, wnext,    \* the writer: where it is, slot, next word
    rpc,                   \* per reader: where it is
    tries,                 \* attempt
    rslot, before,         \* the active index and guard it loaded
    rnext, got,            \* next word and the words loaded so far
    seen, overtaken,       \* history: see Register
    result                 \* last value returned to the reader

readerVars == <<rpc, tries, rslot, before, rnext, got, result>>
historyVars == <<seen, overtaken>>
vars == <<active, epoch, guard, words, wpc, target, wnext, readerVars,
          historyVars>>

Init ==
    /\ active = NoActiveSlot /\ epoch = 0
    /\ guard = [s \in Slots |-> 0]
    /\ words = [s \in Slots |-> [w \in Words |-> 0]]
    /\ wpc = "idle" /\ target = 0 /\ wnext = 1
    /\ rpc = [r \in Readers |-> "idle"]
    /\ tries = [r \in Readers |-> 0]
    /\ rslot = [r \in Readers |-> 0]
    /\ before = [r \in Readers |-> 0]
    /\ rnext = [r \in Readers |-> 1]
    /\ got = [r \in Readers |-> [w \in Words |-> 0]]
    /\ seen = [r \in Readers |-> {}]
    /\ overtaken = [r \in Readers |-> 0]
    /\ result = [r \in Readers |-> 0]

Odd(n) == n % 2 = 1

\* The payload a run of words stands for.
Payload(ws) == IF \A w \in Words : ws[w] = ws[1] THEN ws[1] ELSE Torn

Current == IF active \in Slots THEN Payload(words[active]) ELSE 0
Pending(r) == rpc[r] # "idle"

-----------------------------------------------------------------------------
(* publish *)

Target == IF active \in Slots THEN 1 - active ELSE 0

BeginPublish ==
    /\ wpc = "idle"
    /\ epoch < 2 * MaxPublications
    /\ target' = Target
    /\ epoch' = epoch + 2
    /\ guard' = [guard EXCEPT ![Target] = epoch + 3]      \* epoch | 1
    /\ wpc' = "words" /\ wnext' = 1
    /\ UNCHANGED <<active, words, readerVars, historyVars>>

StoreWord ==
    /\ wpc = "words"
    /\ words' = [words EXCEPT ![target][wnext] = epoch]
    /\ IF wnext < WordCount
       THEN wnext' = wnext + 1 /\ UNCHANGED wpc
       ELSE wpc' = "guard" /\ UNCHANGED wnext
    /\ UNCHANGED <<active, epoch, guard, target, readerVars, historyVars>>

StoreGuard ==
    /\ wpc = "guard"
    /\ guard' = [guard EXCEPT ![target] = epoch]
    /\ wpc' = "active"
    /\ UNCHANGED <<active, epoch, words, target, wnext, readerVars, historyVars>>

\* The new value becomes the current one, also for the reads in progress.
StoreActive ==
    /\ wpc = "active"
    /\ active' = target
    /\ wpc' = "idle"
    /\ seen' = [r \in Readers |->
                    IF Pending(r) THEN seen[r] \cup {Payload(words[target])}
                    ELSE seen[r]]
    /\ overtaken' = [r \in Readers |->
                    IF Pending(r) THEN overtaken[r] + 1 ELSE overtaken[r]]
    /\ UNCHANGED <<epoch, guard, words, target, wnext, readerVars>>

publish == BeginPublish \/ StoreWord \/ StoreGuard \/ StoreActive

-----------------------------------------------------------------------------
(* read *)

writerVars == <<active, epoch, guard, words, wpc, target, wnext>>

BeginRead(r) ==
    /\ rpc[r] = "idle"
    /\ rpc' = [rpc EXCEPT ![r] = "active"]
    /\ tries' = [tries EXCEPT ![r] = 0]
    /\ seen' = [seen EXCEPT ![r] = {Current}]
    /\ UNCHANGED <<writerVars, rslot, before, rnext, got, overtaken, result>>

\* The read returns v; its locals are gone.
Return(r, v) ==
    /\ rpc' = [rpc EXCEPT ![r] = "idle"]
    /\ seen' = [seen EXCEPT ![r] = {}]
    /\ overtaken' = [overtaken EXCEPT ![r] = 0]
    /\ result' = [result EXCEPT ![r] = v]
    /\ UNCHANGED <<writerVars, tries, rslot, before, rnext, got>>

LastAttempt(r) == tries[r] + 1 >= MaxAttempts

\* "continue", or no value after the last attempt.
Retry(r) ==
    \/ /\ ~LastAttempt(r)
       /\ rpc' = [rpc EXCEPT ![r] = "active"]
       /\ tries' = [tries EXCEPT ![r] = @ + 1]
       /\ UNCHANGED <<writerVars, rslot, before, rnext, got, historyVars, result>>
    \/ /\ LastAttempt(r)
       /\ Return(r, result[r])

LoadActive(r) ==
    /\ rpc[r] = "active"
    /\ \/ /\ active \notin Slots
          /\ Return(r, 0)
       \/ /\ active \in Slots
          /\ rpc' = [rpc EXCEPT ![r] = "guard"]
          /\ rslot' = [rslot EXCEPT ![r] = active]
          /\ UNCHANGED <<writerVars, tries, before, rnext, got, historyVars, result>>

LoadGuard(r) ==
    /\ rpc[r] = "guard"
    /\ \/ Odd(guard[rslot[r]]) /\ Retry(r)
       \/ /\ ~Odd(guard[rslot[r]])
          /\ rpc' = [rpc EXCEPT ![r] = "words"]
          /\ before' = [before EXCEPT ![r] = guard[rslot[r]]]
          /\ rnext' = [rnext EXCEPT ![r] = 1]
          /\ UNCHANGED <<writerVars, tries, rslot, got, historyVars, result>>

LoadWord(r) ==
    /\ rpc[r] = "words"
    /\ got' = [got EXCEPT ![r] =
                    [@ EXCEPT ![rnext[r]] = words[rslot[r]][rnext[r]]]]
    /\ \/ /\ rnext[r] < WordCount
          /\ rnext' = [rnext EXCEPT ![r] = @ + 1]
          /\ UNCHANGED rpc
       \/ /\ rnext[r] >= WordCount
          /\ rpc' = [rpc EXCEPT ![r] = "after"]
          /\ UNCHANGED rnext
    /\ UNCHANGED <<writerVars, tries, rslot, before, historyVars, result>>

\* Mutant: the guard is not read again.
UnchangedUnchecked(r) == TRUE

\* before is even, so an equal guard is even too.
UnchangedGuard(r) == guard[rslot[r]] = before[r]

\* On a changed guard the code still loads the active index; nobody can tell.
LoadAfter(r) ==
    /\ rpc[r] = "after"
    /\ \/ ~UnchangedGuard(r) /\ Retry(r)
       \/ /\ UnchangedGuard(r)
          /\ rpc' = [rpc EXCEPT ![r] = "confirm"]
          /\ UNCHANGED <<writerVars, tries, rslot, before, rnext, got,
                         historyVars, result>>

\* Mutant: the active index is not read again.
UnconfirmedActive(r) == TRUE

ConfirmedActive(r) == active = rslot[r]

Confirm(r) ==
    /\ rpc[r] = "confirm"
    /\ \/ ~ConfirmedActive(r) /\ Retry(r)
       \/ ConfirmedActive(r) /\ Return(r, Payload(got[r]))

read(r) ==
    \/ BeginRead(r) \/ LoadActive(r) \/ LoadGuard(r)
    \/ LoadWord(r) \/ LoadAfter(r) \/ Confirm(r)

Next == publish \/ \E r \in Readers : read(r)

Spec == Init /\ [][Next]_vars

-----------------------------------------------------------------------------
(* Properties *)

\* Every variable of publish and read keeps its type; in particular a reader
\* never starts more than MaxAttempts attempts.
TypeOK ==
    /\ active \in 0..2 /\ epoch \in Nat
    /\ guard \in [Slots -> Nat] /\ words \in [Slots -> [Words -> Nat]]
    /\ wpc \in {"idle", "words", "guard", "active"}
    /\ target \in Slots /\ wnext \in Words
    /\ rpc \in [Readers ->
            {"idle", "active", "guard", "words", "after", "confirm"}]
    /\ tries \in [Readers -> 0..(MaxAttempts - 1)]
    /\ rslot \in [Readers -> Slots] /\ before \in [Readers -> Nat]
    /\ rnext \in [Readers -> Words] /\ got \in [Readers -> [Words -> Nat]]
    /\ overtaken \in [Readers -> Nat]
    /\ seen \in [Readers -> SUBSET (Nat \cup {Torn})]
    /\ result \in [Readers -> Nat \cup {Torn}]

Abstract == INSTANCE Register WITH
    value <- Current,
    pending <- [r \in Readers |-> Pending(r)]

\* The two slots and their guards implement the register: "The bounded reader
\* either returns one complete version or no value", the version was current
\* while the read ran, and no value means that MaxAttempts publications (or
\* none ever) happened in the meantime.
ImplementsRegister == Abstract!Spec

\* A thread that reads twice never sees an older publication the second time.
ReadsNeverGoBack == [][\A r \in Readers : result'[r] >= result[r]]_vars
=============================================================================
