------------------------ MODULE LocalSnapshotProofs -------------------------
(***************************************************************************)
(* LocalSnapshot implements Register, for any number of readers, words,    *)
(* attempts and publications.                                              *)
(*                                                                         *)
(* Two facts carry the argument.  SlotInv: a slot whose guard is even      *)
(* holds the complete publication that the guard names, and the writer     *)
(* never works on the active slot.  ReaderInv: as long as the guard a      *)
(* reader loaded is still there, all it has loaded is of that publication, *)
(* which was current during the read or is about to become so; and every   *)
(* attempt that failed was overtaken by a publication of its own.          *)
(***************************************************************************)
EXTENDS LocalSnapshot, TLAPS

Writing == wpc \in {"words", "guard"}

SlotInv ==
    /\ epoch % 2 = 0
    /\ wpc # "idle" => active # target /\ epoch > 0
    /\ \A s \in Slots : guard[s] <= epoch + 1
    /\ \A s \in Slots : Odd(guard[s]) => Writing /\ s = target
    /\ \A s \in Slots : ~Odd(guard[s]) =>
            guard[s] <= epoch /\ \A w \in Words : words[s][w] = guard[s]
    /\ wpc # "idle" => \A s \in Slots : s # target => guard[s] < epoch
    /\ Writing => guard[target] = epoch + 1
    /\ wpc = "words" => \A w \in Words : w < wnext => words[target][w] = epoch
    /\ wpc = "guard" => \A w \in Words : words[target][w] = epoch
    /\ wpc = "active" => guard[target] = epoch

\* What a reader may still return: current during the read, or next.
Safe(r, v) == v \in seen[r] \/ (wpc = "active" /\ target = rslot[r] /\ v = epoch)

ReaderInv(r) ==
    /\ rpc[r] \in {"words", "after", "confirm"} =>
            /\ before[r] % 2 = 0 /\ before[r] <= epoch
            /\ Writing /\ target = rslot[r] => before[r] < epoch
    /\ rpc[r] = "words" /\ guard[rslot[r]] = before[r] =>
            \A w \in Words : w < rnext[r] => got[r][w] = before[r]
    /\ rpc[r] = "after" /\ guard[rslot[r]] = before[r] =>
            \A w \in Words : got[r][w] = before[r]
    /\ rpc[r] = "confirm" =>
            /\ \A w \in Words : got[r][w] = before[r]
            /\ Safe(r, before[r])
    /\ rpc[r] \in {"guard", "words", "after"} /\ ~Odd(guard[rslot[r]]) =>
            Safe(r, guard[rslot[r]])
    /\ rpc[r] # "idle" => tries[r] <= overtaken[r]
    /\ rpc[r] \in {"guard", "words", "after", "confirm"} /\ active # rslot[r] =>
            tries[r] < overtaken[r]
    /\ rpc[r] \in {"words", "after"} /\ guard[rslot[r]] # before[r] =>
            tries[r] < overtaken[r]

\* The history of a read, and the values a reader got before it.
HistoryInv(r) ==
    /\ rpc[r] # "idle" => Current \in seen[r]
    /\ result[r] \in Nat /\ result[r] <= Current
    /\ \A v \in seen[r] : result[r] <= v /\ v <= Current

IInv == TypeOK /\ SlotInv /\ \A r \in Readers : ReaderInv(r) /\ HistoryInv(r)

USE DEF Slots, NoActiveSlot, Odd

-----------------------------------------------------------------------------
LEMMA Parity == \A n \in Nat : n % 2 = 0 => (n + 2) % 2 = 0 /\ (n + 3) % 2 = 1
OBVIOUS

(* Words that all agree stand for what they agree on. *)
LEMMA PayloadOfWords ==
    ASSUME NEW ws, NEW e, \A w \in Words : ws[w] = e
    PROVE  Payload(ws) = e
BY WordAssumption DEF Payload, Words

(* The current value is the publication named by the active slot's guard:  *)
(* that guard is even, because the writer works on the other slot.         *)
ActiveHolds ==
    /\ active \in Slots => Current = guard[active] /\ ~Odd(guard[active])
    /\ active \notin Slots => Current = 0
    /\ Current \in Nat /\ Current <= epoch

LEMMA CurrentIsGuard == TypeOK /\ SlotInv => ActiveHolds
<1> SUFFICES ASSUME TypeOK, SlotInv PROVE ActiveHolds
  OBVIOUS
<1> USE DEF ActiveHolds
<1>1. CASE active \in Slots
  <2>1. ~Odd(guard[active]) /\ guard[active] \in Nat
    BY <1>1 DEF TypeOK, SlotInv, Writing
  <2>2. \A w \in Words : words[active][w] = guard[active]
    BY <1>1, <2>1 DEF SlotInv
  <2>3. Payload(words[active]) = guard[active]
    BY <2>2, PayloadOfWords
  <2> QED BY <1>1, <2>1, <2>3 DEF Current, SlotInv
<1>2. CASE active \notin Slots
  BY <1>2 DEF Current, TypeOK
<1> QED BY <1>1, <1>2

(* A value that is about to become current is the one stored in target. *)
LEMMA NextIsEpoch ==
    ASSUME TypeOK, SlotInv, wpc = "active"
    PROVE  Payload(words[target]) = epoch /\ epoch > Current
<1>1. ~Odd(guard[target]) /\ guard[target] = epoch
  BY DEF SlotInv, TypeOK, Writing
<1>2. \A w \in Words : words[target][w] = epoch
  BY <1>1 DEF SlotInv, TypeOK
<1>3. epoch > Current
  BY CurrentIsGuard DEF SlotInv, TypeOK, ActiveHolds
<1> QED BY <1>2, <1>3, PayloadOfWords

-----------------------------------------------------------------------------
(* The writer *)

LEMMA InitIInv == Init => IInv
<1> SUFFICES ASSUME Init PROVE IInv
  OBVIOUS
<1>1. TypeOK
  BY WordAssumption, AttemptAssumption DEF Init, TypeOK, Words
<1>2. SlotInv
  BY DEF Init, SlotInv, Writing
<1>3. \A r \in Readers : ReaderInv(r) /\ HistoryInv(r)
  <2> TAKE r \in Readers
  <2>1. rpc[r] = "idle" /\ seen[r] = {} /\ result[r] = 0 /\ Current = 0
    BY DEF Init, Current
  <2> QED BY <2>1 DEF ReaderInv, HistoryInv
<1> QED BY <1>1, <1>2, <1>3 DEF IInv

LEMMA WriterTypeOK == TypeOK /\ SlotInv /\ publish => TypeOK'
<1> SUFFICES ASSUME TypeOK, SlotInv, publish PROVE TypeOK'
  OBVIOUS
<1> USE DEF TypeOK, readerVars, historyVars
<1>1. CASE BeginPublish
  <2>1. Target \in Slots
    BY DEF Target
  <2>2. epoch' \in Nat /\ target' \in Slots /\ guard' \in [Slots -> Nat]
    BY <1>1, <2>1 DEF BeginPublish
  <2>3. wpc' = "words" /\ wnext' \in Words
    BY <1>1, WordAssumption DEF BeginPublish, Words
  <2>4. UNCHANGED <<active, words, readerVars, historyVars>>
    BY <1>1 DEF BeginPublish
  <2> QED BY <2>2, <2>3, <2>4
<1>2. CASE StoreWord
  <2>1. words' \in [Slots -> [Words -> Nat]]
    BY <1>2 DEF StoreWord
  <2>2. wnext' \in Words
    BY <1>2, WordAssumption DEF StoreWord, Words
  <2>3. wpc' \in {"words", "guard"}
    BY <1>2 DEF StoreWord
  <2> QED BY <1>2, <2>1, <2>2, <2>3 DEF StoreWord
<1>3. CASE StoreGuard
  BY <1>3 DEF StoreGuard
<1>4. CASE StoreActive
  <2>1. Payload(words[target]) \in Nat
    BY <1>4, NextIsEpoch DEF StoreActive
  <2>2. seen' \in [Readers -> SUBSET (Nat \cup {Torn})]
    BY <1>4, <2>1 DEF StoreActive
  <2>3. overtaken' \in [Readers -> Nat]
    BY <1>4 DEF StoreActive
  <2> QED BY <1>4, <2>2, <2>3 DEF StoreActive
<1> QED BY <1>1, <1>2, <1>3, <1>4 DEF publish

LEMMA WriterSlotInv == TypeOK /\ SlotInv /\ publish => SlotInv'
<1> SUFFICES ASSUME TypeOK, SlotInv, publish PROVE SlotInv'
  OBVIOUS
<1> USE DEF TypeOK, SlotInv, Writing
<1>1. CASE BeginPublish
  <2>1. Target \in Slots /\ active # Target
    BY DEF Target
  <2>2. /\ guard' = [guard EXCEPT ![Target] = epoch + 3]
        /\ epoch' = epoch + 2 /\ target' = Target /\ wnext' = 1
        /\ wpc = "idle" /\ wpc' = "words" /\ active' = active /\ words' = words
    BY <1>1 DEF BeginPublish
  <2>3. \A s \in Slots : ~Odd(guard[s]) /\ guard[s] <= epoch
    BY <2>2
  <2>4. \A s \in Slots : s # target' => guard'[s] = guard[s]
    BY <2>2
  <2>5. guard'[target'] = epoch' + 1 /\ Odd(guard'[target'])
    <3>1. epoch \in Nat /\ epoch % 2 = 0
      OBVIOUS
    <3>2. (epoch + 3) % 2 = 1
      BY <3>1, Parity
    <3> QED BY <2>1, <2>2, <3>1, <3>2
  <2>6. \A w \in Words : ~(w < wnext')
    BY <2>2 DEF Words
  <2> HIDE DEF SlotInv
  <2>7. \A s \in Slots : ~Odd(guard[s]) =>
            guard[s] <= epoch /\ \A w \in Words : words[s][w] = guard[s]
    BY DEF SlotInv
  <2> QED BY <2>1, <2>2, <2>3, <2>4, <2>5, <2>6, <2>7 DEF SlotInv
<1>2. CASE StoreWord
  <2>1. /\ wpc = "words"
        /\ words' = [words EXCEPT ![target][wnext] = epoch]
        /\ UNCHANGED <<active, epoch, guard, target>>
    BY <1>2 DEF StoreWord
  <2>2. \A w \in Words : w <= wnext => words'[target][w] = epoch
    <3> TAKE w \in Words
    <3>1. CASE w = wnext
      BY <2>1, <3>1
    <3>2. CASE w # wnext /\ w <= wnext
      BY <2>1, <3>2 DEF Words
    <3> QED BY <3>1, <3>2
  <2>3. \A s \in Slots : s # target => words'[s] = words[s]
    BY <2>1
  <2>4. CASE wnext < WordCount
    BY <1>2, <2>1, <2>2, <2>3, <2>4 DEF StoreWord, Words
  <2>5. CASE ~(wnext < WordCount)
    BY <1>2, <2>1, <2>2, <2>3, <2>5, WordAssumption DEF StoreWord, Words
  <2> QED BY <2>4, <2>5
<1>3. CASE StoreGuard
  BY <1>3 DEF StoreGuard
<1>4. CASE StoreActive
  BY <1>4 DEF StoreActive
<1> QED BY <1>1, <1>2, <1>3, <1>4 DEF publish

LEMMA WriterReaderInv ==
    ASSUME IInv, publish, NEW r \in Readers
    PROVE  ReaderInv(r)'
<1> USE DEF ReaderInv, Safe, Writing
<1>t. /\ TypeOK /\ SlotInv /\ ReaderInv(r)
      /\ epoch \in Nat /\ before[r] \in Nat /\ tries[r] \in Nat
      /\ overtaken[r] \in Nat /\ rslot[r] \in Slots /\ target \in Slots
      /\ guard \in [Slots -> Nat]
  BY DEF IInv, TypeOK
<1>1. CASE BeginPublish
  <2>1. /\ wpc = "idle" /\ wpc' = "words" /\ target' = Target
        /\ epoch' = epoch + 2 /\ guard' = [guard EXCEPT ![Target] = epoch + 3]
        /\ UNCHANGED <<active, rpc, tries, rslot, before, rnext, got, seen, overtaken>>
    BY <1>1 DEF BeginPublish, readerVars, historyVars
  <2>2. Target \in Slots /\ Target # active /\ (epoch + 3) % 2 = 1
    BY <1>t, Parity DEF Target, SlotInv, TypeOK
  <2>3. CASE rslot[r] = Target
    <3>1. guard'[rslot[r]] = epoch + 3 /\ Odd(guard'[rslot[r]])
      BY <1>t, <2>1, <2>2, <2>3
    <3> QED BY <1>t, <2>1, <2>2, <2>3, <3>1
  <2>4. CASE rslot[r] # Target
    <3>1. guard'[rslot[r]] = guard[rslot[r]]
      BY <1>t, <2>1, <2>4
    <3> QED BY <1>t, <2>1, <2>4, <3>1
  <2> QED BY <2>3, <2>4
<1>2. CASE StoreWord
  <2>1. /\ wpc = "words" /\ wpc' \in {"words", "guard"}
        /\ UNCHANGED <<active, epoch, guard, target, rpc, tries, rslot,
                       before, rnext, got, seen, overtaken>>
    BY <1>2 DEF StoreWord, readerVars, historyVars
  <2> QED BY <1>t, <2>1
<1>3. CASE StoreGuard
  <2>1. /\ wpc = "guard" /\ wpc' = "active"
        /\ guard' = [guard EXCEPT ![target] = epoch]
        /\ guard[target] = epoch + 1
        /\ UNCHANGED <<active, epoch, target, rpc, tries, rslot,
                       before, rnext, got, seen, overtaken>>
    BY <1>3, <1>t DEF StoreGuard, readerVars, historyVars, SlotInv
  <2>2. CASE rslot[r] = target
    <3>1. guard'[rslot[r]] = epoch
      BY <1>t, <2>1, <2>2
    <3> QED BY <1>t, <2>1, <2>2, <3>1
  <2>3. CASE rslot[r] # target
    <3>1. guard'[rslot[r]] = guard[rslot[r]]
      BY <1>t, <2>1, <2>3
    <3> QED BY <1>t, <2>1, <2>3, <3>1
  <2> QED BY <2>2, <2>3
<1>4. CASE StoreActive
  <2>1. /\ wpc = "active" /\ wpc' = "idle" /\ active' = target
        /\ UNCHANGED <<epoch, guard, target, rpc, tries, rslot, before, rnext, got>>
    BY <1>4 DEF StoreActive, readerVars
  <2>2. Payload(words[target]) = epoch
    BY <1>t, <2>1, NextIsEpoch
  <2>3. rpc[r] # "idle" =>
            seen'[r] = seen[r] \cup {epoch} /\ overtaken'[r] = overtaken[r] + 1
    BY <1>4, <2>2 DEF StoreActive, Pending
  <2> QED BY <1>t, <2>1, <2>3
<1> QED BY <1>1, <1>2, <1>3, <1>4 DEF publish

LEMMA WriterHistoryInv ==
    ASSUME IInv, publish, TypeOK', SlotInv', NEW r \in Readers
    PROVE  HistoryInv(r)'
<1>1. ActiveHolds /\ ActiveHolds'
  <2>1. ActiveHolds
    BY CurrentIsGuard DEF IInv
  <2>2. (TypeOK /\ SlotInv => ActiveHolds)'
    BY CurrentIsGuard, PTL
  <2> QED BY <2>1, <2>2
<1>2. /\ HistoryInv(r) /\ TypeOK /\ SlotInv
      /\ result[r] \in Nat \cup {Torn} /\ seen[r] \subseteq Nat \cup {Torn}
  BY DEF IInv, TypeOK
<1>3. CASE StoreActive
  <2>1. /\ wpc = "active" /\ active' = target /\ target \in Slots
        /\ UNCHANGED <<guard, rpc, result>>
        /\ guard[target] = epoch
    BY <1>2, <1>3 DEF StoreActive, readerVars, TypeOK, SlotInv
  <2>2. Payload(words[target]) = epoch /\ epoch > Current
    BY <1>2, <2>1, NextIsEpoch
  <2>3. Current' = epoch
    BY <1>1, <2>1 DEF ActiveHolds
  <2>4. /\ rpc[r] # "idle" => seen'[r] = seen[r] \cup {epoch}
        /\ rpc[r] = "idle" => seen'[r] = seen[r]
    BY <1>3, <2>2 DEF StoreActive, Pending
  <2>5. Current \in Nat /\ epoch \in Nat /\ result'[r] = result[r] /\ rpc'[r] = rpc[r]
    BY <1>1, <1>2, <2>1 DEF ActiveHolds, TypeOK
  <2>6. /\ result'[r] \in Nat /\ result'[r] <= Current'
        /\ (rpc'[r] # "idle" => Current' \in seen'[r])
    BY <1>2, <2>2, <2>3, <2>4, <2>5 DEF HistoryInv, Torn
  <2>7. \A v \in seen'[r] : result'[r] <= v /\ v <= Current'
    BY <1>2, <2>2, <2>3, <2>4, <2>5 DEF HistoryInv, Torn
  <2> QED BY <2>6, <2>7 DEF HistoryInv
<1>4. CASE BeginPublish \/ StoreWord \/ StoreGuard
  <2>1. UNCHANGED <<active, seen, rpc, result>>
    BY <1>4 DEF BeginPublish, StoreWord, StoreGuard, readerVars, historyVars
  <2>2. active \in Slots => guard'[active] = guard[active]
    BY <1>2, <1>4
    DEF BeginPublish, StoreWord, StoreGuard, Target, SlotInv, TypeOK
  <2>3. Current' = Current
    BY <1>1, <2>1, <2>2 DEF ActiveHolds
  <2> QED BY <1>2, <2>1, <2>3 DEF HistoryInv
<1> QED BY <1>3, <1>4 DEF publish

-----------------------------------------------------------------------------
(* The readers.  A step of r changes only r's own variables. *)

OnlyReader(r) ==
    /\ UNCHANGED writerVars
    /\ \A q \in Readers \ {r} :
        /\ rpc'[q] = rpc[q] /\ tries'[q] = tries[q] /\ rslot'[q] = rslot[q]
        /\ before'[q] = before[q] /\ rnext'[q] = rnext[q] /\ got'[q] = got[q]
        /\ seen'[q] = seen[q] /\ overtaken'[q] = overtaken[q]
        /\ result'[q] = result[q]

LEMMA ReaderFrame ==
    ASSUME IInv, NEW r \in Readers, OnlyReader(r), TypeOK',
           ReaderInv(r)', HistoryInv(r)'
    PROVE  IInv'
<1>1. SlotInv'
  BY DEF IInv, OnlyReader, writerVars, SlotInv, Writing
<1>2. ASSUME NEW q \in Readers, q # r PROVE ReaderInv(q)'
  <2>1. ReaderInv(q)
    BY DEF IInv
  <2>2. /\ rpc'[q] = rpc[q] /\ tries'[q] = tries[q] /\ rslot'[q] = rslot[q]
        /\ before'[q] = before[q] /\ rnext'[q] = rnext[q] /\ got'[q] = got[q]
        /\ seen'[q] = seen[q] /\ overtaken'[q] = overtaken[q]
    BY <1>2, Zenon DEF OnlyReader
  <2>3. UNCHANGED writerVars
    BY Zenon DEF OnlyReader
  <2> QED BY <2>1, <2>2, <2>3, ZenonT(30) DEF writerVars, ReaderInv, Safe, Writing
<1>3. Current' = Current
  BY DEF OnlyReader, writerVars, Current, Payload
<1>4. ASSUME NEW q \in Readers, q # r PROVE HistoryInv(q)'
  BY <1>3, <1>4 DEF IInv, OnlyReader, HistoryInv
<1> QED BY <1>1, <1>2, <1>4 DEF IInv

\* A reader at the start of an attempt has nothing in hand yet.
LEMMA FreshAttempt ==
    ASSUME NEW r \in Readers, rpc'[r] = "active", tries'[r] <= overtaken'[r]
    PROVE  ReaderInv(r)'
BY DEF ReaderInv

LEMMA ReturnIInv ==
    ASSUME IInv, NEW r \in Readers, NEW v \in Nat, Return(r, v), v <= Current
    PROVE  IInv'
<1> USE DEF Return
<1>1. TypeOK'
  BY DEF IInv, TypeOK, writerVars
<1>2. OnlyReader(r)
  BY DEF IInv, TypeOK, OnlyReader
<1>3. rpc'[r] = "idle" /\ seen'[r] = {} /\ result'[r] = v
  BY DEF IInv, TypeOK
<1>4. ReaderInv(r)'
  BY <1>3 DEF ReaderInv
<1>5. Current' = Current
  BY DEF writerVars, Current, Payload
<1>6. HistoryInv(r)'
  BY <1>3, <1>5 DEF HistoryInv
<1> QED BY <1>1, <1>2, <1>4, <1>6, ReaderFrame

LEMMA RetryIInv ==
    ASSUME IInv, NEW r \in Readers, Retry(r), rpc[r] # "idle",
           tries[r] < overtaken[r]
    PROVE  IInv'
<1>1. CASE LastAttempt(r)
  <2>1. Return(r, result[r])
    BY <1>1 DEF Retry
  <2>2. result[r] \in Nat /\ result[r] <= Current
    BY DEF IInv, HistoryInv
  <2> QED BY <2>1, <2>2, ReturnIInv
<1>2. CASE ~LastAttempt(r)
  <2>1. /\ rpc' = [rpc EXCEPT ![r] = "active"]
        /\ tries' = [tries EXCEPT ![r] = @ + 1]
        /\ UNCHANGED <<writerVars, rslot, before, rnext, got, historyVars, result>>
    BY <1>2 DEF Retry
  <2>2. TypeOK'
    <3>1. tries[r] + 1 \in 0..(MaxAttempts - 1)
      BY <1>2, AttemptAssumption DEF IInv, TypeOK, LastAttempt
    <3>2. tries' \in [Readers -> 0..(MaxAttempts - 1)]
      BY <2>1, <3>1 DEF IInv, TypeOK
    <3>3. rpc' \in [Readers ->
                {"idle", "active", "guard", "words", "after", "confirm"}]
      BY <2>1 DEF IInv, TypeOK
    <3> QED BY <2>1, <3>2, <3>3 DEF IInv, TypeOK, writerVars, historyVars
  <2>3. OnlyReader(r)
    BY <2>1 DEF IInv, TypeOK, OnlyReader, historyVars
  <2>4. rpc'[r] = "active" /\ tries'[r] = tries[r] + 1 /\ UNCHANGED <<seen, overtaken>>
    BY <2>1 DEF IInv, TypeOK, historyVars
  <2>5. ReaderInv(r)'
    <3>1. tries[r] \in Nat /\ overtaken[r] \in Nat
      BY DEF IInv, TypeOK
    <3>2. tries'[r] <= overtaken'[r]
      BY <2>4, <3>1
    <3> QED BY <2>4, <3>2, FreshAttempt
  <2>6. Current' = Current
    BY <2>1 DEF writerVars, Current, Payload
  <2>7. HistoryInv(r)'
    BY <2>1, <2>4, <2>6 DEF IInv, HistoryInv
  <2> QED BY <2>2, <2>3, <2>5, <2>7, ReaderFrame
<1> QED BY <1>1, <1>2

LEMMA ReaderIInv ==
    ASSUME IInv, NEW r \in Readers, read(r)
    PROVE  IInv'
<1>t. /\ TypeOK /\ SlotInv /\ ReaderInv(r) /\ HistoryInv(r) /\ ActiveHolds
      /\ epoch \in Nat /\ before[r] \in Nat /\ tries[r] \in Nat
      /\ overtaken[r] \in Nat /\ rslot[r] \in Slots /\ target \in Slots
      /\ guard \in [Slots -> Nat] /\ rnext[r] \in Words
  BY CurrentIsGuard DEF IInv, TypeOK
<1>c. UNCHANGED writerVars => Current' = Current
  BY DEF writerVars, Current, Payload
<1>1. CASE BeginRead(r)
  <2>1. TypeOK'
    BY <1>t, <1>1, AttemptAssumption DEF BeginRead, TypeOK, writerVars, ActiveHolds
  <2>2. OnlyReader(r)
    BY <1>1, <1>t DEF BeginRead, OnlyReader, TypeOK
  <2>3. /\ rpc'[r] = "active" /\ tries'[r] = 0 /\ seen'[r] = {Current}
        /\ result'[r] = result[r] /\ overtaken'[r] = overtaken[r]
    BY <1>1, <1>t DEF BeginRead, TypeOK
  <2>4. ReaderInv(r)'
    <3>1. tries'[r] <= overtaken'[r]
      BY <1>t, <2>3
    <3> QED BY <2>3, <3>1, FreshAttempt
  <2>5. HistoryInv(r)'
    <3>1. Current' = Current
      BY <1>c, <2>2 DEF OnlyReader
    <3>2. result[r] \in Nat /\ result[r] <= Current /\ Current \in Nat
      BY <1>t DEF HistoryInv, ActiveHolds
    <3> QED BY <2>3, <3>1, <3>2 DEF HistoryInv
  <2> QED BY <2>1, <2>2, <2>4, <2>5, ReaderFrame
<1>2. CASE LoadActive(r)
  <2>1. CASE active \notin Slots
    <3>1. Return(r, 0)
      BY <1>2, <2>1 DEF LoadActive
    <3>2. 0 <= Current
      BY <1>t DEF ActiveHolds
    <3> QED BY <3>1, <3>2, ReturnIInv
  <2>2. CASE active \in Slots
    <3>1. /\ rpc[r] = "active" /\ rpc' = [rpc EXCEPT ![r] = "guard"]
          /\ rslot' = [rslot EXCEPT ![r] = active]
          /\ UNCHANGED <<writerVars, tries, before, rnext, got, historyVars, result>>
      BY <1>2, <2>2 DEF LoadActive
    <3>2. TypeOK'
      BY <1>t, <2>2, <3>1 DEF TypeOK, writerVars, historyVars
    <3>3. OnlyReader(r)
      BY <1>t, <3>1 DEF TypeOK, OnlyReader, historyVars
    <3>4. rpc'[r] = "guard" /\ rslot'[r] = active /\ UNCHANGED <<seen, overtaken>>
      BY <1>t, <3>1 DEF TypeOK, historyVars
    <3>5. guard[active] \in seen[r]
      BY <1>t, <2>2, <3>1 DEF HistoryInv, ActiveHolds
    <3>6. ReaderInv(r)'
      BY <1>t, <3>1, <3>4, <3>5 DEF ReaderInv, Safe, writerVars
    <3>7. HistoryInv(r)'
      BY <1>t, <1>c, <3>1, <3>4 DEF HistoryInv
    <3> QED BY <3>2, <3>3, <3>6, <3>7, ReaderFrame
  <2> QED BY <2>1, <2>2
<1>3. CASE LoadGuard(r)
  <2>1. CASE Odd(guard[rslot[r]])
    <3>1. Retry(r) /\ rpc[r] = "guard"
      BY <1>3, <2>1 DEF LoadGuard
    <3>2. active # rslot[r]
      BY <1>t, <2>1 DEF SlotInv, Writing
    <3>3. tries[r] < overtaken[r]
      BY <1>t, <3>1, <3>2 DEF ReaderInv
    <3> QED BY <3>1, <3>3, RetryIInv
  <2>2. CASE ~Odd(guard[rslot[r]])
    <3>1. /\ rpc[r] = "guard" /\ rpc' = [rpc EXCEPT ![r] = "words"]
          /\ before' = [before EXCEPT ![r] = guard[rslot[r]]]
          /\ rnext' = [rnext EXCEPT ![r] = 1]
          /\ UNCHANGED <<writerVars, tries, rslot, got, historyVars, result>>
      BY <1>3, <2>2 DEF LoadGuard
    <3>2. TypeOK'
      <4>1. 1 \in Words
        BY WordAssumption DEF Words
      <4> QED BY <1>t, <3>1, <4>1 DEF TypeOK, writerVars, historyVars
    <3>3. OnlyReader(r)
      BY <1>t, <3>1 DEF TypeOK, OnlyReader, historyVars
    <3>4. /\ rpc'[r] = "words" /\ before'[r] = guard[rslot[r]] /\ rnext'[r] = 1
          /\ UNCHANGED <<seen, overtaken>>
      BY <1>t, <3>1 DEF TypeOK, historyVars
    <3>5. /\ guard[rslot[r]] % 2 = 0 /\ guard[rslot[r]] <= epoch
          /\ ~(Writing /\ target = rslot[r])
      <4>1. guard[rslot[r]] \in Nat
        BY <1>t
      <4>2. guard[rslot[r]] % 2 = 0
        BY <2>2, <4>1
      <4>3. Writing /\ target = rslot[r] => guard[rslot[r]] = epoch + 1
        BY <1>t DEF SlotInv
      <4>4. guard[rslot[r]] <= epoch
        BY <1>t, <2>2 DEF SlotInv
      <4>5. epoch \in Nat
        BY <1>t
      <4>6. ~(Writing /\ target = rslot[r])
        BY <4>1, <4>3, <4>4, <4>5
      <4> QED BY <4>2, <4>4, <4>6
    <3>6. \A w \in Words : ~(w < 1)
      BY DEF Words
    <3>7. ReaderInv(r)'
      BY <1>t, <2>2, <3>1, <3>4, <3>5, <3>6 DEF ReaderInv, Safe, writerVars, Writing
    <3>8. HistoryInv(r)'
      BY <1>t, <1>c, <3>1, <3>4 DEF HistoryInv
    <3> QED BY <3>2, <3>3, <3>7, <3>8, ReaderFrame
  <2> QED BY <2>1, <2>2
<1>4. CASE LoadWord(r)
  <2>1. /\ rpc[r] = "words" /\ rpc' \in {rpc, [rpc EXCEPT ![r] = "after"]}
        /\ got' = [got EXCEPT ![r] =
                        [@ EXCEPT ![rnext[r]] = words[rslot[r]][rnext[r]]]]
        /\ UNCHANGED <<writerVars, tries, rslot, before, historyVars, result>>
    BY <1>4 DEF LoadWord
  <2>2. TypeOK'
    <3>1. rnext' \in [Readers -> Words]
      <4>1. rnext[r] < WordCount => rnext[r] + 1 \in Words
        BY <1>t, WordAssumption DEF Words
      <4>2. CASE rnext[r] < WordCount
        BY <1>4, <1>t, <4>1, <4>2 DEF LoadWord, TypeOK
      <4>3. CASE ~(rnext[r] < WordCount)
        BY <1>4, <1>t, <4>3 DEF LoadWord, TypeOK
      <4> QED BY <4>2, <4>3
    <3>2. words[rslot[r]][rnext[r]] \in Nat /\ got[r] \in [Words -> Nat]
      BY <1>t DEF TypeOK
    <3>3. got' \in [Readers -> [Words -> Nat]]
      BY <1>t, <2>1, <3>2 DEF TypeOK
    <3>4. rpc' \in [Readers ->
                {"idle", "active", "guard", "words", "after", "confirm"}]
      BY <1>t, <2>1 DEF TypeOK
    <3> QED BY <1>t, <2>1, <3>1, <3>3, <3>4 DEF TypeOK, writerVars, historyVars
  <2>3. OnlyReader(r)
    BY <1>4, <1>t DEF LoadWord, TypeOK, OnlyReader, historyVars
  <2>4. UNCHANGED <<seen, overtaken>>
    BY <2>1 DEF historyVars
  <2>5. /\ got'[r][rnext[r]] = words[rslot[r]][rnext[r]]
        /\ \A w \in Words : w # rnext[r] => got'[r][w] = got[r][w]
    BY <1>t, <2>1 DEF TypeOK
  <2>6. guard[rslot[r]] = before[r] =>
            \A w \in Words : w <= rnext[r] => got'[r][w] = before[r]
    <3> SUFFICES ASSUME guard[rslot[r]] = before[r], NEW w \in Words, w <= rnext[r]
                 PROVE  got'[r][w] = before[r]
      OBVIOUS
    <3>1. ~Odd(guard[rslot[r]])
      BY <1>t, <2>1 DEF ReaderInv
    <3>2. words[rslot[r]][rnext[r]] = before[r]
      BY <1>t, <3>1 DEF SlotInv
    <3>3. w < rnext[r] => got[r][w] = before[r]
      BY <1>t, <2>1 DEF ReaderInv
    <3> QED BY <1>t, <2>5, <3>2, <3>3 DEF Words
  <2>7. HistoryInv(r)'
    <3>1. rpc'[r] # "idle" /\ rpc[r] # "idle"
      BY <1>t, <2>1 DEF TypeOK
    <3> QED BY <1>t, <1>c, <2>1, <2>4, <3>1 DEF HistoryInv
  <2>8. ReaderInv(r)'
    <3>1. CASE rnext[r] < WordCount
      <4>1. rpc'[r] = "words" /\ rnext'[r] = rnext[r] + 1
        <5>1. ~(rnext[r] >= WordCount)
          BY <1>t, <3>1, WordAssumption DEF Words
        <5> QED BY <1>4, <1>t, <3>1, <5>1 DEF LoadWord, TypeOK
      <4>2. \A w \in Words : w < rnext[r] + 1 => w <= rnext[r]
        BY <1>t DEF Words
      <4> QED BY <1>t, <2>1, <2>4, <2>6, <4>1, <4>2
              DEF ReaderInv, Safe, writerVars, Writing
    <3>2. CASE ~(rnext[r] < WordCount)
      <4>1. rpc'[r] = "after"
        BY <1>4, <1>t, <3>2 DEF LoadWord, TypeOK
      <4>2. \A w \in Words : w <= rnext[r]
        BY <1>t, <3>2, WordAssumption DEF Words
      <4> QED BY <1>t, <2>1, <2>4, <2>6, <4>1, <4>2
              DEF ReaderInv, Safe, writerVars, Writing
    <3> QED BY <3>1, <3>2
  <2> QED BY <2>2, <2>3, <2>7, <2>8, ReaderFrame
<1>5. CASE LoadAfter(r)
  <2>1. CASE ~UnchangedGuard(r)
    <3>1. Retry(r) /\ rpc[r] = "after"
      BY <1>5, <2>1 DEF LoadAfter
    <3>2. tries[r] < overtaken[r]
      BY <1>t, <2>1, <3>1 DEF ReaderInv, UnchangedGuard
    <3> QED BY <3>1, <3>2, RetryIInv
  <2>2. CASE UnchangedGuard(r)
    <3>1. /\ rpc[r] = "after" /\ rpc' = [rpc EXCEPT ![r] = "confirm"]
          /\ UNCHANGED <<writerVars, tries, rslot, before, rnext, got,
                         historyVars, result>>
      BY <1>5, <2>2 DEF LoadAfter
    <3>2. TypeOK'
      BY <1>t, <3>1 DEF TypeOK, writerVars, historyVars
    <3>3. OnlyReader(r)
      BY <1>t, <3>1 DEF TypeOK, OnlyReader, historyVars
    <3>4. rpc'[r] = "confirm" /\ UNCHANGED <<seen, overtaken>>
      BY <1>t, <3>1 DEF TypeOK, historyVars
    <3>5. guard[rslot[r]] = before[r] /\ before[r] % 2 = 0
      BY <1>t, <2>2, <3>1 DEF ReaderInv, UnchangedGuard
    <3>6. Safe(r, before[r]) /\ \A w \in Words : got[r][w] = before[r]
      <4>1. \A w \in Words : got[r][w] = before[r]
        BY <1>t, <3>1, <3>5 DEF ReaderInv
      <4>2. ~Odd(guard[rslot[r]])
        BY <3>5
      <4>3. ~Odd(guard[rslot[r]]) => Safe(r, guard[rslot[r]])
        BY <1>t, <3>1 DEF ReaderInv
      <4> QED BY <3>5, <4>1, <4>2, <4>3
    <3>7. ReaderInv(r)'
      <4>1. UNCHANGED <<active, guard, epoch, target, wpc, rslot, before, got, tries>>
        BY <3>1 DEF writerVars
      <4>2. Safe(r, before[r])'
        BY <3>4, <3>6, <4>1 DEF Safe, Writing
      <4>3. /\ before[r] <= epoch
            /\ Writing /\ target = rslot[r] => before[r] < epoch
            /\ tries[r] <= overtaken[r]
            /\ active # rslot[r] => tries[r] < overtaken[r]
        BY <1>t, <3>1 DEF ReaderInv
      <4> HIDE DEF Safe
      <4> QED BY <3>4, <3>5, <3>6, <4>1, <4>2, <4>3 DEF ReaderInv, Writing
    <3>8. HistoryInv(r)'
      BY <1>t, <1>c, <3>1, <3>4 DEF HistoryInv
    <3> QED BY <3>2, <3>3, <3>7, <3>8, ReaderFrame
  <2> QED BY <2>1, <2>2
<1>6. CASE Confirm(r)
  <2>1. CASE ~ConfirmedActive(r)
    <3>1. Retry(r) /\ rpc[r] = "confirm"
      BY <1>6, <2>1 DEF Confirm
    <3>2. tries[r] < overtaken[r]
      BY <1>t, <2>1, <3>1 DEF ReaderInv, ConfirmedActive
    <3> QED BY <3>1, <3>2, RetryIInv
  <2>2. CASE ConfirmedActive(r)
    <3>1. rpc[r] = "confirm" /\ Return(r, Payload(got[r]))
      BY <1>6, <2>2 DEF Confirm
    <3>2. Payload(got[r]) = before[r]
      BY <1>t, <3>1, PayloadOfWords DEF ReaderInv
    <3>3. before[r] \in seen[r]
      BY <1>t, <2>2, <3>1 DEF ReaderInv, Safe, ConfirmedActive, SlotInv
    <3>4. before[r] <= Current
      BY <1>t, <3>3 DEF HistoryInv
    <3> QED BY <1>t, <3>1, <3>2, <3>4, ReturnIInv
  <2> QED BY <2>1, <2>2
<1> QED BY <1>1, <1>2, <1>3, <1>4, <1>5, <1>6 DEF read

-----------------------------------------------------------------------------
(* The invariant *)

LEMMA StepIInv == IInv /\ [Next]_vars => IInv'
<1> SUFFICES ASSUME IInv, [Next]_vars PROVE IInv'
  OBVIOUS
<1>1. CASE publish
  <2>1. TypeOK' /\ SlotInv'
    BY <1>1, WriterTypeOK, WriterSlotInv DEF IInv
  <2> QED BY <1>1, <2>1, WriterReaderInv, WriterHistoryInv DEF IInv
<1>2. ASSUME NEW r \in Readers, read(r) PROVE IInv'
  BY <1>2, ReaderIInv
<1>3. CASE UNCHANGED vars
  <2>1. TypeOK'
    BY <1>3 DEF vars, readerVars, historyVars, IInv, TypeOK
  <2>2. SlotInv'
    BY <1>3 DEF vars, IInv, SlotInv, Writing
  <2>3. ASSUME NEW r \in Readers PROVE ReaderInv(r)'
    BY <1>3 DEF vars, readerVars, historyVars, IInv, ReaderInv, Safe, Writing
  <2>4. Current' = Current
    BY <1>3 DEF vars, Current, Payload
  <2>5. ASSUME NEW r \in Readers PROVE HistoryInv(r)'
    BY <1>3, <2>4 DEF vars, readerVars, historyVars, IInv, HistoryInv
  <2> QED BY <2>1, <2>2, <2>3, <2>5 DEF IInv
<1> QED BY <1>1, <1>2, <1>3 DEF Next

LEMMA Invariance == Spec => []IInv
BY InitIInv, StepIInv, PTL DEF Spec

(* Every variable of publish and read keeps its type, whatever the number  *)
(* of readers and words: a reader never starts more than MaxAttempts       *)
(* attempts.                                                               *)
THEOREM TypeCorrect == Spec => []TypeOK
<1>1. IInv => TypeOK
  BY DEF IInv
<1> QED BY Invariance, <1>1, PTL

-----------------------------------------------------------------------------
(* The refinement *)

LEMMA AbstractInit == Init => Abstract!Init
<1> SUFFICES ASSUME Init PROVE Abstract!Init
  OBVIOUS
<1>1. Current = 0
  BY DEF Init, Current
<1>2. \A r \in Readers : Pending(r) = FALSE
  BY DEF Init, Pending
<1>3. [r \in Readers |-> Pending(r)] = [r \in Readers |-> FALSE]
  BY <1>2, Zenon
<1> QED BY <1>1, <1>3 DEF Init, Abstract!Init

\* What the abstract register sees is unchanged.
Stutters == Current' = Current /\ UNCHANGED <<rpc, seen, overtaken, result>>

LEMMA AbstractStutter == Stutters => UNCHANGED Abstract!vars
BY DEF Stutters, Abstract!vars, Pending

LEMMA AbstractWriter == IInv /\ IInv' /\ publish => [Abstract!Next]_(Abstract!vars)
<1> SUFFICES ASSUME IInv, IInv', publish PROVE [Abstract!Next]_(Abstract!vars)
  OBVIOUS
<1>1. ActiveHolds /\ ActiveHolds'
  <2>1. (TypeOK /\ SlotInv => ActiveHolds)'
    BY CurrentIsGuard, PTL
  <2> QED BY <2>1, CurrentIsGuard DEF IInv
<1>2. CASE BeginPublish \/ StoreWord \/ StoreGuard
  <2>1. UNCHANGED <<active, rpc, seen, overtaken, result>>
    BY <1>2 DEF BeginPublish, StoreWord, StoreGuard, readerVars, historyVars
  <2>2. active \in Slots => guard'[active] = guard[active]
    BY <1>2 DEF BeginPublish, StoreWord, StoreGuard, Target, IInv, SlotInv, TypeOK
  <2>3. Stutters
    BY <1>1, <2>1, <2>2 DEF ActiveHolds, Stutters
  <2> QED BY <2>3, AbstractStutter
<1>3. CASE StoreActive
  <2>1. Payload(words[target]) = epoch /\ epoch > Current
    BY <1>3, NextIsEpoch DEF StoreActive, IInv
  <2>2. active' = target /\ guard' = guard /\ UNCHANGED <<rpc, result>>
    BY <1>3 DEF StoreActive, readerVars
  <2>3. Current' = epoch
    BY <1>1, <1>3, <2>2 DEF ActiveHolds, IInv, SlotInv, TypeOK, StoreActive
  <2>4. /\ seen' = [r \in Readers |->
                IF Pending(r) THEN seen[r] \cup {Current'} ELSE seen[r]]
        /\ overtaken' = [r \in Readers |->
                IF Pending(r) THEN overtaken[r] + 1 ELSE overtaken[r]]
    BY <1>3, <2>1, <2>3 DEF StoreActive
  <2>5. Current' \in Nat /\ Current' > Current
    BY <1>1, <2>1, <2>3 DEF ActiveHolds
  <2>6. Abstract!Write
    BY <2>2, <2>4, <2>5 DEF Abstract!Write, Pending
  <2> QED BY <2>6 DEF Abstract!Next
<1> QED BY <1>2, <1>3 DEF publish

LEMMA AbstractReturn ==
    ASSUME IInv, NEW r \in Readers, NEW v \in seen[r], Return(r, v), rpc[r] # "idle"
    PROVE  Abstract!EndRead(r)
<1>1. Current' = Current
  BY DEF Return, writerVars, Current, Payload
<1>2. [q \in Readers |-> Pending(q)]' = [[q \in Readers |-> Pending(q)] EXCEPT ![r] = FALSE]
  BY DEF Return, Pending, IInv, TypeOK
<1>3. Abstract!Finish(r)
  BY <1>1, <1>2 DEF Abstract!Finish, Return, Pending
<1> QED BY <1>3 DEF Abstract!EndRead, Return

LEMMA AbstractRetry ==
    ASSUME IInv, NEW r \in Readers, Retry(r), rpc[r] # "idle",
           tries[r] < overtaken[r]
    PROVE  [Abstract!Next]_(Abstract!vars)
<1>1. CASE LastAttempt(r)
  <2>1. Return(r, result[r])
    BY <1>1 DEF Retry
  <2>2. result' = result
    BY <2>1 DEF Return, IInv, TypeOK
  <2>3. Current' = Current
    BY <2>1 DEF Return, writerVars, Current, Payload
  <2>4. [q \in Readers |-> Pending(q)]' = [[q \in Readers |-> Pending(q)] EXCEPT ![r] = FALSE]
    BY <2>1 DEF Return, Pending, IInv, TypeOK
  <2>5. Abstract!Finish(r)
    BY <2>1, <2>3, <2>4 DEF Abstract!Finish, Return, Pending
  <2>6. overtaken[r] >= MaxAttempts
    BY <1>1, AttemptAssumption DEF LastAttempt, IInv, TypeOK
  <2> QED BY <2>2, <2>5, <2>6 DEF Abstract!GiveUp, Abstract!Next
<1>2. CASE ~LastAttempt(r)
  <2>1. /\ rpc' = [rpc EXCEPT ![r] = "active"]
        /\ UNCHANGED <<writerVars, historyVars, result>>
    BY <1>2 DEF Retry
  <2>2. Current' = Current /\ UNCHANGED <<seen, overtaken, result>>
    BY <2>1 DEF writerVars, historyVars, Current, Payload
  <2>3. \A q \in Readers : Pending(q)' = Pending(q)
    BY <2>1 DEF Pending, IInv, TypeOK
  <2> QED BY <2>2, <2>3 DEF Abstract!vars
<1> QED BY <1>1, <1>2

LEMMA AbstractReader ==
    ASSUME IInv, NEW r \in Readers, read(r)
    PROVE  [Abstract!Next]_(Abstract!vars)
<1>t. TypeOK /\ SlotInv /\ ReaderInv(r) /\ HistoryInv(r) /\ ActiveHolds
  BY CurrentIsGuard DEF IInv
<1>c. UNCHANGED writerVars => Current' = Current
  BY DEF writerVars, Current, Payload
<1>s. ASSUME UNCHANGED <<writerVars, historyVars, result>>, rpc[r] # "idle",
             NEW pc, pc # "idle", rpc' = [rpc EXCEPT ![r] = pc]
      PROVE  UNCHANGED Abstract!vars
  <2>1. \A q \in Readers : Pending(q)' = Pending(q)
    BY <1>s, <1>t DEF Pending, TypeOK
  <2>2. UNCHANGED <<seen, overtaken, result>>
    BY <1>s DEF historyVars
  <2> QED BY <1>s, <1>c, <2>1, <2>2 DEF Abstract!vars
<1>1. CASE BeginRead(r)
  <2>1. [q \in Readers |-> Pending(q)]' = [[q \in Readers |-> Pending(q)] EXCEPT ![r] = TRUE]
    BY <1>1, <1>t DEF BeginRead, Pending, TypeOK
  <2>2. Abstract!BeginRead(r)
    BY <1>1, <1>c, <2>1 DEF BeginRead, Abstract!BeginRead, Pending
  <2> QED BY <2>2 DEF Abstract!Next
<1>2. CASE LoadActive(r)
  <2>1. CASE active \notin Slots
    <3>1. Return(r, 0) /\ rpc[r] # "idle"
      BY <1>2, <2>1 DEF LoadActive
    <3>2. 0 \in seen[r]
      BY <1>t, <2>1, <3>1 DEF HistoryInv, ActiveHolds
    <3> QED BY <3>1, <3>2, AbstractReturn DEF Abstract!Next
  <2>2. CASE active \in Slots
    BY <1>2, <2>2, <1>s DEF LoadActive
  <2> QED BY <2>1, <2>2
<1>3. CASE LoadGuard(r)
  <2>1. CASE Odd(guard[rslot[r]])
    <3>1. Retry(r) /\ rpc[r] = "guard"
      BY <1>3, <2>1 DEF LoadGuard
    <3>2. active # rslot[r]
      BY <1>t, <2>1 DEF SlotInv, Writing, TypeOK
    <3>3. tries[r] < overtaken[r]
      BY <1>t, <3>1, <3>2 DEF ReaderInv
    <3> QED BY <3>1, <3>3, AbstractRetry
  <2>2. CASE ~Odd(guard[rslot[r]])
    BY <1>3, <2>2, <1>s DEF LoadGuard
  <2> QED BY <2>1, <2>2
<1>4. CASE LoadWord(r)
  <2>1. rpc[r] = "words" /\ rpc' \in {[rpc EXCEPT ![r] = "words"], [rpc EXCEPT ![r] = "after"]}
    BY <1>4, <1>t DEF LoadWord, TypeOK
  <2>2. UNCHANGED <<writerVars, historyVars, result>>
    BY <1>4 DEF LoadWord
  <2> QED BY <2>1, <2>2, <1>s
<1>5. CASE LoadAfter(r)
  <2>1. CASE ~UnchangedGuard(r)
    <3>1. Retry(r) /\ rpc[r] = "after"
      BY <1>5, <2>1 DEF LoadAfter
    <3>2. tries[r] < overtaken[r]
      BY <1>t, <2>1, <3>1 DEF ReaderInv, UnchangedGuard
    <3> QED BY <3>1, <3>2, AbstractRetry
  <2>2. CASE UnchangedGuard(r)
    BY <1>5, <2>2, <1>s DEF LoadAfter
  <2> QED BY <2>1, <2>2
<1>6. CASE Confirm(r)
  <2>1. CASE ~ConfirmedActive(r)
    <3>1. Retry(r) /\ rpc[r] = "confirm"
      BY <1>6, <2>1 DEF Confirm
    <3>2. tries[r] < overtaken[r]
      BY <1>t, <2>1, <3>1 DEF ReaderInv, ConfirmedActive
    <3> QED BY <3>1, <3>2, AbstractRetry
  <2>2. CASE ConfirmedActive(r)
    <3>1. rpc[r] = "confirm" /\ Return(r, Payload(got[r]))
      BY <1>6, <2>2 DEF Confirm
    <3>2. Payload(got[r]) = before[r]
      BY <1>t, <3>1, PayloadOfWords DEF ReaderInv
    <3>3. before[r] \in seen[r]
      BY <1>t, <2>2, <3>1 DEF ReaderInv, Safe, ConfirmedActive, SlotInv
    <3> QED BY <3>1, <3>2, <3>3, AbstractReturn DEF Abstract!Next
  <2> QED BY <2>1, <2>2
<1> QED BY <1>1, <1>2, <1>3, <1>4, <1>5, <1>6 DEF read

(* publish and read of LocalSnapshot implement a register: a read returns  *)
(* one complete publication that was current while it ran, or gives up     *)
(* after MaxAttempts publications overtook it, for any number of readers,  *)
(* words, attempts and publications.                                       *)
THEOREM Refinement == Spec => ImplementsRegister
<1>1. IInv /\ IInv' /\ [Next]_vars => [Abstract!Next]_(Abstract!vars)
  <2> SUFFICES ASSUME IInv, IInv', [Next]_vars
               PROVE  [Abstract!Next]_(Abstract!vars)
    OBVIOUS
  <2>1. CASE publish
    BY <2>1, AbstractWriter
  <2>2. ASSUME NEW r \in Readers, read(r) PROVE [Abstract!Next]_(Abstract!vars)
    BY <2>2, AbstractReader
  <2>3. CASE UNCHANGED vars
    <3>1. Stutters
      BY <2>3 DEF vars, readerVars, historyVars, Stutters, Current, Payload
    <3> QED BY <3>1, AbstractStutter
  <2> QED BY <2>1, <2>2, <2>3 DEF Next
<1> QED BY Invariance, AbstractInit, <1>1, PTL
        DEF Spec, ImplementsRegister, Abstract!Spec

(* A thread that calls read again never gets an older publication than the *)
(* one it already has.                                                     *)
THEOREM MonotoneReads == Spec => ReadsNeverGoBack
<1>1. IInv /\ [Next]_vars => [\A r \in Readers : result'[r] >= result[r]]_vars
  <2> SUFFICES ASSUME IInv, Next PROVE \A r \in Readers : result'[r] >= result[r]
    OBVIOUS
  <2>1. \A r \in Readers : result[r] \in Nat
    BY DEF IInv, HistoryInv
  <2>2. CASE result' = result
    BY <2>1, <2>2
  <2>3. ASSUME NEW r \in Readers, NEW v \in Nat, Return(r, v), result[r] <= v
        PROVE  \A q \in Readers : result'[q] >= result[q]
    BY <2>1, <2>3 DEF Return, IInv, TypeOK
  <2>4. ASSUME NEW r \in Readers, Retry(r)
        PROVE  \A q \in Readers : result'[q] >= result[q]
    BY <2>1, <2>2, <2>3, <2>4 DEF Retry
  <2>5. ASSUME NEW r \in Readers, LoadActive(r)
        PROVE  \A q \in Readers : result'[q] >= result[q]
    <3>1. CASE active \notin Slots
      <4>1. Current = 0 /\ result[r] <= Current
        BY <3>1 DEF Current, IInv, HistoryInv
      <4> QED BY <2>1, <2>3, <2>5, <3>1, <4>1 DEF LoadActive
    <3>2. CASE active \in Slots
      BY <2>2, <2>5, <3>2 DEF LoadActive
    <3> QED BY <3>1, <3>2
  <2>6. ASSUME NEW r \in Readers, Confirm(r)
        PROVE  \A q \in Readers : result'[q] >= result[q]
    <3>1. CASE ~ConfirmedActive(r)
      BY <2>4, <2>6, <3>1 DEF Confirm
    <3>2. CASE ConfirmedActive(r)
      <4>1. rpc[r] = "confirm" /\ Return(r, Payload(got[r]))
        BY <2>6, <3>2 DEF Confirm
      <4>2. Payload(got[r]) = before[r]
        BY <4>1, PayloadOfWords DEF IInv, ReaderInv
      <4>3. before[r] \in seen[r]
        BY <3>2, <4>1 DEF IInv, ReaderInv, Safe, ConfirmedActive, SlotInv
      <4>4. before[r] \in Nat /\ result[r] <= before[r]
        BY <4>3 DEF IInv, HistoryInv, TypeOK
      <4> QED BY <2>3, <4>1, <4>2, <4>4
    <3> QED BY <3>1, <3>2
  <2>7. CASE publish
    BY <2>2, <2>7 DEF publish, BeginPublish, StoreWord, StoreGuard, StoreActive,
                      readerVars
  <2>8. ASSUME NEW r \in Readers, read(r)
        PROVE  \A q \in Readers : result'[q] >= result[q]
    BY <2>2, <2>4, <2>5, <2>6, <2>8 DEF read, BeginRead, LoadGuard, LoadWord, LoadAfter
  <2> QED BY <2>7, <2>8 DEF Next
<1> QED BY Invariance, <1>1, PTL DEF Spec, ReadsNeverGoBack
=============================================================================
