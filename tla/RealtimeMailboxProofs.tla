------------------------ MODULE RealtimeMailboxProofs ------------------------
(***************************************************************************)
(* What realtime_mailbox.hpp promises.                                     *)
(*                                                                         *)
(* SensorEventQueue, for any capacity and any number of events:            *)
(*   Kept      the last Capacity events are in their slots, but for the    *)
(*             one that is being replaced;                                 *)
(*   Handed    what pop returned last is ahead of everything the host has  *)
(*             seen;                                                       *)
(*   Counted   dropped_ covers what was lost and, while a push is under    *)
(*             way, the event it is about to evict.                        *)
(*                                                                         *)
(* AtomicValue, under every slot of the ring, on hardware that keeps       *)
(* program order: a load returns the bytes of one store, for any size of   *)
(* value and any number of readers.                                        *)
(*   StoreState  an even version 2k says that every byte is of store k,    *)
(*               and under an odd one each byte is of k or k + 1 according *)
(*               to how far the store has come;                            *)
(*   LoadState   as long as the version a reader started from is still     *)
(*               there, or once it has found it again, all it has loaded   *)
(*               is of that version's store.                               *)
(***************************************************************************)
EXTENDS SensorEventQueue, FiniteSetTheorems, SequenceTheorems, TLAPS

Types ==
    /\ slots \in [Ring -> Nat]
    /\ published \in Nat /\ consumed \in Nat /\ dropped \in Nat /\ next \in Nat
    /\ cache \in Nat /\ feedback \in Nat
    /\ ppc \in {"idle", "count", "store", "publish"}
    /\ cpc \in {"idle", "load", "advance", "write"}
    /\ delivered \in Seq(Nat)

Kept ==
    /\ \A k \in Nat : k >= published - Capacity /\ k < published
          => \/ slots[k % Capacity] = k + 1
             \/ ppc \in {"store", "publish"} /\ k = published - Capacity
    /\ ppc = "publish" => slots[published % Capacity] = published + 1

\* The newest event the worker has finished with.
Written == IF cpc = "write" THEN consumed - 1 ELSE consumed

Handed ==
    /\ cpc \in {"load", "advance"} => consumed <= next /\ next <= Max(consumed, Oldest)
    /\ cpc \in {"advance", "write"} => Len(delivered) > 0
                                       /\ delivered[Len(delivered)] = next + 1
    /\ cpc = "write" => consumed = next + 1
    /\ feedback <= Written /\ cache <= Written
    /\ cache # NoTicket => cache > feedback

Pending == IF ppc # "idle" /\ published - consumed >= Capacity THEN 1 ELSE 0

Counted == IsFiniteSet(Lost) /\ Cardinality(Lost) + Pending <= dropped

IInv == Types /\ Kept /\ Handed /\ Counted

USE CapacityAssumption DEF Ring, NoTicket

-----------------------------------------------------------------------------
(* Slots *)

LEMMA SlotInRing ==
    ASSUME NEW k \in Nat
    PROVE  k % Capacity \in Ring
  OBVIOUS

\* Two multiples of the capacity are not less than the capacity apart.
LEMMA Multiples ==
    ASSUME NEW a \in Int, NEW b \in Int, Capacity * b - Capacity * a < Capacity
    PROVE  Capacity * b - Capacity * a <= 0
  <1> SUFFICES ASSUME b - a >= 1
               PROVE  Capacity * b - Capacity * a >= Capacity
    <2>1. CASE b - a < 1
      <3> DEFINE d == a - b
      <3>1. d \in Nat /\ Capacity * d \in Nat
        BY <2>1
      <3>2. Capacity * b - Capacity * a = -(Capacity * d)
        OBVIOUS
      <3> QED BY <3>1, <3>2
    <2> QED BY <2>1
  <1> DEFINE d == b - a - 1
  <1>1. d \in Nat /\ Capacity * d \in Nat
    OBVIOUS
  <1>2. Capacity * b - Capacity * a = Capacity * d + Capacity
    OBVIOUS
  <1> QED BY <1>1, <1>2

\* Events less than Capacity apart have different slots.
LEMMA SlotsApart ==
    ASSUME NEW k \in Nat, NEW p \in Nat, k < p, p - k < Capacity
    PROVE  k % Capacity # p % Capacity
  <1> SUFFICES ASSUME k % Capacity = p % Capacity
               PROVE  FALSE
    OBVIOUS
  <1> DEFINE a == k \div Capacity
             b == p \div Capacity
  <1>1. a \in Int /\ b \in Int
    OBVIOUS
  <1>2. k = Capacity * a + (k % Capacity) /\ p = Capacity * b + (p % Capacity)
    OBVIOUS
  <1>3. /\ Capacity * a \in Int /\ Capacity * b \in Int
        /\ k % Capacity \in Int /\ p % Capacity \in Int
    BY <1>1
  <1> HIDE DEF a, b
  <1>4. Capacity * b - Capacity * a = p - k
    BY <1>2, <1>3
  <1> QED BY <1>1, <1>4, Multiples

\* Events Capacity apart share one.
LEMMA OneReplaced ==
    ASSUME NEW k \in Nat, NEW p \in Nat, k < p, k >= p - Capacity,
           k % Capacity = p % Capacity
    PROVE  k = p - Capacity
  <1>1. ~(p - k < Capacity)
    BY SlotsApart, Zenon
  <1> QED BY <1>1

-----------------------------------------------------------------------------
(* Kept *)

LEMMA KeptStep ==
    ASSUME Types, Kept, [Next]_vars
    PROVE  Kept'
  <1>0. published \in Nat /\ slots \in [Ring -> Nat] /\ published % Capacity \in Ring
    BY SlotInRing, Zenon DEF Types
  <1>1. CASE BeginStore
    <2>1. /\ UNCHANGED published /\ ppc = "count" /\ ppc' = "store"
          /\ slots' = [slots EXCEPT ![published % Capacity] = NoTicket]
      BY <1>1 DEF BeginStore
    <2> SUFFICES ASSUME NEW k \in Nat, k >= published - Capacity, k < published,
                        k # published - Capacity
                 PROVE  slots'[k % Capacity] = k + 1
      BY <2>1, Zenon DEF Kept
    <2>2. k % Capacity # published % Capacity /\ k % Capacity \in Ring
      BY <1>0, OneReplaced, SlotInRing, Zenon
    <2>3. slots[k % Capacity] = k + 1
      BY <2>1, Zenon DEF Kept
    <2> QED BY <1>0, <2>1, <2>2, <2>3, Zenon
  <1>2. CASE EndStore
    <2>1. /\ UNCHANGED published /\ ppc = "store" /\ ppc' = "publish"
          /\ slots' = [slots EXCEPT ![published % Capacity] = published + 1]
      BY <1>2, Zenon DEF EndStore
    <2>2. slots'[published % Capacity] = published + 1
      BY <1>0, <2>1, Zenon
    <2> SUFFICES ASSUME NEW k \in Nat, k >= published - Capacity, k < published,
                        k # published - Capacity
                 PROVE  slots'[k % Capacity] = k + 1
      BY <2>1, <2>2, Zenon DEF Kept
    <2>3. k % Capacity # published % Capacity /\ k % Capacity \in Ring
      BY <1>0, OneReplaced, SlotInRing, Zenon
    <2>4. slots[k % Capacity] = k + 1
      BY <2>1, Zenon DEF Kept
    <2> QED BY <1>0, <2>1, <2>3, <2>4, Zenon
  <1>3. CASE Publish
    <2>1. /\ UNCHANGED slots /\ ppc = "publish" /\ ppc' = "idle" /\ published' = published + 1
      BY <1>3 DEF Publish
    <2>2. slots[published % Capacity] = published + 1
      BY <2>1, Zenon DEF Kept
    <2> SUFFICES ASSUME NEW k \in Nat, k >= published + 1 - Capacity, k < published + 1
                 PROVE  slots[k % Capacity] = k + 1
      BY <1>0, <2>1 DEF Kept
    <2>3. k = published \/ (k < published /\ k >= published - Capacity
                            /\ k # published - Capacity)
      BY <1>0
    <2> QED BY <2>2, <2>3, Zenon DEF Kept
  <1>4. CASE CountDrop
    <2>1. UNCHANGED <<slots, published>> /\ ppc = "idle" /\ ppc' = "count"
      BY <1>4 DEF CountDrop, Enqueues
    <2> QED BY <2>1 DEF Kept
  <1>5. CASE pop \/ WriteSample \/ read_feedback \/ UNCHANGED vars
    <2>1. UNCHANGED <<slots, published, ppc>>
      BY <1>5, Zenon DEF pop, BeginPop, LoadEvent, Advance, WriteSample, read_feedback, vars
    <2> QED BY <2>1, Zenon DEF Kept
  <1> QED BY <1>1, <1>2, <1>3, <1>4, <1>5 DEF Next, push_realtime, Worker

-----------------------------------------------------------------------------
(* Handed *)

LEMMA OldestMoves ==
    ASSUME Types, published' \in {published, published + 1}
    PROVE  Oldest \in Nat /\ Oldest' \in Nat /\ Oldest <= Oldest'
  BY DEF Types, Oldest, Max

LEMMA LastDelivered ==
    ASSUME Types, Handed, cpc \in {"advance", "write"}
    PROVE  delivered[Len(delivered)] = next + 1
  BY DEF Handed

LEMMA AppendedLast ==
    ASSUME NEW s \in Seq(Nat), NEW e \in Nat
    PROVE  /\ Append(s, e) \in Seq(Nat)
           /\ Len(Append(s, e)) > 0
           /\ Append(s, e)[Len(Append(s, e))] = e
           /\ \A i \in 1..Len(s) : i \in 1..Len(Append(s, e)) /\ Append(s, e)[i] = s[i]
  OBVIOUS

LEMMA TypesStep ==
    ASSUME Types, Handed, [Next]_vars
    PROVE  Types'
  <1> USE DEF Types
  <1>0. published % Capacity \in Ring /\ next % Capacity \in Ring
    BY SlotInRing, Zenon
  <1>1. CASE push_realtime
    <2>1. /\ UNCHANGED <<consumed, cpc, next, cache, feedback, delivered>>
          /\ published' \in {published, published + 1} /\ dropped' \in {dropped, dropped + 1}
          /\ ppc' \in {"idle", "count", "store", "publish"}
      BY <1>1, Zenon DEF push_realtime, CountDrop, BeginStore, EndStore, Publish
    <2>2. slots' \in [Ring -> Nat]
      <3>1. PICK i \in Ring, v \in Nat : slots' = slots \/ slots' = [slots EXCEPT ![i] = v]
        BY <1>0, <1>1, SMTT(30) DEF push_realtime, CountDrop, BeginStore, EndStore, Publish
      <3> QED BY <3>1, Zenon
    <2> QED BY <2>1, <2>2
  <1>2. CASE BeginPop
    BY <1>2 DEF BeginPop, NextConsumed, Oldest, Max
  <1>3. CASE LoadEvent
    <2>1. delivered' = delivered \/ delivered' = Append(delivered, slots[next % Capacity])
      BY <1>3, Zenon DEF LoadEvent
    <2>2. delivered' \in Seq(Nat)
      <3> DEFINE e == slots[next % Capacity]
      <3>1. e \in Nat
        BY <1>0, Zenon
      <3> HIDE DEF e
      <3>2. Append(delivered, e) \in Seq(Nat)
        BY <3>1, AppendedLast, Zenon
      <3> QED BY <2>1, <3>2, Zenon DEF e
    <2> QED BY <1>3, <2>2, Zenon DEF LoadEvent
  <1>4. CASE Advance
    BY <1>4 DEF Advance
  <1>5. CASE WriteSample
    BY <1>5, LastDelivered DEF WriteSample
  <1>6. CASE read_feedback \/ UNCHANGED vars
    BY <1>6, SMTT(30) DEF read_feedback, vars
  <1> QED BY <1>1, <1>2, <1>3, <1>4, <1>5, <1>6, Zenon DEF Next, pop, Worker

LEMMA HandedStep ==
    ASSUME Types, Handed, [Next]_vars
    PROVE  Handed'
  <1> USE DEF Types, Handed, Written, Oldest, Max
  <1>1. CASE push_realtime
    <2>1. /\ UNCHANGED <<consumed, cpc, next, cache, feedback, delivered>>
          /\ published' \in {published, published + 1}
      BY <1>1, Zenon DEF push_realtime, CountDrop, BeginStore, EndStore, Publish
    <2> HIDE DEF Oldest
    <2>2. next <= Max(consumed, Oldest) => next' <= Max(consumed, Oldest)'
      BY <2>1, OldestMoves
    <2> HIDE DEF Max
    <2> QED BY <2>1, <2>2, Zenon
  <1>2. CASE BeginPop
    BY <1>2 DEF BeginPop, NextConsumed
  <1>3. CASE LoadEvent
    <2>1. CASE TicketMatches /\ cpc' = "advance"
      <3>1. delivered' = Append(delivered, next + 1)
        BY <1>3, <2>1, Zenon DEF LoadEvent, TicketMatches
      <3>2. Len(delivered') > 0 /\ delivered'[Len(delivered')] = next + 1
        BY <3>1, AppendedLast
      <3> QED BY <1>3, <2>1, <3>2, Zenon DEF LoadEvent
    <2>2. CASE ~TicketMatches /\ cpc' = "idle"
      BY <1>3, <2>2, Zenon DEF LoadEvent
    <2> QED BY <1>3, <2>1, <2>2, Zenon DEF LoadEvent
  <1>4. CASE Advance
    BY <1>4 DEF Advance
  <1>5. CASE WriteSample
    BY <1>5, LastDelivered DEF WriteSample
  <1>6. CASE read_feedback \/ UNCHANGED vars
    BY <1>6, SMTT(30) DEF read_feedback, vars
  <1> QED BY <1>1, <1>2, <1>3, <1>4, <1>5, <1>6, Zenon DEF Next, pop, Worker

-----------------------------------------------------------------------------
(* Counted *)

LEMMA LostTypes ==
    ASSUME Types
    PROVE  /\ Max(Taken, Oldest) \in Nat /\ Lost \subseteq 1..Max(Taken, Oldest)
           /\ IsFiniteSet(Lost) /\ Cardinality(Lost) \in Nat
  <1>1. Max(Taken, Oldest) \in Nat
    BY DEF Types, Taken, Oldest, Max
  <1>2. Lost \subseteq 1..Max(Taken, Oldest)
    BY DEF Lost
  <1>3. IsFiniteSet(1..Max(Taken, Oldest))
    BY <1>1, FS_Interval
  <1> QED BY <1>1, <1>2, <1>3, FS_Subset, FS_CardinalityType, Zenon

LEMMA LostShrinks ==
    ASSUME Types, Types', Lost' \subseteq Lost
    PROVE  Cardinality(Lost') <= Cardinality(Lost)
  BY LostTypes, FS_Subset

LEMMA CountedStep ==
    ASSUME Types, Types', Handed, Counted, [Next]_vars
    PROVE  Counted'
  <1>0. /\ Cardinality(Lost) \in Nat /\ IsFiniteSet(Lost)
        /\ Cardinality(Lost') \in Nat /\ IsFiniteSet(Lost')
    <2>1. (Types => IsFiniteSet(Lost) /\ Cardinality(Lost) \in Nat)'
      BY LostTypes, PTL
    <2> QED BY <2>1, LostTypes
  <1>1. CASE CountDrop
    <2>1. UNCHANGED Lost
      BY <1>1 DEF CountDrop, Lost, Taken, Oldest
    <2> QED BY <1>0, <1>1, <2>1 DEF CountDrop, Full, Counted, Pending, Types
  <1>2. CASE BeginStore \/ EndStore
    <2>1. UNCHANGED <<Lost, Pending, dropped>>
      BY <1>2, Zenon DEF BeginStore, EndStore, Lost, Taken, Oldest, Pending
    <2> QED BY <1>0, <2>1 DEF Counted
  <1>3. CASE Publish
    <2>1. /\ ppc = "publish" /\ ppc' = "idle" /\ published' = published + 1
          /\ UNCHANGED <<consumed, cpc, next, dropped, delivered, Taken>>
      BY <1>3 DEF Publish, Taken
    <2>2. Pending' = 0
      BY <2>1 DEF Pending
    <2>3. CASE Max(Taken, Oldest)' = Max(Taken, Oldest)
      <3>1. Lost' = Lost
        BY <2>1, <2>3 DEF Lost
      <3> QED BY <1>0, <2>1, <2>2, <3>1 DEF Counted, Pending, Types
    <2>4. CASE Max(Taken, Oldest)' # Max(Taken, Oldest)
      <3>1. /\ Max(Taken, Oldest)' = Max(Taken, Oldest) + 1
            /\ published + 1 - Capacity > Taken
        BY <2>1, <2>4 DEF Max, Oldest, Types, Taken
      <3>2. Taken >= consumed
        BY DEF Taken, Handed, Types
      <3>3. Pending = 1
        BY <2>1, <3>1, <3>2 DEF Pending, Types, Taken
      <3>4. Lost' \subseteq Lost \cup {Max(Taken, Oldest) + 1}
        BY <2>1, <3>1, LostTypes DEF Lost
      <3>5. Cardinality(Lost') <= Cardinality(Lost) + 1
        <4> DEFINE S == Lost \cup {Max(Taken, Oldest) + 1}
        <4>0. IsFiniteSet(S) /\ Cardinality(S) <= Cardinality(Lost) + 1
          BY <1>0, FS_AddElement
        <4> HIDE DEF S
        <4>1. IsFiniteSet(S) /\ Cardinality(S) \in Nat /\ Cardinality(S) <= Cardinality(Lost) + 1
          BY <4>0, FS_CardinalityType
        <4>2. Lost' \subseteq S
          BY <3>4 DEF S
        <4>3. Cardinality(Lost') <= Cardinality(S)
          BY <4>1, <4>2, FS_Subset
        <4> QED BY <1>0, <4>1, <4>3
      <3> QED BY <1>0, <2>1, <2>2, <3>3, <3>5 DEF Counted, Types
    <2> QED BY <2>3, <2>4
  <1>4. CASE BeginPop \/ WriteSample \/ read_feedback \/ UNCHANGED vars
    <2>1. UNCHANGED <<Taken, Oldest, delivered, Pending, dropped>>
      BY <1>4, Zenon DEF BeginPop, WriteSample, read_feedback, vars, Taken, Oldest, Pending
    <2>2. UNCHANGED Lost
      BY <2>1 DEF Lost
    <2> QED BY <1>0, <2>1, <2>2 DEF Counted
  <1>5. CASE LoadEvent
    <2>1. UNCHANGED <<published, consumed, dropped, next, ppc, Oldest, Pending>>
      BY <1>5, Zenon DEF LoadEvent, Oldest, Pending
    <2>2. CASE UNCHANGED delivered /\ cpc' = "idle"
      <3>1. UNCHANGED Lost
        BY <1>5, <2>1, <2>2 DEF Lost, Taken, LoadEvent
      <3> QED BY <1>0, <2>1, <3>1 DEF Counted
    <2>3. CASE TicketMatches /\ cpc' = "advance"
      <3>1. delivered' = Append(delivered, next + 1) /\ cpc = "load"
        BY <1>5, <2>3, Zenon DEF LoadEvent, TicketMatches
      <3>2. /\ Len(delivered') > 0 /\ Len(delivered') \in Nat
            /\ delivered'[Len(delivered')] = next + 1
            /\ \A i \in 1..Len(delivered) :
                  i \in 1..Len(delivered') /\ delivered'[i] = delivered[i]
        BY <3>1, AppendedLast, SMTT(30) DEF Types
      <3>3. Taken = consumed /\ Taken' = next + 1
        BY <2>1, <2>3, <3>1, Zenon DEF Taken
      <3>4. Lost' \subseteq Lost
        <4> SUFFICES ASSUME NEW e \in Lost'
                     PROVE  e \in Lost
          OBVIOUS
        <4>1. e \in 1..Max(Taken', Oldest') /\ \A i \in 1..Len(delivered') : delivered'[i] # e
          BY DEF Lost
        <4>2. e # next + 1
          BY <3>2, <4>1
        <4>3. e \in 1..Max(Taken, Oldest)
          BY <2>1, <3>1, <3>3, <4>1, <4>2 DEF Max, Handed, Types, Oldest
        <4>4. \A i \in 1..Len(delivered) : delivered[i] # e
          BY <3>2, <4>1, Zenon
        <4> QED BY <4>3, <4>4 DEF Lost
      <3> QED BY <1>0, <2>1, <3>4, LostShrinks DEF Counted, Pending, Types
    <2> QED BY <1>5, <2>2, <2>3, Zenon DEF LoadEvent
  <1>6. CASE Advance
    <2>1. UNCHANGED <<Taken, Oldest, delivered, dropped, ppc, published>>
      BY <1>6 DEF Advance, Taken, Oldest
    <2>2. UNCHANGED Lost
      BY <2>1 DEF Lost
    <2>3. consumed' = next + 1 /\ consumed <= next
      BY <1>6, Zenon DEF Advance, Handed
    <2>4. Pending \in {0, 1} /\ Pending' \in {0, 1} /\ Pending' <= Pending
      <3>1. published \in Nat /\ consumed \in Nat /\ next \in Nat
        BY Zenon DEF Types
      <3>2. published - (next + 1) >= Capacity => published - consumed >= Capacity
        BY <2>3, <3>1
      <3>3. Pending' = IF ppc # "idle" /\ published - (next + 1) >= Capacity THEN 1 ELSE 0
        BY <2>1, <2>3 DEF Pending
      <3> QED BY <3>2, <3>3 DEF Pending
    <2>5. Cardinality(Lost') = Cardinality(Lost) /\ dropped \in Nat /\ dropped' = dropped
      BY <2>1, <2>2, Zenon DEF Types
    <2> QED BY <1>0, <2>4, <2>5 DEF Counted
  <1> QED BY <1>1, <1>2, <1>3, <1>4, <1>5, <1>6 DEF Next, push_realtime, pop, Worker

-----------------------------------------------------------------------------
LEMMA QueueInvariant == Spec => []IInv
  <1>1. Init => IInv
    <2> SUFFICES ASSUME Init
                 PROVE  IInv
      OBVIOUS
    <2>1. Types /\ Kept /\ Handed
      BY DEF Init, Types, Kept, Handed, Written
    <2>2. Lost = {}
      BY DEF Init, Lost, Taken, Oldest, Max
    <2>3. Counted
      BY <2>2, FS_EmptySet DEF Counted, Pending, Init
    <2> QED BY <2>1, <2>3 DEF IInv
  <1>2. IInv /\ [Next]_vars => IInv'
    BY TypesStep, KeptStep, HandedStep, CountedStep DEF IInv
  <1> QED BY <1>1, <1>2, PTL DEF Spec

\* push_realtime evicts the oldest pending event and no other: each of the last
\* Capacity events that pop has not passed is in its slot.
THEOREM NewestAreRetained == Spec => []RetainsNewest
  <1>1. IInv => RetainsNewest
    <2> SUFFICES ASSUME IInv, NEW k \in Max(Taken, Oldest)..(published - 1)
                 PROVE  \/ slots[k % Capacity] = k + 1
                        \/ ppc \in {"store", "publish"} /\ k = published - Capacity
      BY DEF RetainsNewest
    <2>1. k \in Nat /\ k >= published - Capacity /\ k < published
      BY DEF IInv, Types, Max, Taken, Oldest
    <2> QED BY <2>1, Zenon DEF IInv, Kept
  <1> QED BY <1>1, QueueInvariant, PTL

\* dropped_ is never less than the number of events lost: the push that evicts
\* one has counted it, whatever pop does meanwhile.
THEOREM LossIsCounted == Spec => []NoSilentLoss
  <1>1. IInv => NoSilentLoss
    BY LostTypes DEF IInv, Counted, Pending, NoSilentLoss, Types
  <1> QED BY <1>1, QueueInvariant, PTL

\* The host's feedback only moves forward.
THEOREM FeedbackMovesForward == Spec => FeedbackAdvances
  <1>1. IInv /\ [Next]_vars => [feedback' # feedback => feedback' > feedback]_vars
    <2> SUFFICES ASSUME IInv, [Next]_vars, feedback' # feedback
                 PROVE  feedback' > feedback
      OBVIOUS
    <2>1. read_feedback
      BY Zenon DEF Next, push_realtime, CountDrop, BeginStore, EndStore, Publish, Worker, pop, BeginPop,
         LoadEvent, Advance, WriteSample, vars
    <2> QED BY <2>1, Zenon DEF read_feedback, IInv, Handed
  <1> QED BY <1>1, QueueInvariant, PTL DEF Spec, FeedbackAdvances

-----------------------------------------------------------------------------
(* Bounds *)

Bounded ==
    /\ \A i \in Ring : slots[i] <= published + 1
    /\ published <= MaxEvents /\ (ppc # "idle" => published < MaxEvents)
    /\ dropped <= published + (IF ppc = "idle" THEN 0 ELSE 1)
    /\ consumed <= published /\ next <= published
    /\ cpc \in {"load", "advance"} => next < published
    /\ \A i \in 1..Len(delivered) : delivered[i] \in 1..published

LEMMA DeliveredBound ==
    ASSUME NEW s \in Seq(Nat), NEW S, \A i \in 1..Len(s) : s[i] \in S
    PROVE  s \in Seq(S)
  <1>1. Len(s) \in Nat
    BY LenProperties
  <1>2. SubSeq(s, 1, Len(s)) \in Seq(S)
    BY <1>1, SubSeqProperties
  <1> QED BY <1>2, SubSeqFull

LEMMA BoundedStep ==
    ASSUME Types, Bounded, [Next]_vars
    PROVE  Bounded'
  <1>0. /\ published \in Nat /\ consumed \in Nat /\ next \in Nat /\ dropped \in Nat
        /\ slots \in [Ring -> Nat] /\ delivered \in Seq(Nat) /\ Len(delivered) \in Nat
        /\ published % Capacity \in Ring /\ next % Capacity \in Ring
    BY SlotInRing, LenProperties, Zenon DEF Types
  <1>1. CASE CountDrop
    BY <1>0, <1>1, EventAssumption DEF CountDrop, Enqueues, Bounded
  <1>2. CASE BeginStore \/ EndStore
    <2>1. PICK v \in 0..(published + 1) : slots' = [slots EXCEPT ![published % Capacity] = v]
      BY <1>0, <1>2 DEF BeginStore, EndStore
    <2>2. \A i \in Ring : slots'[i] <= published + 1
      <3> SUFFICES ASSUME NEW i \in Ring PROVE slots'[i] <= published + 1
        OBVIOUS
      <3>1. slots'[i] = slots[i] \/ slots'[i] = v
        BY <1>0, <2>1, Zenon
      <3> QED BY <1>0, <2>1, <3>1 DEF Bounded
    <2>3. UNCHANGED <<published, consumed, dropped, cpc, next, delivered>>
          /\ ppc # "idle" /\ ppc' # "idle"
      BY <1>2, Zenon DEF BeginStore, EndStore
    <2> QED BY <2>2, <2>3, Zenon DEF Bounded
  <1>3. CASE Publish
    <2>1. /\ published' = published + 1 /\ ppc # "idle" /\ ppc' = "idle"
          /\ UNCHANGED <<slots, consumed, dropped, cpc, next, delivered>>
      BY <1>3 DEF Publish
    <2>2. \A i \in 1..Len(delivered) : delivered[i] \in 1..(published + 1)
      BY <1>0, SMTT(30) DEF Bounded
    <2>3. \A i \in Ring : slots[i] \in Nat /\ slots[i] <= published + 1
      BY <1>0, Zenon DEF Bounded
    <2>4. published < MaxEvents /\ dropped <= published + 1 /\ consumed <= published
          /\ next <= published
      BY <2>1, Zenon DEF Bounded
    <2> QED BY <1>0, <2>1, <2>2, <2>3, <2>4, EventAssumption DEF Bounded
  <1>4. CASE BeginPop
    <2>1. next' < published
      BY <1>0, <1>4 DEF BeginPop, NextConsumed, Oldest, Max
    <2>2. next' \in Nat
      BY <1>0, <1>4 DEF BeginPop, NextConsumed, Oldest, Max
    <2> QED BY <1>0, <1>4, <2>1, <2>2 DEF BeginPop, Bounded
  <1>5. CASE LoadEvent
    <2>1. CASE UNCHANGED delivered
      BY <1>5, <2>1, Zenon DEF LoadEvent, Bounded
    <2>2. CASE TicketMatches /\ delivered' = Append(delivered, slots[next % Capacity])
      <3>1. delivered' = Append(delivered, next + 1) /\ next < published
        BY <1>5, <2>2, Zenon DEF LoadEvent, TicketMatches, Bounded
      <3>2. Len(delivered') = Len(delivered) + 1 /\ delivered'[Len(delivered) + 1] = next + 1
            /\ \A i \in 1..Len(delivered) : delivered'[i] = delivered[i]
        BY <1>0, <3>1
      <3>3. next + 1 \in 1..published
        BY <1>0, <3>1
      <3>4. \A i \in 1..Len(delivered') : delivered'[i] \in 1..published
        <4> SUFFICES ASSUME NEW i \in 1..(Len(delivered) + 1)
                     PROVE  delivered'[i] \in 1..published
          BY <3>2
        <4>1. CASE i = Len(delivered) + 1
          BY <3>2, <3>3, <4>1
        <4>2. CASE i \in 1..Len(delivered)
          BY <3>2, <4>2, Zenon DEF Bounded
        <4>3. Len(delivered) \in Nat
          BY <1>0, Zenon
        <4>4. i = Len(delivered) + 1 \/ i \in 1..Len(delivered)
          BY <4>3
        <4> QED BY <4>1, <4>2, <4>4, Zenon
      <3> QED BY <1>5, <3>4, Zenon DEF LoadEvent, Bounded
    <2> QED BY <1>5, <2>1, <2>2, Zenon DEF LoadEvent
  <1>6. CASE Advance
    BY <1>0, <1>6 DEF Advance, Bounded
  <1>7. CASE WriteSample \/ read_feedback \/ UNCHANGED vars
    BY <1>7, Zenon DEF WriteSample, read_feedback, vars, Bounded
  <1> QED BY <1>1, <1>2, <1>3, <1>4, <1>5, <1>6, <1>7 DEF Next, push_realtime, pop, Worker

\* Type correctness: the consumer never overtakes the producer, what pop returns
\* has been published, and no more events are counted as dropped than pushed.
THEOREM QueueTypes == Spec => []TypeOK
  <1>1. Init => Bounded
    BY EventAssumption DEF Init, Bounded
  <1>2. IInv /\ Bounded /\ [Next]_vars => Bounded'
    BY BoundedStep DEF IInv
  <1>3. IInv /\ Bounded => TypeOK
    <2> SUFFICES ASSUME IInv, Bounded PROVE TypeOK
      OBVIOUS
    <2>1. Types /\ Handed
      BY DEF IInv
    <2>2. slots \in [Ring -> 0..(published + 1)]
      BY <2>1 DEF Types, Bounded
    <2>3. delivered \in Seq(1..published)
      BY <2>1, DeliveredBound, Zenon DEF Types, Bounded
    <2>4. /\ published \in 0..MaxEvents /\ consumed \in 0..published /\ next \in 0..published
          /\ dropped \in 0..MaxEvents
      BY <2>1, EventAssumption DEF Types, Bounded
    <2>5. cache \in 0..published /\ feedback \in 0..published
      BY <2>1 DEF Types, Handed, Written, Bounded
    <2> QED BY <2>1, <2>2, <2>3, <2>4, <2>5, Zenon DEF TypeOK, Types
  <1> QED BY <1>1, <1>2, <1>3, QueueInvariant, PTL DEF Spec

------------------------------------------------------------------------------
(* AtomicValue *)

CONSTANTS Readers, ByteCount, MaxAttempts, MaxStores, ProgramOrder
VARIABLES version, bytes, stores, writing, rpc, tries, before, loading, got, after, result

Value == INSTANCE AtomicValue

ValueTypes ==
    /\ version \in Nat /\ stores \in Nat
    /\ bytes \in [Value!Bytes -> Nat]
    /\ writing \subseteq 0..Value!Even
    /\ rpc \in [Readers -> {"idle", "before", "load"}]
    /\ before \in [Readers -> Nat] /\ after \in [Readers -> Nat]
    /\ loading \in [Readers -> SUBSET (1..Value!After)]
    /\ got \in [Readers -> [Value!Bytes -> Nat]]
    /\ tries \in [Readers -> Nat]
    /\ result \in [Readers -> Int]

StoreState ==
    /\ \A a \in writing : \A b \in a..Value!Even : b \in writing
    /\ writing = {} \/ 0 \in writing => version = 2 * stores
    /\ writing # {} /\ 0 \notin writing => version = 2 * stores + 1
    /\ \A b \in Value!Bytes :
          bytes[b] = IF writing # {} /\ b \notin writing THEN stores + 1
                     ELSE stores

LoadState(r) ==
    rpc[r] = "load" =>
        /\ before[r] <= version /\ before[r] <= 2 * stores
        /\ \A a \in loading[r] : \A b \in a..Value!After : b \in loading[r]
        /\ \/ version = before[r]
           \/ Value!After \notin loading[r] /\ after[r] = before[r]
           => \A b \in Value!Bytes \ loading[r] : 2 * got[r][b] = before[r]

ValueInv ==
    /\ ValueTypes /\ StoreState /\ Value!LoadsAreComplete
    /\ \A r \in Readers : LoadState(r)

LEMMA OddVersion == \A n \in Nat : (2 * n + 1) % 2 = 1
  OBVIOUS

LEMMA ValueInit ==
    ASSUME ByteCount \in Nat \ {0}, Value!Init PROVE ValueInv
  BY DEF Value!Init, ValueInv, ValueTypes, StoreState, Value!LoadsAreComplete, LoadState,
     Value!Bytes, Value!Even, Value!After, Value!Torn

LEMMA ValueStore ==
    ASSUME ByteCount \in Nat \ {0}, ProgramOrder = TRUE, ValueInv, Value!store
    PROVE  ValueInv'
<1> USE DEF ValueInv, ValueTypes, Value!Bytes, Value!Even, Value!After, Value!Torn
<1>1. CASE Value!BeginStore
  BY <1>1 DEF Value!BeginStore, StoreState, Value!LoadsAreComplete, LoadState
<1>2. ASSUME NEW a \in 0..Value!Even, Value!StoreVersion(a) PROVE ValueInv'
  <2>1. ValueTypes'
    BY <1>2 DEF Value!StoreVersion
  <2>2. Value!LoadsAreComplete'
    BY <1>2, Zenon DEF Value!StoreVersion, Value!LoadsAreComplete
  <2>3. a = 0 => writing = 0..Value!Even /\ writing' = 1..Value!Even
    <3>1. SUFFICES ASSUME a = 0 PROVE writing = 0..Value!Even /\ writing' = 1..Value!Even
      BY Zenon
    <3>2. 0 \in writing /\ writing' = writing \ {0}
      BY <1>2, <3>1, Zenon DEF Value!StoreVersion
    <3>3. \A b \in 0..Value!Even : b \in writing
      BY <3>2, Zenon DEF StoreState
    <3>4. writing \subseteq 0..Value!Even
      BY Zenon
    <3>5. writing = 0..Value!Even
      <4> HIDE DEF ValueInv, ValueTypes, Value!Even
      <4> QED BY <3>3, <3>4, Zenon
    <3>6. (0..Value!Even) \ {0} = 1..Value!Even
      OBVIOUS
    <3> QED BY <3>2, <3>5, <3>6, Zenon
  <2>4. a = Value!Even => writing = {Value!Even} /\ writing' = {}
    <3>1. SUFFICES ASSUME a = Value!Even PROVE writing = {Value!Even} /\ writing' = {}
      BY Zenon
    <3>2. /\ Value!Even \in writing /\ writing' = writing \ {Value!Even}
          /\ \A o \in writing : Value!Even <= o
      BY <1>2, <3>1, Zenon DEF Value!StoreVersion, Value!MayStore
    <3>3. \A o \in writing : o = Value!Even
      BY <3>2
    <3> HIDE DEF ValueInv, ValueTypes, Value!Even
    <3> QED BY <3>2, <3>3
  <2>5. StoreState' /\ version < version' /\ stores <= stores'
    <3>1. CASE a = 0
      <4>1. /\ version = 2 * stores /\ \A b \in Value!Bytes : bytes[b] = stores
            /\ version' = 2 * stores + 1 /\ stores' = stores /\ bytes' = bytes
        BY <1>2, <2>3, <3>1 DEF Value!StoreVersion, StoreState
      <4>2. \A x \in 1..Value!Even : \A b \in x..Value!Even : b \in 1..Value!Even
        OBVIOUS
      <4>3. /\ 1 \in 1..Value!Even /\ 0 \notin 1..Value!Even
            /\ \A b \in Value!Bytes : b \in 1..Value!Even
        OBVIOUS
      <4>4. writing' = 1..Value!Even
        BY <2>3, <3>1, Zenon
      <4>5. version < version' /\ stores <= stores'
        BY <4>1
      <4> HIDE DEF ValueInv, ValueTypes, Value!Even, Value!Bytes
      <4>6. StoreState'
        <5>1. \A x \in writing' : \A b \in x..Value!Even' : b \in writing'
          BY <4>2, <4>4 DEF Value!Even
        <5>2. writing' # {} /\ 0 \notin writing'
          BY <4>3, <4>4
        <5>3. \A b \in Value!Bytes' : bytes'[b] = stores' /\ b \in writing'
          BY <4>1, <4>3, <4>4 DEF Value!Bytes
        <5> QED BY <4>1, <5>1, <5>2, <5>3, Zenon DEF StoreState
      <4> QED BY <4>5, <4>6
    <3>2. CASE a = Value!Even
      <4>1. /\ version = 2 * stores + 1
            /\ \A b \in Value!Bytes : bytes[b] = stores + 1
            /\ version' = 2 * stores + 2 /\ stores' = stores + 1
            /\ bytes' = bytes
        BY <1>2, <2>4, <3>2 DEF Value!StoreVersion, StoreState
      <4> QED BY <2>4, <3>2, <4>1 DEF StoreState
    <3> QED BY <1>2, <3>1, <3>2, Zenon DEF Value!StoreVersion
  <2>7. ASSUME NEW r \in Readers PROVE LoadState(r)'
    <3>1. UNCHANGED <<rpc, before, loading, got, after>>
      BY <1>2, Zenon DEF Value!StoreVersion
    <3>2. version \in Nat /\ version' \in Nat /\ stores \in Nat
            /\ stores' \in Nat /\ before[r] \in Nat
      BY <2>1, <2>7, Zenon
    <3>3. LoadState(r)
      BY <2>7, Zenon
    <3> HIDE DEF ValueInv, ValueTypes, Value!Even, Value!Bytes, Value!After
    <3> QED BY <2>5, <3>1, <3>2, <3>3 DEF LoadState
  <2> QED BY <2>1, <2>2, <2>5, <2>7, Zenon
<1>3. ASSUME NEW a \in 0..Value!Even, Value!StoreByte(a) PROVE ValueInv'
  <2>1. Value!LoadsAreComplete' /\ \A r \in Readers : LoadState(r)'
    BY <1>3, Zenon DEF Value!StoreByte, Value!LoadsAreComplete, LoadState
  <2>5. bytes' \in [Value!Bytes -> Nat] /\ writing' \subseteq 0..Value!Even
    BY <1>3 DEF Value!StoreByte
  <2>6. ValueTypes'
    BY <1>3, <2>5, Zenon DEF Value!StoreByte
  <2>2. a \in 1..ByteCount /\ a \in writing /\ \A o \in writing : a <= o
    BY <1>3, Zenon DEF Value!StoreByte, Value!MayStore
  <2>3. 0 \notin writing /\ writing' = writing \ {a} /\ Value!Even \in writing'
    BY <1>3, <2>2 DEF Value!StoreByte, StoreState
  <2>4. StoreState'
    BY <1>3, <2>2, <2>3 DEF Value!StoreByte, StoreState
  <2> QED BY <2>1, <2>4, <2>6, Zenon
<1> QED BY <1>1, <1>2, <1>3, Zenon DEF Value!store

\* What a step of reader r leaves to show, when it stores nothing.
LEMMA OtherReaders ==
    ASSUME ValueInv, NEW r \in Readers, UNCHANGED Value!storeVars,
           \A q \in Readers \ {r} :
              /\ rpc'[q] = rpc[q] /\ before'[q] = before[q]
              /\ loading'[q] = loading[q] /\ got'[q] = got[q]
              /\ after'[q] = after[q] /\ result'[q] = result[q],
           ValueTypes', result'[r] # Value!Torn, LoadState(r)'
    PROVE  ValueInv'
<1>1. StoreState'
  BY Zenon DEF ValueInv, StoreState, Value!storeVars
<1>2. Value!LoadsAreComplete'
  BY Zenon DEF ValueInv, Value!LoadsAreComplete
<1>3. ASSUME NEW q \in Readers, q # r PROVE LoadState(q)'
  BY <1>3 DEF ValueInv, LoadState, Value!storeVars
<1> QED BY <1>1, <1>2, <1>3, Zenon DEF ValueInv

LEMMA ValueLoad ==
    ASSUME ByteCount \in Nat \ {0}, ProgramOrder = TRUE, ValueInv,
           NEW r \in Readers, Value!load(r)
    PROVE  ValueInv'
<1>0. ValueTypes /\ StoreState /\ LoadState(r) /\ result[r] # Value!Torn
  BY DEF ValueInv, Value!LoadsAreComplete
<1>r. ASSUME NEW v \in Int, v # Value!Torn, Value!Return(r, v) PROVE ValueInv'
  <2>1. ValueTypes'
    BY <1>0, <1>r, Zenon DEF Value!Return, ValueTypes, Value!storeVars
  <2>2. result'[r] # Value!Torn /\ LoadState(r)'
    BY <1>0, <1>r, Zenon DEF Value!Return, ValueTypes, LoadState
  <2>3. UNCHANGED Value!storeVars /\ UNCHANGED <<before, loading, got, after>>
    BY <1>r DEF Value!Return
  <2>4. \A q \in Readers \ {r} : rpc'[q] = rpc[q] /\ result'[q] = result[q]
    BY <1>0, <1>r, Zenon DEF Value!Return, ValueTypes
  <2> QED BY <2>1, <2>2, <2>3, <2>4, OtherReaders, Zenon
<1>1. CASE Value!BeginLoad(r)
  <2>1. ValueTypes'
    BY <1>0, <1>1, Zenon DEF Value!BeginLoad, ValueTypes, Value!storeVars
  <2>2. result'[r] # Value!Torn /\ LoadState(r)'
    BY <1>0, <1>1, Zenon DEF Value!BeginLoad, ValueTypes, LoadState
  <2> QED BY <1>0, <1>1, <2>1, <2>2, OtherReaders, Zenon DEF Value!BeginLoad, ValueTypes
<1>2. CASE Value!Retry(r)
  <2>1. CASE Value!LastAttempt(r) /\ Value!Return(r, result[r])
    BY <1>0, <1>r, <2>1, Zenon DEF ValueTypes
  <2>2. CASE ~Value!LastAttempt(r) /\ ~(Value!LastAttempt(r) /\ Value!Return(r, result[r]))
    <3>1. /\ rpc' = [rpc EXCEPT ![r] = "before"]
          /\ tries' = [tries EXCEPT ![r] = @ + 1]
          /\ UNCHANGED <<Value!storeVars, before, loading, got, after, result>>
      BY <1>2, <2>2, Zenon DEF Value!Retry
    <3>2. ValueTypes'
      BY <1>0, <3>1 DEF ValueTypes, Value!storeVars
    <3>3. result'[r] # Value!Torn /\ LoadState(r)'
      BY <1>0, <3>1, Zenon DEF ValueTypes, LoadState
    <3> QED BY <1>0, <3>1, <3>2, <3>3, OtherReaders, Zenon DEF ValueTypes
  <2> QED BY <1>2, <2>1, <2>2, Zenon DEF Value!Retry
<1>3. CASE Value!LoadBefore(r) /\ ~Value!Retry(r)
  <2>1. /\ version % 2 # 1
        /\ rpc' = [rpc EXCEPT ![r] = "load"]
        /\ before' = [before EXCEPT ![r] = version]
        /\ loading' = [loading EXCEPT ![r] = Value!Bytes \cup {Value!After}]
        /\ UNCHANGED <<Value!storeVars, tries, got, after, result>>
    BY <1>3, Zenon DEF Value!LoadBefore, Value!Odd
  <2>2. version = 2 * stores
    <3>1. version = 2 * stores \/ version = 2 * stores + 1
      BY <1>0 DEF StoreState
    <3>2. stores \in Nat
      BY <1>0, Zenon DEF ValueTypes
    <3> QED BY <2>1, <3>1, <3>2, OddVersion, Zenon
  <2>3. Value!Bytes \cup {Value!After} = 1..Value!After
    BY DEF Value!Bytes, Value!After
  <2>4. ValueTypes'
    BY <1>0, <2>1, <2>3, Zenon DEF ValueTypes, Value!storeVars
  <2>5. result'[r] # Value!Torn /\ LoadState(r)'
    BY <1>0, <2>1, <2>2, <2>3 DEF ValueTypes, LoadState, Value!storeVars, Value!Bytes, Value!After
  <2> QED BY <1>0, <2>1, <2>4, <2>5, OtherReaders, Zenon DEF ValueTypes
<1>4. ASSUME NEW a \in 1..Value!After, Value!LoadNext(r, a) PROVE ValueInv'
  <2>1. /\ rpc[r] = "load" /\ a \in loading[r]
        /\ \A o \in loading[r] : a <= o
        /\ loading' = [loading EXCEPT ![r] = @ \ {a}]
        /\ UNCHANGED <<Value!storeVars, rpc, tries, before, result>>
    BY <1>4, Zenon DEF Value!LoadNext, Value!MayLoad
  <2>2. loading'[r] = loading[r] \ {a} /\ loading[r] \subseteq 1..Value!After
    BY <1>0, <2>1, Zenon DEF ValueTypes
  <2>3. \A o \in loading'[r] : \A b \in o..Value!After : b \in loading'[r]
    <3>1. ASSUME NEW o \in loading'[r], NEW b \in o..Value!After
          PROVE  b \in loading'[r]
      <4>1. o \in loading[r] /\ a < o /\ a < b /\ b # a
        BY <2>1, <2>2, <3>1 DEF Value!After
      <4>2. b \in loading[r]
        BY <1>0, <2>1, <4>1, Zenon DEF LoadState
      <4> QED BY <2>2, <4>1, <4>2
    <3> QED BY <3>1
  <2>4. /\ after' \in [Readers -> Nat]
        /\ got' \in [Readers -> [Value!Bytes -> Nat]]
        /\ loading' \in [Readers -> SUBSET (1..Value!After)]
        /\ \A q \in Readers \ {r} : /\ got'[q] = got[q] /\ after'[q] = after[q]
                                    /\ loading'[q] = loading[q]
    <3>1. CASE a = Value!After
      BY <1>0, <1>4, <2>1, <3>1 DEF Value!LoadNext, ValueTypes
    <3>2. CASE a # Value!After
      <4>1. a \in Value!Bytes
        BY <3>2 DEF Value!Bytes, Value!After
      <4> QED BY <1>0, <1>4, <2>1, <3>2, <4>1 DEF Value!LoadNext, ValueTypes
    <3> QED BY <3>1, <3>2, Zenon
  <2>5. ValueTypes'
    BY <1>0, <2>1, <2>4, Zenon DEF ValueTypes, Value!storeVars
  <2>6. LoadState(r)'
    <3>1. CASE a = Value!After
      <4>1. loading[r] = {Value!After} /\ loading'[r] = {}
        BY <2>1, <2>2, <3>1 DEF Value!After
      <4>2. after'[r] = version /\ got' = got
        BY <1>0, <1>4, <3>1, Zenon DEF Value!LoadNext, ValueTypes
      <4>3. Value!Bytes \ loading[r] = Value!Bytes /\ Value!Bytes \ loading'[r] = Value!Bytes
        BY <4>1 DEF Value!Bytes, Value!After
      <4> QED
        BY <1>0, <2>1, <2>3, <4>1, <4>2, <4>3, Zenon DEF LoadState, Value!storeVars
    <3>2. CASE a # Value!After
      <4>1. a \in Value!Bytes /\ Value!After \in loading[r] /\ Value!After \in loading'[r]
        BY <1>0, <2>1, <2>2, <3>2 DEF LoadState, Value!Bytes, Value!After
      <4>2. version = before[r] => version = 2 * stores
        BY <1>0, <2>1 DEF LoadState, StoreState, ValueTypes
      <4>3. version = 2 * stores => bytes[a] = stores
        <5>1. version = 2 * stores => writing = {} \/ 0 \in writing
          BY <1>0 DEF StoreState, ValueTypes
        <5>2. a \in 0..Value!Even
          BY <4>1 DEF Value!Bytes, Value!Even
        <5>3. 0 \in writing => a \in writing
          BY <1>0, <5>2 DEF StoreState
        <5> QED BY <1>0, <4>1, <5>1, <5>3, Zenon DEF StoreState
      <4>4. /\ got'[r][a] = bytes[a]
            /\ \A b \in Value!Bytes : b # a => got'[r][b] = got[r][b]
        BY <1>0, <1>4, <3>2, <4>1 DEF Value!LoadNext, ValueTypes
      <4>5. ASSUME version = before[r], NEW b \in Value!Bytes \ loading'[r]
            PROVE  2 * got'[r][b] = before[r]
        BY <1>0, <2>1, <2>2, <4>2, <4>3, <4>4, <4>5, Zenon DEF LoadState
      <4> QED
        BY <1>0, <2>1, <2>3, <4>1, <4>5, Zenon DEF LoadState, Value!storeVars
    <3> QED BY <3>1, <3>2
  <2> QED
    BY <1>0, <2>1, <2>4, <2>5, <2>6, OtherReaders, Zenon
<1>5. CASE Value!Decide(r) /\ ~Value!Retry(r)
  <2>1. \A b \in Value!Bytes : 2 * got[r][b] = before[r]
    BY <1>0, <1>5, Zenon DEF Value!Decide, Value!Stable, LoadState
  <2>2. Value!Payload(got[r]) \in Nat
    BY <1>0, <2>1, SMTT(30) DEF Value!Payload, ValueTypes, Value!Bytes
  <2> QED BY <1>5, <1>r, <2>2 DEF Value!Decide, Value!Torn
<1> QED BY <1>1, <1>2, <1>3, <1>4, <1>5 DEF Value!load

\* In program order a load that returns a value returns the bytes of one
\* store: AtomicValue::store and load need no more than the two versions,
\* whatever the size of the value, the number of readers, attempts and stores.
THEOREM CompleteInProgramOrder ==
    ASSUME ByteCount \in Nat \ {0}, ProgramOrder = TRUE
    PROVE  Value!Spec => []Value!LoadsAreComplete
<1>1. Value!Init => ValueInv
  BY ValueInit
<1>2. ValueInv /\ [Value!Next]_(Value!vars) => ValueInv'
  <2>1. ValueInv /\ UNCHANGED Value!vars => ValueInv'
    BY Zenon DEF ValueInv, ValueTypes, StoreState, LoadState, Value!LoadsAreComplete, Value!vars,
       Value!storeVars
  <2> QED BY <2>1, ValueStore, ValueLoad DEF Value!Next
<1>3. ValueInv => Value!LoadsAreComplete
  BY DEF ValueInv
<1> QED BY <1>1, <1>2, <1>3, PTL DEF Value!Spec
==============================================================================
