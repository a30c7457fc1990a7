-------------------------- MODULE SensorEventQueue --------------------------
(***************************************************************************)
(* SensorEventQueue<T, Capacity> (include/policy_runtime/robot_io/dds/     *)
(* realtime_mailbox.hpp): the ring through which a realtime transport      *)
(* thread passes sensor events to the DDS worker without ever waiting.     *)
(* The producer overwrites the oldest event when the ring is full.  The    *)
(* worker writes what it pops to the sensor's topic                        *)
(* (robot_io/dds/daemon_endpoint.cpp), and the policy host takes it from   *)
(* there when it needs an observation (runtime/dds_robot_io.cpp).          *)
(*                                                                         *)
(* The topic is best effort with a history of one: a sample may be lost,   *)
(* and one the host has not taken is replaced by the next one; the         *)
(* middleware never delivers an older sample of a writer after a newer     *)
(* one.  Each sensor has a ring and a topic of its own.                    *)
(*                                                                         *)
(* A slot is an AtomicValue.  It is stored in two steps, between which a   *)
(* load finds nothing; a load is one step, because one that overlaps a     *)
(* store of its slot returns nothing or fails the ticket comparison, and   *)
(* pop treats the two alike.  An event is identified with its ticket.      *)
(***************************************************************************)
EXTENDS Integers, FiniteSets, Sequences

CONSTANTS
    Capacity,              \* slots of the ring
    MaxEvents              \* bound: events pushed in one behaviour

ASSUME CapacityAssumption == Capacity \in Nat \ {0}
ASSUME EventAssumption == MaxEvents \in Nat

Ring == 0..(Capacity - 1)
NoTicket == 0              \* also what a load of a slot being stored finds

VARIABLES
    slots,                 \* ticket in each slot
    published,             \* published_
    consumed,              \* consumed_
    dropped,               \* dropped_
    ppc,                   \* producer: "idle", "count", "store", "publish"
    cpc,                   \* consumer: "idle", "load", "advance", "write"
    next,                  \* consumer: the local consumed
    cache,                 \* the host's reader: the event of the sample in it
    feedback,              \* the host's axes[index]: the event last taken
    delivered              \* history: the events pop has returned, in order

vars == <<slots, published, consumed, dropped, ppc, cpc, next, cache, feedback,
          delivered>>

Init ==
    /\ slots = [i \in Ring |-> NoTicket]
    /\ published = 0 /\ consumed = 0 /\ dropped = 0
    /\ ppc = "idle" /\ cpc = "idle" /\ next = 0
    /\ cache = NoTicket /\ feedback = NoTicket
    /\ delivered = <<>>

Max(a, b) == IF a > b THEN a ELSE b

\* The oldest event the ring still holds has this ticket minus one.
Oldest == Max(0, published - Capacity)

-----------------------------------------------------------------------------
(* push_realtime: the producer *)

\* Mutant: the last free slot counts as full.
FullEarly == published - consumed > Capacity

Full == published - consumed >= Capacity

\* A transport thread has a reading: the enqueue operations of the endpoint.
Enqueues == ppc = "idle" /\ published < MaxEvents

CountDrop ==
    /\ Enqueues
    /\ dropped' = IF Full THEN dropped + 1 ELSE dropped
    /\ ppc' = "count"
    /\ UNCHANGED <<slots, published, consumed, cpc, next, cache, feedback, delivered>>

BeginStore ==
    /\ ppc = "count"
    /\ slots' = [slots EXCEPT ![published % Capacity] = NoTicket]
    /\ ppc' = "store"
    /\ UNCHANGED <<published, consumed, dropped, cpc, next, cache, feedback, delivered>>

\* Mutant: the ticket of the event before.
EndStoreOldTicket ==
    /\ ppc = "store"
    /\ slots' = [slots EXCEPT ![published % Capacity] = published]
    /\ ppc' = "publish"
    /\ UNCHANGED <<published, consumed, dropped, cpc, next, cache, feedback, delivered>>

EndStore ==
    /\ ppc = "store"
    /\ slots' = [slots EXCEPT ![published % Capacity] = published + 1]
    /\ ppc' = "publish"
    /\ UNCHANGED <<published, consumed, dropped, cpc, next, cache, feedback, delivered>>

Publish ==
    /\ ppc = "publish"
    /\ published' = published + 1
    /\ ppc' = "idle"
    /\ UNCHANGED <<slots, consumed, dropped, cpc, next, cache, feedback, delivered>>

push_realtime == CountDrop \/ BeginStore \/ EndStore \/ Publish

-----------------------------------------------------------------------------
(* pop: the consumer *)

\* Mutant: the consumer does not skip what was overwritten.
NextConsumedStuck == consumed

NextConsumed == Max(consumed, Oldest)

BeginPop ==
    /\ cpc = "idle"
    /\ consumed < published
    /\ next' = NextConsumed
    /\ cpc' = "load"
    /\ UNCHANGED <<slots, published, consumed, dropped, ppc, cache, feedback, delivered>>

\* Mutant: whatever the slot holds is taken.
AnyTicket == slots[next % Capacity] # NoTicket

TicketMatches == slots[next % Capacity] = next + 1

LoadEvent ==
    /\ cpc = "load"
    /\ \/ ~TicketMatches /\ cpc' = "idle" /\ UNCHANGED delivered
       \/ /\ TicketMatches
          /\ cpc' = "advance"
          /\ delivered' = Append(delivered, slots[next % Capacity])
    /\ UNCHANGED <<slots, published, consumed, dropped, ppc, next, cache, feedback>>

Advance ==
    /\ cpc = "advance"
    /\ consumed' = next + 1
    /\ cpc' = "write"
    /\ UNCHANGED <<slots, published, dropped, ppc, next, cache, feedback, delivered>>

pop == BeginPop \/ LoadEvent \/ Advance

-----------------------------------------------------------------------------
(* The topic: the worker's write and the host's read *)

\* The sample reaches the reader, where it replaces one not yet taken, or is
\* lost.
WriteSample ==
    /\ cpc = "write"
    /\ cache' \in {cache, delivered[Len(delivered)]}
    /\ cpc' = "idle"
    /\ UNCHANGED <<slots, published, consumed, dropped, ppc, next, feedback, delivered>>

\* read_feedback and its counterparts keep the last value when nothing came.
read_feedback ==
    /\ cache # NoTicket
    /\ feedback' = cache /\ cache' = NoTicket
    /\ UNCHANGED <<slots, published, consumed, dropped, ppc, cpc, next, delivered>>

Worker == pop \/ WriteSample

\* The bound on events stops the producer; the consumer then drains the ring.
Drained == ppc = "idle" /\ published = MaxEvents /\ cpc = "idle" /\ consumed = published

Next ==
    \/ push_realtime \/ Worker \/ read_feedback
    \/ Drained /\ UNCHANGED vars

Spec == Init /\ [][Next]_vars

\* A push that has begun ends (whether there is another one is up to the bus),
\* and the worker calls pop in a loop.
FairSpec == Spec /\ WF_vars(BeginStore \/ EndStore \/ Publish) /\ WF_vars(Worker)

-----------------------------------------------------------------------------
(* Properties *)

\* push_realtime and pop keep their variables in range; the consumer is never
\* ahead of the producer.
TypeOK ==
    /\ slots \in [Ring -> 0..(published + 1)]
    /\ published \in 0..MaxEvents
    /\ consumed \in 0..published /\ next \in 0..published
    /\ dropped \in 0..MaxEvents
    /\ ppc \in {"idle", "count", "store", "publish"}
    /\ cpc \in {"idle", "load", "advance", "write"}
    /\ cache \in 0..published /\ feedback \in 0..published
    /\ delivered \in Seq(1..published)

\* Where the consumer really is: an event in its hands is consumed.
Taken == IF cpc = "advance" THEN next + 1 ELSE consumed

\* "the producer evicts the oldest pending sensor sample and retains the newest
\* one": every event not yet consumed among the last Capacity published is in
\* its slot, but for the oldest one while a push is replacing it.
RetainsNewest ==
    \A k \in Max(Taken, Oldest)..(published - 1) :
        \/ slots[k % Capacity] = k + 1
        \/ ppc \in {"store", "publish"} /\ k = published - Capacity

\* What the host takes for a sensor is always newer than what it had, whatever
\* the ring overwrote and the network lost on the way.
FeedbackAdvances == [][feedback' # feedback => feedback' > feedback]_vars

\* Events that were published, were not delivered and no longer can be.
Lost ==
    {e \in 1..Max(Taken, Oldest) : \A i \in 1..Len(delivered) : delivered[i] # e}

\* The counter misses no eviction: health never reports fewer dropped samples
\* than were lost, even while push and pop overlap.
NoSilentLoss == Cardinality(Lost) <= dropped

\* When the producer falls silent the worker delivers all that the ring holds.
RingIsDrained == <>[](consumed = published)
=============================================================================
