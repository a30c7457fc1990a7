---------------------------- MODULE AtomicValue -----------------------------
(***************************************************************************)
(* detail::AtomicValue<T> (include/policy_runtime/robot_io/dds/            *)
(* realtime_mailbox.hpp): one version counter and the bytes of a value,    *)
(* each a relaxed atomic, under every CommandMailbox and SensorEventQueue. *)
(*                                                                         *)
(* One store and one load is a set of accesses.  With ProgramOrder they    *)
(* take effect in the order they are written, which is what the x86-64     *)
(* build does.  Without it only the orders that the memory_order arguments *)
(* give are kept: a release store comes after everything before it, an     *)
(* acquire load comes before everything after it.  So the bytes of a store *)
(* may overtake the odd version in front of them, and the bytes of a load  *)
(* may fall behind the second version.                                     *)
(***************************************************************************)
EXTENDS Integers

CONSTANTS
    Readers,               \* threads that call load
    ByteCount,             \* sizeof(T)
    MaxAttempts,           \* 16 in the code
    MaxStores,             \* bound: calls of store in one behaviour
    ProgramOrder           \* do accesses take effect in program order?

Bytes == 1..ByteCount
Torn == -1

VARIABLES
    version,               \* version_
    bytes,                 \* bytes_: the store each byte comes from
    stores,                \* stores completed; the k-th stores the value k
    writing,               \* accesses of the current store still to do
    rpc, tries,            \* per reader: where it is, attempt
    before,                \* the version it loaded first
    loading,               \* accesses of the current attempt still to do
    got, after,            \* what they loaded
    result                 \* last value returned

storeVars == <<version, bytes, stores, writing>>
vars == <<storeVars, rpc, tries, before, loading, got, after, result>>

Init ==
    /\ version = 0 /\ bytes = [b \in Bytes |-> 0] /\ stores = 0 /\ writing = {}
    /\ rpc = [r \in Readers |-> "idle"] /\ tries = [r \in Readers |-> 0]
    /\ before = [r \in Readers |-> 0] /\ loading = [r \in Readers |-> {}]
    /\ got = [r \in Readers |-> [b \in Bytes |-> 0]]
    /\ after = [r \in Readers |-> 0]
    /\ result = [r \in Readers |-> 0]

\* Access 0 of a store is the odd version, access ByteCount + 1 the even one;
\* access ByteCount + 1 of a load is the second version.
Even == ByteCount + 1
After == ByteCount + 1

Odd(n) == n % 2 = 1
Payload(bs) == IF \A b \in Bytes : bs[b] = bs[1] THEN bs[1] ELSE Torn

\* May access a go before the others still to do?
MayStore(a) ==
    IF ProgramOrder THEN \A o \in writing : a <= o
    ELSE a = Even => writing = {Even}
MayLoad(r, a) == ProgramOrder => \A o \in loading[r] : a <= o

-----------------------------------------------------------------------------
(* store *)

BeginStore ==
    /\ writing = {} /\ stores < MaxStores
    /\ writing' = 0..Even
    /\ UNCHANGED <<version, bytes, stores, rpc, tries, before, loading, got,
                   after, result>>

StoreVersion(a) ==
    /\ a \in writing \cap {0, Even} /\ MayStore(a)
    /\ writing' = writing \ {a}
    /\ version' = 2 * stores + (IF a = Even THEN 2 ELSE 1)
    /\ stores' = IF a = Even THEN stores + 1 ELSE stores
    /\ UNCHANGED <<bytes, rpc, tries, before, loading, got, after, result>>

StoreByte(a) ==
    /\ a \in writing \cap Bytes /\ MayStore(a)
    /\ writing' = writing \ {a}
    /\ bytes' = [bytes EXCEPT ![a] = stores + 1]
    /\ UNCHANGED <<version, stores, rpc, tries, before, loading, got, after,
                   result>>

store == BeginStore \/ \E a \in 0..Even : StoreVersion(a) \/ StoreByte(a)

-----------------------------------------------------------------------------
(* load *)

BeginLoad(r) ==
    /\ rpc[r] = "idle"
    /\ rpc' = [rpc EXCEPT ![r] = "before"]
    /\ tries' = [tries EXCEPT ![r] = 0]
    /\ UNCHANGED <<storeVars, before, loading, got, after, result>>

Return(r, v) ==
    /\ rpc' = [rpc EXCEPT ![r] = "idle"]
    /\ result' = [result EXCEPT ![r] = v]
    /\ UNCHANGED <<storeVars, tries, before, loading, got, after>>

LastAttempt(r) == tries[r] + 1 >= MaxAttempts

\* "continue", or no value after the last attempt.
Retry(r) ==
    \/ /\ ~LastAttempt(r)
       /\ rpc' = [rpc EXCEPT ![r] = "before"]
       /\ tries' = [tries EXCEPT ![r] = @ + 1]
       /\ UNCHANGED <<storeVars, before, loading, got, after, result>>
    \/ LastAttempt(r) /\ Return(r, result[r])

LoadBefore(r) ==
    /\ rpc[r] = "before"
    /\ \/ /\ Odd(version) \/ version = 0
          /\ Retry(r)
       \/ /\ ~Odd(version) /\ version # 0
          /\ rpc' = [rpc EXCEPT ![r] = "load"]
          /\ before' = [before EXCEPT ![r] = version]
          /\ loading' = [loading EXCEPT ![r] = Bytes \cup {After}]
          /\ UNCHANGED <<storeVars, tries, got, after, result>>

LoadNext(r, a) ==
    /\ rpc[r] = "load"
    /\ a \in loading[r] /\ MayLoad(r, a)
    /\ loading' = [loading EXCEPT ![r] = @ \ {a}]
    /\ IF a = After
       THEN after' = [after EXCEPT ![r] = version] /\ UNCHANGED got
       ELSE got' = [got EXCEPT ![r][a] = bytes[a]] /\ UNCHANGED after
    /\ UNCHANGED <<storeVars, rpc, tries, before, result>>

Stable(r) == before[r] = after[r]

Decide(r) ==
    /\ rpc[r] = "load" /\ loading[r] = {}
    /\ \/ ~Stable(r) /\ Retry(r)
       \/ Stable(r) /\ Return(r, Payload(got[r]))

load(r) ==
    \/ BeginLoad(r) \/ LoadBefore(r)
    \/ \E a \in 1..After : LoadNext(r, a)
    \/ Decide(r)

Next == store \/ \E r \in Readers : load(r)

Spec == Init /\ [][Next]_vars

-----------------------------------------------------------------------------
(* Properties *)

\* "Realtime bus owners consume at most one complete eligible update": a load
\* that returns a value returns the bytes of one store.
LoadsAreComplete == \A r \in Readers : result[r] # Torn
=============================================================================
