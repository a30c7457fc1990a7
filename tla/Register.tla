------------------------------ MODULE Register ------------------------------
(***************************************************************************)
(* What LocalSnapshot promises the threads that use it: a register with    *)
(* one writer whose reads take time.  A read returns a value that was      *)
(* current at some moment between its start and its end, or it gives up,   *)
(* which it may do only after MaxAttempts new values were published while  *)
(* it was running.  Values are numbered in the order they are published;   *)
(* 0 stands for "nothing published yet".                                   *)
(***************************************************************************)
EXTENDS Integers

CONSTANTS
    Readers,               \* threads that call read
    MaxAttempts            \* attempts of one read

VARIABLES
    value,                 \* the current value
    pending,               \* per reader: is a read in progress?
    seen,                  \* values that were current during that read
    overtaken,             \* values published during that read
    result                 \* last value the reader got

vars == <<value, pending, seen, overtaken, result>>

Init ==
    /\ value = 0
    /\ pending = [r \in Readers |-> FALSE]
    /\ seen = [r \in Readers |-> {}]
    /\ overtaken = [r \in Readers |-> 0]
    /\ result = [r \in Readers |-> 0]

Write ==
    /\ value' \in Nat /\ value' > value
    /\ seen' = [r \in Readers |->
                    IF pending[r] THEN seen[r] \cup {value'} ELSE seen[r]]
    /\ overtaken' = [r \in Readers |->
                    IF pending[r] THEN overtaken[r] + 1 ELSE overtaken[r]]
    /\ UNCHANGED <<pending, result>>

BeginRead(r) ==
    /\ ~pending[r]
    /\ pending' = [pending EXCEPT ![r] = TRUE]
    /\ seen' = [seen EXCEPT ![r] = {value}]
    /\ UNCHANGED <<value, overtaken, result>>

Finish(r) ==
    /\ pending[r]
    /\ pending' = [pending EXCEPT ![r] = FALSE]
    /\ seen' = [seen EXCEPT ![r] = {}]
    /\ overtaken' = [overtaken EXCEPT ![r] = 0]
    /\ UNCHANGED value

EndRead(r) ==
    /\ Finish(r)
    /\ \E v \in seen[r] : result' = [result EXCEPT ![r] = v]

GiveUp(r) ==
    /\ overtaken[r] >= MaxAttempts
    /\ Finish(r)
    /\ UNCHANGED result

Next ==
    \/ Write
    \/ \E r \in Readers : BeginRead(r) \/ EndRead(r) \/ GiveUp(r)

Spec == Init /\ [][Next]_vars
=============================================================================
