------------------------- MODULE MCSafetySupervisor -------------------------
(***************************************************************************)
(* Two axes of one safety group.  Each axis sees one of a few drive images *)
(* per cycle; the bus is healthy, or has one of the faults evaluate tests. *)
(***************************************************************************)
EXTENDS SafetySupervisor

MCGroupOf == [a \in 0 .. 1 |-> 0]
MCCommandTimeout == [a \in 0 .. 1 |-> 1]

Both(r) == [a \in 0 .. 1 |-> r]

\* Fresh snapshots at two sequence numbers, that enable or reset both axes,
\* and a malformed one.
MCSnapshots ==
    [seq : {1}, age : {0}, wellFormed : {TRUE},
     request : {Both("enable"), Both("fault_reset")}]
    \cup [seq : {2}, age : {0}, wellFormed : {TRUE},
          request : {Both("enable")}]
    \cup [seq : {2}, age : {0}, wellFormed : {FALSE},
          request : {Both("enable")}]

Healthy == [counterBad |-> FALSE, linkUp |-> TRUE, pdValid |-> TRUE,
            operational |-> {0, 1}, stopAxes |-> {}]

MCBusStates ==
    {Healthy,
     [Healthy EXCEPT !.counterBad = TRUE, !.pdValid = FALSE],
     [Healthy EXCEPT !.linkUp = FALSE, !.operational = {0}]}

Drive(d, m) == [drive |-> d, moving |-> m, modeOk |-> TRUE, farOff |-> FALSE]

\* Both drives running, the second faulted, the first off its target, and a
\* drive that never comes to rest beside one that has.
MCPdos ==
    LET Pair(p, q) == [a \in 0 .. 1 |-> IF a = 0 THEN p ELSE q]
        moving == Drive("operation_enabled", TRUE)
        still  == Drive("switch_on_disabled", FALSE)
        fault  == Drive("fault", FALSE)
    IN  {Pair(moving, moving), Pair(moving, fault),
         Pair([moving EXCEPT !.farOff = TRUE], still), Pair(still, still)}
=============================================================================
