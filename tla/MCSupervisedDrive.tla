------------------------- MODULE MCSupervisedDrive -------------------------
(***************************************************************************)
(* One axis and its drive: healthy, silent or corrupted bus, every drive   *)
(* state, moving or at rest.                                               *)
(***************************************************************************)
EXTENDS SupervisedDrive

MCGroupOf == [a \in {0} |-> 0]
MCCommandTimeout == [a \in {0} |-> 1]

MCSnapshots ==
    [seq : 1 .. 2, age : {0}, wellFormed : {TRUE},
     request : [{0} -> {"enable", "fault_reset"}]]
    \cup [seq : {1}, age : {0}, wellFormed : {FALSE},
          request : [{0} -> {"enable"}]]

Healthy == [counterBad |-> FALSE, linkUp |-> TRUE, pdValid |-> TRUE,
            operational |-> {0}, stopAxes |-> {}]

MCBusStates == {Healthy, [Healthy EXCEPT !.counterBad = TRUE],
                [Healthy EXCEPT !.linkUp = FALSE, !.pdValid = FALSE]}

MCPdos == [{0} -> [drive : DriveState \ {"unknown"}, moving : BOOLEAN,
                   modeOk : {TRUE}, farOff : {FALSE}]]

MCRefusals == SUBSET {0}
=============================================================================
