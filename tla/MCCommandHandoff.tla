-------------------------- MODULE MCCommandHandoff --------------------------
(***************************************************************************)
(* Two stagers with snapshots at two sequence numbers, two different       *)
(* contents for one of them (a changed duplicate) and a malformed one.     *)
(***************************************************************************)
EXTENDS CommandHandoff

MCSnapshots ==
    {[seq |-> 1, body |-> 1, wellFormed |-> TRUE],
     [seq |-> 1, body |-> 2, wellFormed |-> TRUE],
     [seq |-> 2, body |-> 1, wellFormed |-> TRUE],
     [seq |-> 3, body |-> 1, wellFormed |-> FALSE]}
=============================================================================
