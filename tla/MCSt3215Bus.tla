----------------------------- MODULE MCSt3215Bus -----------------------------
(* Instances of the servo bus for TLC.                                       *)
EXTENDS St3215Bus

FirstServo == {1}
=============================================================================
