-------------------------- MODULE MCKrafkaLoader --------------------------
(* Instances of KrafkaLoader for TLC. *)
EXTENDS KrafkaLoader

CONSTANTS p1, p2

TwoPartitions == {p1, p2}
=============================================================================
