------------------------ MODULE MCKrafkaProcessor ------------------------
(* Instances of KrafkaProcessor for TLC. *)
EXTENDS KrafkaProcessor, TLC

CONSTANTS w1, w2

TwoWorkers == {w1, w2}

\* Null values among the records of both partitions: five results.
LoadedLog == w1 :> <<"value", "value", "null", "value">> @@ w2 :> <<"null", "value", "value">>

\* The partition of w1 holds a payload that ends too early.
TruncatedLog == w1 :> <<"value", "truncated">> @@ w2 :> <<"value", "value", "value", "value">>
=============================================================================
