------------------------- MODULE MCGroupBenchmark -------------------------
(* Instances of GroupBenchmark for TLC. *)
EXTENDS GroupBenchmark

CONSTANTS w1, w2

TwoWorkers == {w1, w2}
=============================================================================
