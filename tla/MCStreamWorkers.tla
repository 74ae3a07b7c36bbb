-------------------------- MODULE MCStreamWorkers -------------------------
(* Instances of StreamWorkers for TLC. *)
EXTENDS StreamWorkers

CONSTANTS w1, w2, p1

TwoWorkers == {w1, w2}
OnePartition == {p1}

\* A record without a value, or a truncated one, between two others.
ThreeRecords ==
    {[p \in OnePartition |-> <<"value", k, "value">>] : k \in {"null", "truncated"}}
=============================================================================
