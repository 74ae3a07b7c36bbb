---------------------------- MODULE StreamSum ----------------------------
(***************************************************************************)
(* What a stream-sum processor promises, whatever threads, tasks, channels *)
(* and windows it is made of: it takes records of the input topic, starts  *)
(* one send of a result per record taken, sees every such send resolve     *)
(* once, never publishes a count larger than the sends that resolved, and  *)
(* finishes only when nothing is outstanding and the count is exact.       *)
(***************************************************************************)
EXTENDS Integers, FiniteSets

CONSTANT Records     \* the records that call for a result

VARIABLES
    taken,           \* records handed to the producing side
    resolved,        \* records whose send has resolved
    tally,           \* the published count
    finished         \* the processor has reported

vars == <<taken, resolved, tally, finished>>

Init ==
    /\ taken = {}
    /\ resolved = {}
    /\ tally = 0
    /\ finished = FALSE

Take(r) ==
    /\ ~finished
    /\ r \in Records \ taken
    /\ taken' = taken \cup {r}
    /\ UNCHANGED <<resolved, tally, finished>>

Resolve(r) ==
    /\ ~finished
    /\ r \in taken \ resolved
    /\ resolved' = resolved \cup {r}
    /\ tally' \in tally .. Cardinality(resolved')
    /\ UNCHANGED <<taken, finished>>

Publish ==
    /\ ~finished
    /\ tally' \in tally .. Cardinality(resolved)
    /\ UNCHANGED <<taken, resolved, finished>>

Finish ==
    /\ ~finished
    /\ resolved = taken
    /\ tally = Cardinality(resolved)
    /\ finished' = TRUE
    /\ UNCHANGED <<taken, resolved, tally>>

Next ==
    \/ \E r \in Records : Take(r) \/ Resolve(r)
    \/ Publish \/ Finish

Spec ==
    /\ Init /\ [][Next]_vars
    /\ WF_vars(\E r \in Records : Resolve(r))
    /\ WF_vars(Finish)
=============================================================================
