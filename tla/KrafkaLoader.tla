--------------------------- MODULE KrafkaLoader ---------------------------
(***************************************************************************)
(* Phase 1 of stream-test-krafka/src/bin/processor.rs: delete and recreate *)
(* the benchmark topics, wait for the leaders of their partitions, load    *)
(* TOTAL_RECORDS records with a window of concurrent sends, drain, flush.  *)
(*                                                                         *)
(* All sends are futures of ONE task: they are pushed without being polled *)
(* and polled, oldest first, only while the task awaits in_flight.next().  *)
(* The first poll of a send takes a sequence number of its partition and   *)
(* puts the record into the producer's batch; the comment at lines 144-148 *)
(* and docs/krafka-idempotent-producer-concurrency-safety.md say why the   *)
(* two must not be separated by another send.  The broker and the krafka   *)
(* producer are external and modelled as this code relies on them.         *)
(***************************************************************************)
EXTENDS Integers, Sequences, FiniteSets, SequencesExt

CONSTANTS
    Partitions,    \* the partitions of a topic, num_workers of them
    Total,         \* TOTAL_RECORDS
    Window,        \* WINDOW: sends in flight at the same time
    MaxLost,       \* requests (acks=none) or acknowledgements (acks=all) the network loses
    MaxErrs        \* sends that fail before the record is in a batch

ASSUME LoadType ==
    /\ IsFiniteSet(Partitions) /\ Partitions # {}
    /\ Total \in Nat /\ Window \in Nat \ {0} /\ MaxLost \in Nat /\ MaxErrs \in Nat

Topics == {"input", "output"}
Records == 1 .. Total
Old == 0           \* a record that an earlier run left in the input topic

VARIABLES
    is_durable,    \* DURABLE is set: acks=all and an idempotent producer
    step,          \* where the loading task is
    topics,        \* the topics that exist
    deleting,      \* the topics the broker has accepted to delete
    pstate,        \* what the broker's metadata says of each partition of each topic
    made,          \* records pushed so far
    fut,           \* the state of the send of each record
    slot,          \* partition and sequence number of each record, once it has them
    nextSeq,       \* next sequence number of each partition
    queue,         \* records in the producer's batches, per partition
    wire,          \* requests sent and not answered, per partition
    log,           \* the input topic
    expected,      \* the sequence number the broker expects next, per partition
    refused,       \* records the broker refused as out of sequence
    lost,          \* requests or acknowledgements lost so far
    errs,          \* records whose send failed before they were in a batch
    \* history
    described      \* the topics in the description that ended the wait for the leaders

adminVars == <<topics, deleting, pstate, described>>
producerVars == <<slot, nextSeq, queue, wire>>
brokerVars == <<log, expected, refused, lost>>
vars == <<is_durable, step, adminVars, made, fut, producerVars, brokerVars, errs>>

-----------------------------------------------------------------------------
InFlight == {i \in Records : fut[i] \in {"pushed", "sequenced", "queued", "resolved"}}

Init ==
    /\ is_durable \in BOOLEAN
    /\ step = "delete"
    /\ topics \in SUBSET Topics
    /\ deleting = {}
    /\ pstate = [t \in Topics |-> [p \in Partitions |->
                    IF t \in topics THEN "led" ELSE "unknown"]]
    /\ made = 0
    /\ fut = [i \in Records |-> "none"]
    /\ slot = [i \in Records |-> <<>>]
    /\ nextSeq = [p \in Partitions |-> 0]
    /\ queue = [p \in Partitions |-> <<>>]
    /\ wire = [p \in Partitions |-> <<>>]
    /\ log = [p \in Partitions |-> IF "input" \in topics THEN <<Old>> ELSE <<>>]
    /\ expected = [p \in Partitions |-> 0]
    /\ refused = {}
    /\ lost = 0
    /\ errs = {}
    /\ described = {}

-----------------------------------------------------------------------------
(* Faulty variants of operators below, each a slip the code could have     *)
(* made.  No specification uses them: they show that a property can fail.  *)

GoOn == "leaders"
NoMissingLeader(answer) == \A t \in answer, p \in Partitions : pstate[t][p] # "known"
OneTooMany == Cardinality(InFlight') > Window
OnlyWhenFull == step = "full"
AnyPushed(i) == fut[i] = "pushed"
Spawned == TRUE
NoDrain == TRUE

-----------------------------------------------------------------------------
(* The admin calls.                                                        *)

\* Where an error of create_topics leads: its expect() panics.
AfterCreateError == "panicked"

\* What describe_topics may answer: a topic the broker does not know yet can be missing.
Answers ==
    {d \in SUBSET Topics : \A t \in Topics \ d, p \in Partitions : pstate[t][p] = "unknown"}

\* Every topic of the answer is described with num_workers partitions, each with a leader.
AllReady(answer) == \A t \in answer, p \in Partitions : pstate[t][p] = "led"

\* delete_topics: the broker accepts some deletions; whatever it answers is ignored.
DeleteTopics ==
    /\ step = "delete"
    /\ \E accepted \in SUBSET topics : deleting' = accepted
    /\ step' = "create"
    /\ UNCHANGED <<is_durable, topics, pstate, described, made, fut, producerVars, brokerVars,
                   errs>>

\* create_topics fails for any reason, a topic that still exists among them, or makes both.
CreateTopics ==
    /\ step = "create"
    /\ \/ /\ step' = AfterCreateError
          /\ UNCHANGED topics
       \/ /\ topics = {}
          /\ topics' = Topics
          /\ step' = "leaders"
    /\ UNCHANGED <<is_durable, deleting, pstate, described, made, fut, producerVars, brokerVars,
                   errs>>

\* An answer of describe_topics reports all it describes ready, and the producer is built or its
\* expect() panics.  After a failure or any other answer the question is put again 200ms later.
LeadersReady ==
    /\ step = "leaders"
    /\ \E answer \in Answers : AllReady(answer) /\ described' = answer
    /\ step' \in {"load", "panicked"}
    /\ UNCHANGED <<is_durable, topics, deleting, pstate, made, fut, producerVars, brokerVars,
                   errs>>

-----------------------------------------------------------------------------
(* The loading loop, the drain and the flush.                              *)

\* in_flight.len() >= WINDOW, after the push.
WindowFull == Cardinality(InFlight') >= Window

\* The task awaits in_flight.next(), in the loop or in the drain: only then are sends polled.
Awaiting == step \in {"full", "drain"}

\* A record is generated and its send pushed, not polled.
Push ==
    /\ step = "load" /\ made < Total
    /\ made' = made + 1
    /\ fut' = [fut EXCEPT ![made + 1] = "pushed"]
    /\ step' = IF WindowFull THEN "full" ELSE "load"
    /\ UNCHANGED <<is_durable, adminVars, producerVars, brokerVars, errs>>

EndLoad ==
    /\ step = "load" /\ made = Total
    /\ step' = "drain"
    /\ UNCHANGED <<is_durable, adminVars, made, fut, producerVars, brokerVars, errs>>

\* The queue of futures hands out the sends that were never polled in the order of the pushes.
NextToPoll(i) == fut[i] = "pushed" /\ \A j \in Records : fut[j] = "pushed" => i <= j

\* One task polls: the poll of one send is over before the next send is polled.
SingleTask == \A i \in Records : fut[i] # "sequenced"

\* First poll of a send: it takes the next sequence number of a partition.
TakeSequence(i) ==
    /\ Awaiting /\ NextToPoll(i) /\ SingleTask
    /\ \E p \in Partitions :
         /\ slot' = [slot EXCEPT ![i] = <<p, nextSeq[p]>>]
         /\ nextSeq' = [nextSeq EXCEPT ![p] = @ + 1]
    /\ fut' = [fut EXCEPT ![i] = "sequenced"]
    /\ UNCHANGED <<is_durable, step, adminVars, made, queue, wire, brokerVars, errs>>

\* The first poll fails instead: the send resolves to an error, which the task ignores.
SendFails(i) ==
    /\ Awaiting /\ NextToPoll(i) /\ SingleTask
    /\ Cardinality(errs) < MaxErrs
    /\ errs' = errs \cup {i}
    /\ fut' = [fut EXCEPT ![i] = "resolved"]
    /\ UNCHANGED <<is_durable, step, adminVars, made, producerVars, brokerVars>>

\* The second half of the first poll: the record goes into the batch of its partition.
Enqueue(i) ==
    /\ Awaiting /\ fut[i] = "sequenced"
    /\ queue' = [queue EXCEPT ![slot[i][1]] = Append(@, i)]
    /\ fut' = [fut EXCEPT ![i] = "queued"]
    /\ UNCHANGED <<is_durable, step, adminVars, made, slot, nextSeq, wire, brokerVars, errs>>

\* in_flight.next() yields a send that resolved, Ok or Err: the loop goes on.
TakeResolved(i) ==
    /\ Awaiting /\ SingleTask /\ fut[i] = "resolved"
    /\ fut' = [fut EXCEPT ![i] = "done"]
    /\ step' = IF step = "full" THEN "load" ELSE step
    /\ UNCHANGED <<is_durable, adminVars, made, producerVars, brokerVars, errs>>

\* in_flight.next() yields None.
Drained == InFlight = {}

EndDrain ==
    /\ step = "drain" /\ Drained
    /\ step' = "flush"
    /\ UNCHANGED <<is_durable, adminVars, made, fut, producerVars, brokerVars, errs>>

\* flush() returns when the producer holds nothing more to send or to see acknowledged.
Flush ==
    /\ step = "flush"
    /\ \A p \in Partitions : queue[p] = <<>> /\ (is_durable => wire[p] = <<>>)
    /\ step' = "phase2"
    /\ UNCHANGED <<is_durable, adminVars, made, fut, producerVars, brokerVars, errs>>

\* Or it fails: expect() panics.
FlushFails ==
    /\ step = "flush"
    /\ step' = "panicked"
    /\ UNCHANGED <<is_durable, adminVars, made, fut, producerVars, brokerVars, errs>>

Load ==
    \/ DeleteTopics \/ CreateTopics \/ LeadersReady \/ Push \/ EndLoad \/ EndDrain \/ Flush
    \/ \E i \in Records : TakeSequence(i) \/ SendFails(i) \/ Enqueue(i) \/ TakeResolved(i)

-----------------------------------------------------------------------------
(* The krafka producer and the broker, external.                           *)

Deleted(t) ==
    /\ t \in deleting
    /\ deleting' = deleting \ {t} /\ topics' = topics \ {t}
    /\ pstate' = [pstate EXCEPT ![t] = [p \in Partitions |-> "unknown"]]
    /\ log' = IF t = "input" THEN [p \in Partitions |-> <<>>] ELSE log
    /\ UNCHANGED <<is_durable, step, described, made, fut, producerVars, expected, refused, lost,
                   errs>>

\* A partition becomes known to the metadata, then gets its leader.
Elect(t, p) ==
    /\ t \in topics /\ pstate[t][p] # "led"
    /\ pstate' = [pstate EXCEPT ![t][p] = IF @ = "unknown" THEN "known" ELSE "led"]
    /\ UNCHANGED <<is_durable, step, topics, deleting, described, made, fut, producerVars,
                   brokerVars, errs>>

\* A batch leaves the producer for the leader; with acks=none that resolves the send.
Transmit(p) ==
    /\ queue[p] # <<>> /\ pstate["input"][p] = "led"
    /\ queue' = [queue EXCEPT ![p] = Tail(@)]
    /\ wire' = [wire EXCEPT ![p] = Append(@, Head(queue[p]))]
    /\ fut' = IF is_durable THEN fut ELSE [fut EXCEPT ![Head(queue[p])] = "resolved"]
    /\ UNCHANGED <<is_durable, step, adminVars, made, slot, nextSeq, brokerVars, errs>>

\* With idempotence the broker appends a record only if its sequence number is the next.
Idempotent == is_durable

Answered(p) ==
    /\ wire' = [wire EXCEPT ![p] = Tail(@)]
    /\ fut' = IF is_durable THEN [fut EXCEPT ![Head(wire[p])] = "resolved"] ELSE fut

\* The broker handles the oldest request: appends it, recognises a repetition, or refuses it.
Handle(p) ==
    /\ wire[p] # <<>>
    /\ LET i == Head(wire[p])
           n == slot[i][2]
       IN  IF ~Idempotent \/ n = expected[p]
           THEN /\ log' = [log EXCEPT ![p] = Append(@, i)]
                /\ expected' = [expected EXCEPT ![p] = n + 1]
                /\ \/ Answered(p) /\ UNCHANGED lost
                   \/ /\ is_durable /\ lost < MaxLost  \* the answer is lost: sent again
                      /\ lost' = lost + 1
                      /\ UNCHANGED <<wire, fut>>
                /\ UNCHANGED refused
           ELSE /\ refused' = IF n > expected[p] THEN refused \cup {i} ELSE refused
                /\ Answered(p)
                /\ UNCHANGED <<log, expected, lost>>
    /\ UNCHANGED <<is_durable, step, adminVars, made, slot, nextSeq, queue, errs>>

\* With acks=none nobody notices that a request was lost.
LoseRequest(p) ==
    /\ ~is_durable /\ wire[p] # <<>> /\ lost < MaxLost
    /\ lost' = lost + 1
    /\ wire' = [wire EXCEPT ![p] = Tail(@)]
    /\ UNCHANGED <<is_durable, step, adminVars, made, fut, slot, nextSeq, queue, log, expected,
                   refused, errs>>

Terminated == step \in {"phase2", "panicked"} /\ UNCHANGED vars

Next ==
    \/ Load \/ FlushFails
    \/ \E t \in Topics : Deleted(t) \/ \E p \in Partitions : Elect(t, p)
    \/ \E p \in Partitions : Transmit(p) \/ Handle(p) \/ LoseRequest(p)
    \/ Terminated

\* The task runs, leaders get elected, batches are sent and answered; nobody promises that flush()
\* fails.
Fairness ==
    /\ WF_vars(Load)
    /\ \A t \in Topics, p \in Partitions : WF_vars(Elect(t, p))
    /\ \A p \in Partitions : WF_vars(Transmit(p)) /\ WF_vars(Handle(p))

Spec == Init /\ [][Next]_vars /\ Fairness

-----------------------------------------------------------------------------
TypeOK ==
    /\ is_durable \in BOOLEAN
    /\ step \in {"delete", "create", "leaders", "load", "full", "drain", "flush",
                 "phase2", "panicked"}
    /\ topics \subseteq Topics /\ deleting \subseteq topics
    /\ described \subseteq Topics
    /\ pstate \in [Topics -> [Partitions -> {"unknown", "known", "led"}]]
    /\ made \in 0 .. Total
    /\ fut \in [Records -> {"none", "pushed", "sequenced", "queued", "resolved", "done"}]
    /\ slot \in [Records -> {<<>>} \cup (Partitions \X Nat)]
    /\ nextSeq \in [Partitions -> Nat] /\ expected \in [Partitions -> Nat]
    /\ queue \in [Partitions -> Seq(Records)] /\ wire \in [Partitions -> Seq(Records)]
    /\ log \in [Partitions -> Seq(Records \cup {Old})]
    /\ refused \subseteq Records /\ errs \subseteq Records /\ lost \in 0 .. MaxLost
    /\ \A i \in Records : fut[i] = "none" <=> i > made
    /\ step \in {"flush", "phase2"} => InFlight = {}

\* How often record i is in the input topic.
Copies(i) ==
    Cardinality({pk \in Partitions \X (1 .. Total + MaxLost + 1) :
                   pk[2] <= Len(log[pk[1]]) /\ log[pk[1]][pk[2]] = i})

Loading == step \in {"load", "full", "drain", "flush", "phase2"}

\* Though the outcome of delete_topics is ignored, no record of an earlier run is in the topic the
\* records are loaded into: a topic that is still there makes create_topics fail, and none that
\* was created goes away again.  Every topic that was described has its leaders.
FreshAndReady ==
    Loading =>
        /\ \A p \in Partitions : Old \notin ToSet(log[p])
        /\ topics = Topics
        /\ \A t \in described, p \in Partitions : pstate[t][p] = "led"

\* Unresolved sends, and with them the buffers they own, are bounded by WINDOW.
WindowBound == Cardinality(InFlight) <= Window

\* The broker never refuses a record as out of sequence.
InSequence == refused = {}

\* Within a partition records are stored in the order they were generated, though all the
\* sends of a window are concurrent.
PushOrder ==
    \A p \in Partitions : \A i, j \in 1 .. Len(log[p]) :
        i < j /\ log[p][i] # Old => log[p][i] <= log[p][j]

\* In durable mode the topic holds, when Phase 2 starts, every record whose send did not fail
\* exactly once and nothing of the others, whatever acknowledgements were lost on the way.
LoadedOnce ==
    step = "phase2" /\ is_durable =>
        \A i \in Records : Copies(i) = IF i \in errs THEN 0 ELSE 1

\* Phase 1 comes to an end: the wait for the leaders, for room in the window, for the drain
\* and for the flush all do.
Finishes == <>(step \in {"phase2", "panicked"})
=============================================================================
