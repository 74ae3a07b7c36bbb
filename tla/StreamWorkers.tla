-------------------------- MODULE StreamWorkers ---------------------------
(***************************************************************************)
(* The stream-sum processors that run until they are stopped:              *)
(*   "java"    StreamSumApp.java of stream-test-java, worker threads       *)
(*   "scala"   StreamSumApp.scala of stream-test-scala, worker threads     *)
(*   "ruby"    bin/processor.rb of stream-test-ruby, worker processes      *)
(* The workers are one consumer group.  Each polls, sums a record, hands   *)
(* the result to the buffer of its producer, and leaves it to its client   *)
(* to commit the offsets it has polled (enable.auto.commit): a commit says *)
(* nothing of what a buffer still holds.  The clients and the broker are   *)
(* external: they assign partitions, deliver, and commit.  What matters of *)
(* them is when: the Java client commits and gives partitions back only in *)
(* poll() and close(), rdkafka (ruby) also while a record is processed.    *)
(***************************************************************************)
EXTENDS Integers, Sequences, FiniteSets

CONSTANTS
    Workers, NoOne,
    Partitions,    \* of the input topic
    Apps,          \* the implementations that are run
    Logs,          \* the input topics they are given: sequences of kinds of records
    MaxRecords,    \* records a partition may hold
    MaxPoll,       \* records one poll may return
    MaxFaults,     \* crashes, signals, failures of polls, sends and commits, workers too slow
    MaxRebalances, \* partitions taken from a worker that is well
    MaxStarts      \* how often the program is started again

Kinds == {"value", "null", "truncated"}

ASSUME WorkersType ==
    /\ IsFiniteSet(Workers) /\ NoOne \notin Workers /\ IsFiniteSet(Partitions)
    /\ Apps \subseteq {"java", "scala", "ruby"}
    /\ \A l \in Logs : l \in [Partitions -> Seq(Kinds)]
    /\ MaxRecords \in Nat /\ \A l \in Logs : \A p \in Partitions : Len(l[p]) <= MaxRecords
    /\ MaxPoll \in Nat \ {0} /\ {MaxFaults, MaxRebalances, MaxStarts} \subseteq Nat

VARIABLES
    app, log,      \* what runs, on which input
    running,       \* scala's flag: no signal has been seen
    pc,            \* where each worker is
    hand,          \* records it has polled and not summed
    buffered,      \* how many results of each record its producer has and has not delivered
    owner,         \* the worker the group has assigned each partition to
    position,      \* the next offset its client hands out
    committed,     \* the group's offsets
    output,        \* how often the result of each record is in the output topic
    faults, rebalances, starts,
    \* history
    discarded,     \* results that a producer has given up or taken with it
    abandoned,     \* records that a worker had in hand when an error ended its loop or process
    unclean        \* how often each partition lost its worker without a commit

config == <<app, log>>
bounds == <<faults, rebalances, starts>>
worker == <<pc, hand, buffered>>
group == <<owner, position, committed>>
history == <<discarded, abandoned, unclean>>
vars == <<config, running, worker, group, output, bounds, history>>

-----------------------------------------------------------------------------
\* A record is its partition and offset.
Offsets == 0 .. MaxRecords - 1
Records == Partitions \X Offsets
Kind(r) == log[r[1]][r[2] + 1]

JavaClient == app \in {"java", "scala"}

Zero == [p \in Partitions |-> 0]
NoResults == [r \in Records |-> 0]

Init ==
    /\ app \in Apps /\ log \in Logs /\ running = TRUE
    /\ pc = [w \in Workers |-> "poll"]
    /\ hand = [w \in Workers |-> {}] /\ buffered = [w \in Workers |-> NoResults]
    /\ owner = [p \in Partitions |-> NoOne]
    /\ position = Zero /\ committed = Zero
    /\ output = NoResults
    /\ faults = 0 /\ rebalances = 0 /\ starts = 0
    /\ discarded = {} /\ abandoned = {} /\ unclean = Zero

Fault == faults < MaxFaults /\ faults' = faults + 1 /\ UNCHANGED <<rebalances, starts>>
NoFault == UNCHANGED bounds

-----------------------------------------------------------------------------
(* Faulty variants of operators below, each a slip the code could have     *)
(* made.  No specification uses them: they show that a property can fail.  *)

StopsInBatch(w, r) ==
    IF ~running THEN "closing" ELSE IF hand[w] # {r} THEN "handle" ELSE "poll"
StopsNowhere(w, r) == "handle"
CommitsNothing(w) == UNCHANGED committed

-----------------------------------------------------------------------------
(* The group and the clients, external.                                    *)

\* A partition without a worker goes to one that polls, which starts at the committed offset,
\* or at the first there is (auto.offset.reset is earliest).
Assign(p, w) ==
    /\ owner[p] = NoOne /\ pc[w] = "poll"
    /\ owner' = [owner EXCEPT ![p] = w]
    /\ position' = [position EXCEPT ![p] = committed[p]]
    /\ UNCHANGED <<config, running, worker, committed, output, bounds, history>>

\* When the client of w may commit, and give partitions back.
CommitsNow(w) == pc[w] = "poll" \/ (app = "ruby" /\ pc[w] = "handle")

Owned(w) == {p \in Partitions : owner[p] = w}

\* The client of w commits its positions.
Commits(w) == committed' = [p \in Partitions |->
                               IF p \in Owned(w) THEN position[p] ELSE committed[p]]

AutoCommit(w) ==
    /\ CommitsNow(w) /\ \E p \in Owned(w) : position[p] # committed[p]
    /\ Commits(w)
    /\ UNCHANGED <<config, running, worker, owner, position, output, bounds, history>>

\* The partitions of the workers in W are free again, for others to take over at the committed
\* offset: with a commit ...
Frees(W) == owner' = [p \in Partitions |-> IF owner[p] \in W THEN NoOne ELSE owner[p]]
Leaves(w) == Frees({w}) /\ Commits(w) /\ UNCHANGED <<position, unclean>>

\* ... or without.
IsTakenFrom(W) ==
    /\ Frees(W)
    /\ position' = [p \in Partitions |-> IF owner[p] \in W THEN committed[p] ELSE position[p]]
    /\ unclean' = [p \in Partitions |-> unclean[p] + IF owner[p] \in W THEN 1 ELSE 0]
    /\ UNCHANGED committed

\* A rebalance: w gives its partitions back.
Revoke(w) ==
    /\ CommitsNow(w) /\ Owned(w) # {} /\ rebalances < MaxRebalances
    /\ rebalances' = rebalances + 1
    /\ Leaves(w)
    /\ UNCHANGED <<config, running, worker, output, faults, starts, discarded, abandoned>>

\* w has not polled for max.poll.interval.ms: the group takes its partitions away.  A worker that
\* is only slow goes on with what it has in hand and in the buffer.
Expel(w) ==
    /\ Owned(w) # {}
    /\ (pc[w] = "hung" /\ NoFault) \/ (pc[w] \in {"handle", "closing"} /\ Fault)
    /\ IsTakenFrom({w})
    /\ UNCHANGED <<config, running, worker, output, discarded, abandoned>>

\* The records of which the producer of w has a result.
Held(w) == {r \in Records : buffered[w][r] > 0}

\* The producer of w delivers a result, or gives it up, which nobody looks at.
Deliver(w, r) ==
    /\ r \in Held(w)
    /\ buffered' = [buffered EXCEPT ![w][r] = @ - 1]
    /\ \/ output' = [output EXCEPT ![r] = @ + 1] /\ NoFault /\ UNCHANGED discarded
       \/ Fault /\ discarded' = discarded \cup {r} /\ UNCHANGED output
    /\ UNCHANGED <<config, running, pc, hand, group, abandoned, unclean>>

-----------------------------------------------------------------------------
(* A worker.                                                               *)

BatchLimit == IF JavaClient THEN MaxPoll ELSE 1

\* Records of the partitions of w, from their positions up to the offsets given.
Batch(w, to) == {r \in Records : r[1] \in Owned(w) /\ r[2] \in position[r[1]] .. to[r[1]] - 1}

\* poll() returns records of the worker's partitions.
Poll(w) ==
    /\ pc[w] = "poll"
    /\ \E to \in [Partitions -> 0 .. MaxRecords] :
         /\ \A p \in Partitions :
              to[p] \in position[p] .. IF p \in Owned(w) THEN Len(log[p]) ELSE position[p]
         /\ Cardinality(Batch(w, to)) \in 1 .. BatchLimit
         /\ hand' = [hand EXCEPT ![w] = Batch(w, to)]
         /\ position' = to
    /\ pc' = [pc EXCEPT ![w] = "handle"]
    /\ UNCHANGED <<config, running, buffered, owner, committed, output, bounds, history>>

\* The records of a partition are taken in their order.
NextRecord(w, r) == pc[w] = "handle" /\ r \in hand[w] /\ <<r[1], r[2] - 1>> \notin hand[w]

\* What becomes of a record: readVarint of java reads -1 for ever at the end of a truncated
\* payload, scala's is 0 there; in ruby a nil, the payload or a byte of it, raises an error.
Effect(r) ==
    CASE Kind(r) = "value" -> "result"
      [] Kind(r) = "null"  -> IF JavaClient THEN "nothing" ELSE "dies"
      [] OTHER             -> IF app = "java" THEN "hangs"
                              ELSE IF app = "scala" THEN "result" ELSE "dies"

\* At the end of a batch scala's worker looks whether it is to go on.
AfterRecord(w, r) ==
    IF hand[w] # {r} THEN "handle" ELSE IF running THEN "poll" ELSE "closing"

Sum(w, r) ==
    /\ NextRecord(w, r) /\ Effect(r) \in {"result", "nothing"}
    /\ buffered' = [buffered EXCEPT ![w][r] = IF Effect(r) = "result" THEN @ + 1 ELSE @]
    /\ hand' = [hand EXCEPT ![w] = @ \ {r}]
    /\ pc' = [pc EXCEPT ![w] = AfterRecord(w, r)]
    /\ UNCHANGED <<config, running, group, output, bounds, history>>

Hang(w, r) ==
    /\ NextRecord(w, r) /\ Effect(r) = "hangs"
    /\ pc' = [pc EXCEPT ![w] = "hung"]
    /\ UNCHANGED <<config, running, hand, buffered, group, output, bounds, history>>

\* The threads or processes of W are gone, and what their producers held with them.
Gone(W) ==
    /\ pc' = [w \in Workers |-> IF w \in W THEN "ended" ELSE pc[w]]
    /\ hand' = [w \in Workers |-> IF w \in W THEN {} ELSE hand[w]]
    /\ buffered' = [w \in Workers |-> IF w \in W THEN NoResults ELSE buffered[w]]
    /\ discarded' = discarded \cup UNION {Held(w) : w \in W}
    /\ UNCHANGED <<config, running, output>>

\* The end of a ruby process: on its way out the client may commit.
Death(w) ==
    /\ Gone({w}) /\ (Leaves(w) \/ IsTakenFrom({w}))
    /\ abandoned' = abandoned \cup hand[w]

DiesOnRecord(w, r) == NextRecord(w, r) /\ Effect(r) = "dies" /\ Death(w) /\ NoFault

\* poll() or produce() raises an error, or a signal or a crash ends the process.
Dies(w) == app = "ruby" /\ pc[w] \in {"poll", "handle"} /\ Death(w) /\ Fault

\* scala's flag was cleared while poll() returned nothing.
LeaveLoop(w) ==
    /\ JavaClient /\ pc[w] = "poll" /\ ~running
    /\ pc' = [pc EXCEPT ![w] = "closing"]
    /\ UNCHANGED <<config, running, hand, buffered, group, output, bounds, history>>

\* poll() or producer.send() throws: the catch is around the loop, so what is left of the batch
\* is not looked at again.
Throws(w) ==
    /\ JavaClient /\ pc[w] \in {"poll", "handle"} /\ Fault
    /\ pc' = [pc EXCEPT ![w] = "closing"]
    /\ hand' = [hand EXCEPT ![w] = {}]
    /\ abandoned' = abandoned \cup hand[w]
    /\ UNCHANGED <<config, running, buffered, group, output, discarded, unclean>>

\* producer.close() waits for its deliveries; consumer.close() then commits the position, which
\* is behind the whole of the last batch, or fails to.
Close(w) ==
    /\ pc[w] = "closing" /\ Held(w) = {}
    /\ pc' = [pc EXCEPT ![w] = "ended"]
    /\ (Leaves(w) /\ NoFault) \/ (IsTakenFrom({w}) /\ Fault)
    /\ UNCHANGED <<config, running, hand, buffered, output, discarded, abandoned>>

Work(w) ==
    \/ Poll(w) \/ LeaveLoop(w) \/ Close(w)
    \/ \E r \in Records : Sum(w, r) \/ Hang(w, r) \/ DiesOnRecord(w, r)

-----------------------------------------------------------------------------
(* The process of java and scala.                                          *)

Ended(w) == pc[w] = "ended"

\* SIGTERM or SIGINT: scala's shutdown hook clears the flag.
Hook ==
    /\ app = "scala" /\ running /\ Fault
    /\ running' = FALSE
    /\ UNCHANGED <<config, worker, group, output, history>>

\* The JVM ends with whatever its workers are doing: by a crash, by a signal in java, which has
\* no hook, or because scala's hook is through; it waits for no worker.
Halts ==
    /\ JavaClient /\ \E w \in Workers : ~Ended(w)
    /\ (~running /\ NoFault) \/ Fault
    /\ Gone(Workers) /\ IsTakenFrom(Workers)
    /\ UNCHANGED abandoned

\* Somebody starts the program again.
Restart ==
    /\ \A w \in Workers : Ended(w)
    /\ starts < MaxStarts /\ starts' = starts + 1
    /\ running' = TRUE
    /\ pc' = [w \in Workers |-> "poll"]
    /\ UNCHANGED <<config, hand, buffered, group, output, faults, rebalances, history>>

Next ==
    \/ \E w \in Workers :
         \/ Work(w) \/ Throws(w) \/ Dies(w)
         \/ AutoCommit(w) \/ Revoke(w) \/ Expel(w)
         \/ \E p \in Partitions : Assign(p, w)
         \/ \E r \in Records : Deliver(w, r)
    \/ Hook \/ Halts \/ Restart

\* Workers run, deliveries get an outcome, the group takes partitions from a worker that hangs
\* and hands out those without a worker.  Nobody promises a commit, a fault (a throw, the end of a
\* process, an expulsion of a worker that is slow), or a restart.
Fairness ==
    /\ \A w \in Workers :
         /\ WF_vars(Work(w)) /\ WF_vars(pc[w] = "hung" /\ Expel(w))
         /\ WF_vars(\E r \in Records : Deliver(w, r))
    /\ \A p \in Partitions : WF_vars(\E w \in Workers : Assign(p, w))

Spec == Init /\ [][Next]_vars /\ Fairness

-----------------------------------------------------------------------------
\* Every variable has its type.
TypeOK ==
    /\ app \in Apps /\ log \in Logs /\ running \in BOOLEAN
    /\ pc \in [Workers -> {"poll", "handle", "hung", "closing", "ended"}]
    /\ hand \in [Workers -> SUBSET Records]
    /\ \A w \in Workers : hand[w] # {} <=> pc[w] \in {"handle", "hung"}
    /\ buffered \in [Workers -> [Records -> Nat]]
    /\ owner \in [Partitions -> Workers \cup {NoOne}]
    /\ \A p \in Partitions : owner[p] # NoOne => ~Ended(owner[p])
    /\ {position, committed} \subseteq [Partitions -> Nat]
    /\ \A p \in Partitions :
         /\ committed[p] <= position[p] /\ position[p] <= Len(log[p])
         /\ owner[p] = NoOne => committed[p] = position[p]
    /\ output \in [Records -> Nat] /\ unclean \in [Partitions -> Nat]
    /\ discarded \subseteq Records /\ abandoned \subseteq Records
    /\ faults <= MaxFaults /\ rebalances <= MaxRebalances /\ starts <= MaxStarts

\* The records of the topic that call for a result.
Wanted == {r \in Records : r[2] < Len(log[r[1]]) /\ Kind(r) # "null"}

\* A record below the committed offset that will not have a result: none is there, none waits
\* in a buffer, and no worker has the record in hand.
Missing ==
    {r \in Wanted :
        /\ r[2] < committed[r[1]] /\ output[r] = 0
        /\ \A w \in Workers : r \notin Held(w) /\ (Ended(w) \/ r \notin hand[w])}

\* Offsets are committed before results are delivered, and by a close also before records are
\* summed.  Whatever crashes, halts, hangs or is expelled, a committed record has no result only
\* if a producer had it and gave it up, or if an error ended a worker (a throw in java and scala,
\* the end of a process in ruby) while it had the record in hand.
LostBound == Missing \subseteq discarded \cup abandoned

\* The results of r that wait in buffers, each by its worker and its number there.
Buffering(r) == UNION {{w} \X (1 .. buffered[w][r]) : w \in Workers}

\* A record gets a second result only if its partition has lost a worker without a commit.
TwiceBound ==
    \A r \in Wanted : output[r] + Cardinality(Buffering(r)) <= 1 + unclean[r[1]]

\* Unless no worker is left, every record gets its result in the end: the partitions of workers
\* that ended, died or hang go to another.
Done(r) == output[r] > 0 \/ r \in discarded \cup abandoned
NobodyLeft == \A w \in Workers : pc[w] \in {"ended", "hung"}
Progress == <>(NobodyLeft \/ \A r \in Wanted : Done(r))
=============================================================================
