-------------------------- MODULE GroupBenchmark --------------------------
(***************************************************************************)
(* The benchmarks whose workers share a consumer group and end when a      *)
(* shared counter reaches TOTAL_RECORDS:                                   *)
(*   "rust"    stream-test-rust/src/bin/processor.rs                       *)
(*   "go"      stream-test-go/cmd/processor/main.go                        *)
(*   "c"       stream-test-c/src/main.c                                    *)
(*   "python"  stream-test-python/bin/processor.py                         *)
(*   "java"    StreamSumBenchmark.java of stream-test-java                 *)
(* Phase 1, if the environment asks for it: main hands TOTAL_RECORDS       *)
(* records to the queue of a producer, and flushes it.  Phase 2: a worker  *)
(* polls a record, starts the clock, hands its result to the queue of its  *)
(* producer and counts it, at once (c, java) or in batches (rust, go,      *)
(* python).  A background thread of a producer delivers its queue.         *)
(* Records and results are counted, not told apart, but for a record that  *)
(* has no value or is cut short.  The clients and the broker are external: *)
(* each record goes to one worker of the group.                            *)
(***************************************************************************)
EXTENDS Integers, FiniteSets

CONSTANTS
    Workers,
    Benchmarks,    \* the implementations that are run
    LoadModes,     \* whether Phase 1 is run: BENCHMARK is set
    Leftovers,     \* how many records older runs have left in the topic
    TotalRecords,
    FlushAt,       \* the local count that is published (1000)
    QueueLimit,    \* records a producer's queue takes
    MaxFaults      \* deliveries that fail, flushes and waits for room that time out, workers
                   \* that fail, records that are not lists

ASSUME BenchmarkType ==
    /\ IsFiniteSet(Workers) /\ Workers # {}
    /\ Benchmarks \subseteq {"rust", "go", "c", "python", "java"}
    /\ LoadModes \subseteq BOOLEAN /\ Leftovers \subseteq Nat
    /\ TotalRecords \in Nat /\ MaxFaults \in Nat
    /\ FlushAt \in Nat \ {0} /\ QueueLimit \in Nat \ {0}

VARIABLES
    impl, loads, older, \* what runs, with or without Phase 1, on what older runs have left
    seen,          \* of what they have left, records the group has committed
    main,          \* where the main thread is
    produced,      \* records Phase 1 has generated
    pending,       \* of these, in the queue of its producer
    lost,          \* of these, rejected by a full queue or given up by the producer
    pc,            \* where each worker is
    unread,        \* records of the topic no worker has polled
    local,         \* local_counter of each worker
    queue,         \* results in the queue of each worker's producer
    output,        \* results in the output topic
    dropped,       \* results rejected or given up
    wasted,        \* records that a worker has polled and then left without a result
    counter,       \* the shared counter
    trigger,       \* the flag of the first record has been set
    started,       \* the start time has been written
    faults

config == <<impl, loads, older, seen>>
load == <<produced, pending, lost>>
work == <<local, queue, output, dropped, wasted, counter>>
clock == <<trigger, started>>
vars == <<config, main, load, pc, unread, work, clock, faults>>

-----------------------------------------------------------------------------
Batching == impl \in {"rust", "go", "python"}

\* The shared counter is tested before the first poll; rust and java poll first.
TestsFirst == impl \in {"go", "c", "python"}

\* main has exited, or a panic or an exception has ended it, and every thread with it.
Exited == main \in {"reported", "died"}

\* Records in the topic, polled or not.
Backlog == older + produced - pending - lost

\* java has no mode without Phase 1.  The group of each run is new, except that rust makes its
\* name from Instant::now().elapsed(), a few nanoseconds, and may meet the group of an older run.
Init ==
    /\ impl \in Benchmarks /\ older \in Leftovers
    /\ loads \in LoadModes /\ (impl = "java" => loads)
    /\ seen \in 0 .. older /\ (impl # "rust" => seen = 0)
    /\ main = IF loads THEN "load" ELSE "loaded"
    /\ produced = 0 /\ pending = 0 /\ lost = 0
    /\ pc = [w \in Workers |-> "new"]
    /\ unread = older - seen
    /\ local = [w \in Workers |-> 0]
    /\ queue = [w \in Workers |-> 0]
    /\ output = 0 /\ dropped = 0 /\ wasted = 0 /\ counter = 0
    /\ trigger = FALSE /\ started = FALSE
    /\ faults = 0

-----------------------------------------------------------------------------
(* Faulty variants of operators below, each a slip the code could have     *)
(* made.  No specification uses them: they show that a property can fail.  *)

NeverReached == counter > TotalRecords
LocalKept(w) == local[w] + 1
NothingFlushed(w) == TRUE
AnyEnded == \E w \in Workers : pc[w] \in {"ended", "died"}
GivesUp == TRUE

-----------------------------------------------------------------------------
(* Phase 1: main and its producer.                                         *)

Fault == faults < MaxFaults /\ faults' = faults + 1
NoFault == UNCHANGED faults

LoadSend ==
    /\ main = "load" /\ produced < TotalRecords /\ pending < QueueLimit
    /\ produced' = produced + 1 /\ pending' = pending + 1
    /\ UNCHANGED <<config, main, lost, pc, unread, work, clock, faults>>

\* What a full queue does to a send: rust and C ignore the error; go sleeps and tries again,
\* and java's send() waits, though not for ever.
IgnoresFullQueue == impl \in {"rust", "c"}

LoadRejected ==
    /\ main = "load" /\ produced < TotalRecords /\ pending = QueueLimit
    /\ IF impl = "python"        \* BufferError
       THEN main' = "died" /\ NoFault /\ UNCHANGED <<produced, lost>>
       ELSE /\ (IgnoresFullQueue /\ NoFault) \/ (impl = "java" /\ Fault)
            /\ produced' = produced + 1 /\ lost' = lost + 1 /\ UNCHANGED main
    /\ UNCHANGED <<config, pending, pc, unread, work, clock>>

\* The producer's thread delivers a record, or gives it up, which nobody looks at.
LoadDeliver ==
    /\ pending > 0 /\ ~Exited
    /\ pending' = pending - 1
    /\ \/ unread' = unread + 1 /\ NoFault /\ UNCHANGED lost
       \/ Fault /\ lost' = lost + 1 /\ UNCHANGED unread
    /\ UNCHANGED <<config, main, produced, pc, work, clock>>

LoadEnds ==
    /\ main = "load" /\ produced = TotalRecords
    /\ main' = "flush"
    /\ UNCHANGED <<config, load, pc, unread, work, clock, faults>>

\* flush() returns.  If it timed out, rust panics; go and C do not look, and discard the queue
\* with the producer.
LoadFlush ==
    /\ main = "flush"
    /\ \/ pending = 0 /\ main' = "loaded" /\ NoFault /\ UNCHANGED load
       \/ impl = "rust" /\ pending > 0 /\ Fault /\ main' = "died" /\ UNCHANGED load
       \/ /\ impl \in {"go", "c"} /\ pending > 0 /\ Fault
          /\ lost' = lost + pending /\ pending' = 0
          /\ main' = "loaded" /\ UNCHANGED produced
    /\ UNCHANGED <<config, pc, unread, work, clock>>

\* python reads the clock before it starts its processes, rust and go once all run.
StartWorkers ==
    /\ main = "loaded"
    /\ main' = IF impl \in {"rust", "go"} THEN "starting" ELSE "running"
    /\ pc' = [w \in Workers |-> "setup"]
    /\ started' = (impl = "python")
    /\ UNCHANGED <<config, load, unread, work, trigger, faults>>

LoadPhase == LoadSend \/ LoadRejected \/ LoadEnds \/ LoadFlush \/ StartWorkers

-----------------------------------------------------------------------------
(* Phase 2: a worker.                                                      *)

\* The clients of the worker are made, and the topic subscribed to.
Setup(w) ==
    /\ ~Exited /\ pc[w] = "setup"
    /\ pc' = [pc EXCEPT ![w] = IF TestsFirst THEN "test" ELSE "poll"]
    /\ UNCHANGED <<config, main, load, unread, work, clock, faults>>

\* Or not.  rust's unwrap() ends the thread, python's exception the process.  java's constructors
\* are outside the try: the latch is not counted down.  go and C go on with a null pointer, which
\* ends the program.
SetupFails(w) ==
    /\ ~Exited /\ pc[w] = "setup" /\ Fault
    /\ IF impl \in {"go", "c"}
       THEN main' = "died" /\ UNCHANGED pc
       ELSE /\ pc' = [pc EXCEPT ![w] = IF impl = "java" THEN "gone" ELSE "died"]
            /\ UNCHANGED main
    /\ UNCHANGED <<config, load, unread, work, clock>>

Reached == counter >= TotalRecords

\* The test of the shared counter that ends the loop.
Test(w) ==
    /\ ~Exited /\ pc[w] = "test"
    /\ pc' = [pc EXCEPT ![w] = IF Reached THEN "flush" ELSE "poll"]
    /\ UNCHANGED <<config, main, load, unread, work, clock, faults>>

PollRecord(w) ==
    /\ ~Exited /\ pc[w] = "poll" /\ unread > 0
    /\ unread' = unread - 1
    /\ pc' = [pc EXCEPT ![w] = "clock"]
    /\ UNCHANGED <<config, main, load, work, clock, faults>>

\* Nothing, or an error, within the timeout of poll(): java tests the counter only here.
PollNothing(w) ==
    /\ ~Exited /\ pc[w] = "poll"
    /\ pc' = [pc EXCEPT ![w] = IF impl # "java" THEN "test"
                               ELSE IF Reached THEN "flush" ELSE "poll"]
    /\ UNCHANGED <<config, main, load, unread, work, clock, faults>>

\* Where setting the flag leads: in C the worker that set it reads the clock next; in java the
\* flag is the time; rust's is not used; go and python have none.
AfterTrigger(w) == IF impl = "c" /\ ~trigger THEN "stamp" ELSE "send"

Triggers == trigger' = TRUE /\ started' = (started \/ impl = "java")

SetTrigger(w) ==
    /\ ~Exited /\ pc[w] = "clock"
    /\ pc' = [pc EXCEPT ![w] = AfterTrigger(w)]
    /\ Triggers
    /\ UNCHANGED <<config, main, load, unread, work, faults>>

\* What a record that an older program has left does if it is no list: C takes what is missing
\* for zeros, sends the sum and counts it, and so does java if a value is cut short (SetTrigger);
\* java and rust pass over a record without a value; rust's thread and python's process end on
\* an index out of bounds (python's also on None), and go's panic ends the program.
BadRecord ==
    CASE impl = "c"    -> {}
      [] impl = "java" -> {"skip"}
      [] impl = "rust" -> {"skip", "die"}
      [] impl = "python" -> {"die"}
      [] OTHER         -> {"exit"}

Malformed(w) ==
    /\ ~Exited /\ pc[w] = "clock" /\ older > 0 /\ Fault
    /\ \E effect \in BadRecord :
         IF effect = "exit"
         THEN main' = "died" /\ UNCHANGED <<pc, wasted>>
         ELSE /\ pc' = [pc EXCEPT ![w] = IF effect = "die" THEN "died"
                                         ELSE IF impl = "java" THEN "poll" ELSE "test"]
              /\ wasted' = wasted + 1
              /\ UNCHANGED main
    /\ Triggers
    /\ UNCHANGED <<config, load, unread, local, queue, output, dropped, counter>>

\* clock_gettime writes start_time, a plain struct.
Stamp(w) ==
    /\ ~Exited /\ pc[w] = "stamp"
    /\ started' = TRUE
    /\ pc' = [pc EXCEPT ![w] = "send"]
    /\ UNCHANGED <<config, main, load, unread, work, trigger, faults>>

\* The producer's queue takes the result.
Send(w) ==
    /\ ~Exited /\ pc[w] = "send" /\ queue[w] < QueueLimit
    /\ queue' = [queue EXCEPT ![w] = @ + 1]
    /\ pc' = [pc EXCEPT ![w] = "count"]
    /\ UNCHANGED <<config, main, load, unread, local, output, dropped, wasted, counter, clock,
                   faults>>

\* The queue is full: as for the load, but python's BufferError ends this process only.
SendRejected(w) ==
    /\ ~Exited /\ pc[w] = "send" /\ queue[w] = QueueLimit
    /\ IF impl = "python"
       THEN /\ pc' = [pc EXCEPT ![w] = "died"] /\ NoFault
            /\ wasted' = wasted + 1 /\ UNCHANGED dropped
       ELSE /\ (IgnoresFullQueue /\ NoFault) \/ (impl = "java" /\ Fault)
            /\ pc' = [pc EXCEPT ![w] = "count"]
            /\ dropped' = dropped + 1 /\ UNCHANGED wasted
    /\ UNCHANGED <<config, main, load, unread, local, queue, output, counter, clock>>

\* java's poll() or send() throws: the finally block closes both clients and counts the latch
\* down, as if the worker had come to its end.  With the record in hand what follows it in its
\* batch is left without a result: close() commits behind the batch.
Throws(w) ==
    /\ ~Exited /\ impl = "java" /\ Fault
    /\ \/ pc[w] = "poll" /\ UNCHANGED <<unread, wasted>>
       \/ /\ pc[w] = "send"
          /\ \E batch \in 1 .. unread + 1 :
               unread' = unread + 1 - batch /\ wasted' = wasted + batch
    /\ pc' = [pc EXCEPT ![w] = "closing"]
    /\ UNCHANGED <<config, main, load, local, queue, output, dropped, counter, clock>>

\* What is left in local_counter after it was added to the shared counter (rust does not reset
\* it when it leaves the loop, and does not read it again).
LocalAfterPublish(w) == 0

\* The result is counted; rust and java also test what the addition returned.
Count(w) ==
    /\ ~Exited /\ pc[w] = "count"
    /\ IF Batching /\ local[w] + 1 < FlushAt
       THEN /\ local' = [local EXCEPT ![w] = @ + 1]
            /\ UNCHANGED counter
            /\ pc' = [pc EXCEPT ![w] = "test"]
       ELSE /\ counter' = counter + local[w] + 1
            /\ local' = [local EXCEPT ![w] = LocalAfterPublish(w)]
            /\ pc' = [pc EXCEPT ![w] =
                        IF impl \in {"rust", "java"} /\ Reached' THEN "flush"
                        ELSE IF impl = "java" THEN "poll" ELSE "test"]
    /\ UNCHANGED <<config, main, load, unread, queue, output, dropped, wasted, clock, faults>>

\* The producer has delivered everything.
Flushed(w) == queue[w] = 0

\* flush() or close() returns; go's and C's may time out.  rust calls neither: its producer is
\* dropped with what it holds.
FlushReturns(w) ==
    /\ ~Exited /\ pc[w] = "flush"
    /\ ((Flushed(w) \/ impl = "rust") /\ NoFault) \/ (impl \in {"go", "c"} /\ Fault)
    /\ pc' = [pc EXCEPT ![w] = "ended"]
    /\ UNCHANGED <<config, main, load, unread, work, clock>>

\* The close() of java's finally block returns.
CloseReturns(w) ==
    /\ ~Exited /\ pc[w] = "closing" /\ Flushed(w)
    /\ pc' = [pc EXCEPT ![w] = "died"]
    /\ UNCHANGED <<config, main, load, unread, work, clock, faults>>

\* The producer's thread delivers a result, or gives it up.
Deliver(w) ==
    /\ ~Exited /\ queue[w] > 0 /\ pc[w] \notin {"ended", "died"}
    /\ queue' = [queue EXCEPT ![w] = @ - 1]
    /\ \/ output' = output + 1 /\ NoFault /\ UNCHANGED dropped
       \/ Fault /\ dropped' = dropped + 1 /\ UNCHANGED output
    /\ UNCHANGED <<config, main, load, pc, unread, local, wasted, counter, clock>>

Work(w) ==
    \/ Setup(w) \/ Test(w) \/ PollRecord(w) \/ SetTrigger(w) \/ Stamp(w) \/ Send(w)
    \/ SendRejected(w) \/ Count(w) \/ FlushReturns(w) \/ CloseReturns(w)

Fails(w) == SetupFails(w) \/ Malformed(w) \/ Throws(w)

-----------------------------------------------------------------------------
(* Phase 2: main.                                                          *)

\* Every thread or process is joined, whatever it returns, or has counted the latch down.
AllEnded == \A w \in Workers : pc[w] \in {"ended", "died"}

\* rust and go read the clock in main, after the workers have been started.
StartClock ==
    /\ main = "starting"
    /\ main' = "running" /\ started' = TRUE
    /\ UNCHANGED <<config, load, pc, unread, work, trigger, faults>>

\* What main waits for: the counter (go), the workers (rust, java), or one and the other.
MainDone ==
    /\ impl \in {"go", "c", "python"} => Reached
    /\ impl # "go" => AllEnded

Report ==
    /\ main = "running" /\ MainDone
    /\ main' = "reported"
    /\ UNCHANGED <<config, load, pc, unread, work, clock, faults>>

Terminated == Exited /\ UNCHANGED vars

Next ==
    \/ LoadPhase \/ LoadDeliver
    \/ \E w \in Workers : Work(w) \/ Fails(w) \/ PollNothing(w) \/ Deliver(w)
    \/ StartClock \/ Report \/ Terminated

\* Threads run and queues get delivered; polls may come back empty, but not those of all
\* workers forever while there are records.  Nobody promises a fault: that a worker fails, or
\* that a flush or a wait for room times out.
Fairness ==
    /\ WF_vars(LoadPhase /\ NoFault) /\ WF_vars(LoadDeliver)
    /\ \A w \in Workers :
         WF_vars(Work(w) /\ NoFault) /\ WF_vars(PollNothing(w)) /\ WF_vars(Deliver(w))
    /\ SF_vars(\E w \in Workers : PollRecord(w))
    /\ WF_vars(StartClock) /\ WF_vars(Report)

Spec == Init /\ [][Next]_vars /\ Fairness

-----------------------------------------------------------------------------
\* The sum of f over the workers, as the number of pairs of a worker and one of its units.
Units(f) == UNION {{w} \X (1 .. f[w]) : w \in Workers}
Total(f) == Cardinality(Units(f))

\* Results whose send has been called.
Sent == Total(queue) + output + dropped

\* Every variable has its type.
TypeOK ==
    /\ impl \in Benchmarks /\ loads \in BOOLEAN /\ older \in Leftovers /\ seen \in 0 .. older
    /\ main \in {"load", "flush", "loaded", "starting", "running", "reported", "died"}
    /\ produced \in 0 .. TotalRecords /\ pending \in 0 .. QueueLimit
    /\ pending + lost <= produced
    /\ pc \in [Workers -> {"new", "setup", "test", "poll", "clock", "stamp", "send", "count",
                           "flush", "ended", "closing", "died", "gone"}]
    /\ unread \in 0 .. Backlog - seen
    /\ local \in [Workers -> 0 .. FlushAt - 1]
    /\ queue \in [Workers -> 0 .. QueueLimit]
    /\ {output, dropped, wasted, counter} \subseteq 0 .. Backlog
    /\ {trigger, started} \subseteq BOOLEAN
    /\ faults \in 0 .. MaxFaults

\* main has come through Phase 1, or skipped it.
Loaded == main \in {"loaded", "starting", "running", "reported"}

\* go's, python's and java's workers start on a topic with all records of the load, however
\* slowly they were delivered, unless the producer gave one up or flush timed out.
LoadComplete ==
    Loaded /\ loads /\ impl \notin {"rust", "c"} /\ faults = 0 => Backlog = older + TotalRecords

\* Every result sent is counted once, published or in one local counter: batches of concurrent
\* workers are neither lost nor added twice.
CountedOnce ==
    counter + Total(local) + Cardinality({w \in Workers : pc[w] = "count"}) = Sent

\* What a report stands for: TOTAL_RECORDS results have been sent, unless every worker of rust or
\* java has failed; and no worker of java, of C if no flush timed out, and of python if it has not
\* failed, has left one in the queue of its producer.
AccountedAtReport ==
    main = "reported" =>
        /\ \/ Sent >= TotalRecords
           \/ impl \in {"rust", "java"} /\ \A w \in Workers : pc[w] = "died"
        /\ impl \in {"java", "python"} \/ (impl = "c" /\ faults = 0) =>
               \A w \in Workers : queue[w] = 0 \/ (impl = "python" /\ pc[w] = "died")

\* Whatever worker has set the flag of the first record in C, and whenever main of rust and go
\* has come to read the clock: a report of anything sent has a start time.
TimedAtReport == main = "reported" /\ Sent > 0 => started

\* The group has so many records to read that those left without a result and the counts the
\* workers do not publish do not matter; a benchmark that counts at once has none of these.
Enough ==
    Backlog - seen - wasted >=
        TotalRecords + IF Batching THEN Cardinality(Workers) * (FlushAt - 1) ELSE 0

\* The load ends, and Phase 2 ends if the load has left enough records, though workers fail:
\* unless all of them do, or one of java's without counting the latch down.
Terminates ==
    <>(\/ Exited
       \/ (\A w \in Workers : pc[w] = "died") \/ (\E w \in Workers : pc[w] = "gone")
       \/ (Loaded /\ ~Enough))

\* What docs/streaming-performance-spec.md says of the two phases, "Produce 50,000,000 messages"
\* and "Consume and process exactly 50,000,000 messages": what a load has left in the topic is
\* enough to come to the end.
TerminatesOnExactLoad == (Loaded /\ loads) ~> main = "reported"

\* What it says of the timer, "Start a timer" before "Consume and process": no result is sent
\* before there is a start time.
TimerFirst == Sent > 0 => started

\* And "Stop the timer when the 50,000,000th result is produced": by then TOTAL_RECORDS results
\* are in the output topic.
ProducedAtReport == main = "reported" => output >= TotalRecords
=============================================================================
