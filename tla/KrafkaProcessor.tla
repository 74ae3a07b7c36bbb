------------------------- MODULE KrafkaProcessor -------------------------
(***************************************************************************)
(* Phase 2 of stream-test-krafka/src/bin/processor.rs.  Every worker is an *)
(* OS thread with a Tokio runtime of its own and owns one partition of the *)
(* input topic.  Inside a worker two tasks run concurrently: the consume   *)
(* loop polls the partition, sums each record and sends the encoded sum    *)
(* into a bounded channel; the produce task takes buffers from the channel,*)
(* keeps a window of sends in flight and counts the sends that resolve.    *)
(* The workers share two atomics, PROCESSED_COUNTER and START_NANOS; main  *)
(* joins the workers, stops the reporter and prints the result.            *)
(*                                                                         *)
(* A record is its offset in the partition of its worker: the sum computed *)
(* from it, the buffer in the channel and the send in flight all carry the *)
(* offset they come from.                                                  *)
(***************************************************************************)
EXTENDS Integers, Sequences, FiniteSets, Functions

CONSTANTS
    Workers,       \* the worker threads, one partition each
    Log,           \* the records of each worker's partition, in offset order
    TotalRecords,  \* TOTAL_RECORDS
    Window,        \* WORKER_WINDOW: channel capacity and in-flight limit
    FlushAt,       \* completions a produce task counts locally before it publishes
    EmptyLimit,    \* consecutive empty polls that end the consume loop
    Preloaded,     \* TRUE: the topic is complete before Phase 2 (benchmark)
    Fragile,       \* workers whose start-up calls to Kafka may fail
    MaxSlow,       \* empty polls in a row the broker answers though it has records
    MaxErrs,       \* failed polls of one worker
    MaxFails,      \* sends the broker rejects, over all workers
    None           \* START_NANOS = 0

RecordKind == {"value", "null", "truncated"}

ASSUME LogType == Log \in [Workers -> Seq(RecordKind)]
ASSUME WorkersFinite == IsFiniteSet(Workers) /\ None \notin Workers
ASSUME LimitsType ==
    /\ TotalRecords \in Nat
    /\ Window \in Nat \ {0} /\ FlushAt \in Nat \ {0} /\ EmptyLimit \in Nat \ {0}
    /\ MaxSlow \in Nat /\ MaxErrs \in Nat /\ MaxFails \in Nat
ASSUME EnvironmentType == Preloaded \in BOOLEAN /\ Fragile \subseteq Workers

VARIABLES
    \* the consume loop of each worker
    cpc,       \* where it is
    tracked,   \* whether its consumer tracks an offset for the partition
    fetched,   \* records polled so far: the position of the consumer
    cursor,    \* records taken from polled batches and fully handled so far
    empty,     \* consecutive_empty
    \* the produce task of each worker
    ppc,       \* where it is
    chan,      \* the mpsc channel: offsets, oldest first
    open,      \* channel_open
    inFlight,  \* the FuturesUnordered of sends: offsets
    local,     \* local_counter
    \* shared by all threads
    counter,   \* PROCESSED_COUNTER
    start,     \* START_NANOS: the worker whose clock reading it holds, or None
    main,      \* where main is
    reporter,  \* the progress thread
    \* the broker
    avail,     \* records of each partition that have been appended
    slow,      \* spurious empty polls of each worker since its last batch
    errs,      \* failed polls of each worker so far
    failed,    \* <<w, o>> whose send the broker rejected
    \* history: what the two counters stand for
    uncounted, \* offsets of each worker that are in local
    counted    \* <<w, o>> that are in counter

consumeVars == <<cpc, tracked, fetched, cursor, empty>>
produceVars == <<ppc, chan, open, inFlight, local>>
brokerVars  == <<avail, slow, errs, failed>>
history     == <<uncounted, counted>>
vars == <<consumeVars, produceVars, counter, start, main, reporter, brokerVars, history>>

-----------------------------------------------------------------------------
Offsets(w) == 1 .. Len(Log[w])

\* The records whose value is not null: one result is produced for each.
Values(w) == {o \in Offsets(w) : Log[w][o] = "value"}
AllValues == UNION {{<<w, o>> : o \in Values(w)} : w \in Workers}

\* The buffer a consume loop has encoded and not yet handed over.
Held(w) == IF cpc[w] = "send" THEN {cursor[w] + 1} ELSE {}

\* The sends of w that have resolved.
Resolved(w) == uncounted[w] \cup {o \in Offsets(w) : <<w, o>> \in counted}

-----------------------------------------------------------------------------
Init ==
    /\ cpc = [w \in Workers |-> "assign"]
    /\ tracked = [w \in Workers |-> FALSE]
    /\ fetched = [w \in Workers |-> 0]
    /\ cursor = [w \in Workers |-> 0]
    /\ empty = [w \in Workers |-> 0]
    /\ ppc = [w \in Workers |-> "none"]
    /\ chan = [w \in Workers |-> <<>>]
    /\ open = [w \in Workers |-> TRUE]
    /\ inFlight = [w \in Workers |-> {}]
    /\ local = [w \in Workers |-> 0]
    /\ counter = 0
    /\ start = None
    /\ main = "joining"
    /\ reporter = "running"
    /\ avail = [w \in Workers |-> IF Preloaded THEN Len(Log[w]) ELSE 0]
    /\ slow = [w \in Workers |-> 0]
    /\ errs = [w \in Workers |-> 0]
    /\ failed = {}
    /\ uncounted = [w \in Workers |-> {}]
    /\ counted = {}

-----------------------------------------------------------------------------
(* Faulty variants of operators below, each a slip the code could have     *)
(* made.  No specification uses them: they show that a property can fail.  *)

OneEmptyTooMany(w) == empty[w] > EmptyLimit
EmptyKept(w) == empty[w]
ClaimByStore(w) == w
ClaimNothing(w) == start
Resend(w) == cursor[w]
NoRoomCheck(w) == TRUE
PushedToFront(w) == <<cursor[w] + 1>> \o chan[w]
TxKept(w) == cpc[w] \in {"panicked", "done"}
LocalKept(w) == local[w] + 1
AnyEnded == \E w \in Workers : cpc[w] = "done"

-----------------------------------------------------------------------------
(* The consume loop of worker w.                                           *)

\* Left before each poll: the topic has been processed, by all workers together.
TotalReached == counter >= TotalRecords

\* consecutive_empty after a poll that returned records.
EmptyAfterBatch(w) == 0

\* An empty poll is the last one the loop accepts.
Drained(w) == empty[w] + 1 >= EmptyLimit

\* START_NANOS after w's compare_exchange(0, now).
StartAfterClaim(w) == IF start = None THEN w ELSE start

\* cursor after the current record has been dealt with.
CursorAfterRecord(w) == cursor[w] + 1

\* mpsc::channel(WORKER_WINDOW): send().await waits while this is FALSE.
ChannelHasRoom(w) == Len(chan[w]) < Window

\* The channel with the buffer of the current record in it.
Sent(w) == Append(chan[w], cursor[w] + 1)

\* assign() succeeds, but the offset lookup inside it may leave the partition without a
\* tracked offset.
Assign(w) ==
    /\ cpc[w] = "assign"
    /\ cpc' = [cpc EXCEPT ![w] = "seek"]
    /\ \E b \in BOOLEAN : tracked' = [tracked EXCEPT ![w] = b]
    /\ UNCHANGED <<fetched, cursor, empty, produceVars, counter, start, main, reporter,
                   brokerVars, history>>

\* seek(0), then the channel is made and the produce task spawned.
Seek(w) ==
    /\ cpc[w] = "seek"
    /\ cpc' = [cpc EXCEPT ![w] = "check"]
    /\ tracked' = [tracked EXCEPT ![w] = TRUE]
    /\ ppc' = [ppc EXCEPT ![w] = "running"]
    /\ UNCHANGED <<fetched, cursor, empty, chan, open, inFlight, local, counter, start,
                   main, reporter, brokerVars, history>>

\* One of the expect()s of the start-up fails: the thread panics before the task exists.
SetupFails(w) ==
    /\ cpc[w] \in {"assign", "seek"}
    /\ w \in Fragile
    /\ cpc' = [cpc EXCEPT ![w] = "panicked"]
    /\ UNCHANGED <<tracked, fetched, cursor, empty, produceVars, counter, start, main,
                   reporter, brokerVars, history>>

\* The top of 'consume: loop.  Breaking out drops tx and goes on to await the produce task.
CheckTotal(w) ==
    /\ cpc[w] = "check"
    /\ cpc' = [cpc EXCEPT ![w] = IF TotalReached THEN "await" ELSE "poll"]
    /\ UNCHANGED <<tracked, fetched, cursor, empty, produceVars, counter, start, main,
                   reporter, brokerVars, history>>

\* poll() returns a batch: any number of the records that follow the position.
PollRecords(w) ==
    /\ cpc[w] = "poll"
    /\ tracked[w]
    /\ \E hi \in fetched[w] + 1 .. avail[w] : fetched' = [fetched EXCEPT ![w] = hi]
    /\ empty' = [empty EXCEPT ![w] = EmptyAfterBatch(w)]
    /\ slow' = [slow EXCEPT ![w] = 0]
    /\ cpc' = [cpc EXCEPT ![w] = "timer"]
    /\ UNCHANGED <<tracked, cursor, produceVars, counter, start, main, reporter, avail, errs,
                   failed, history>>

\* poll() returns nothing within its 50ms: nothing is there, the partition is not tracked,
\* or the broker did not answer in time.  The EmptyLimit-th in a row ends the loop.
PollEmpty(w) ==
    /\ cpc[w] = "poll"
    /\ \/ /\ ~tracked[w] \/ fetched[w] = avail[w]
          /\ UNCHANGED slow
       \/ /\ tracked[w] /\ fetched[w] < avail[w] /\ slow[w] < MaxSlow
          /\ slow' = [slow EXCEPT ![w] = @ + 1]
    /\ empty' = [empty EXCEPT ![w] = @ + 1]
    /\ cpc' = [cpc EXCEPT ![w] = IF Drained(w) THEN "await" ELSE "check"]
    /\ UNCHANGED <<tracked, fetched, cursor, produceVars, counter, start, main, reporter,
                   avail, errs, failed, history>>

\* poll() fails: tried again, and consecutive_empty is neither raised nor reset.
PollFails(w) ==
    /\ cpc[w] = "poll"
    /\ errs[w] < MaxErrs
    /\ errs' = [errs EXCEPT ![w] = @ + 1]
    /\ cpc' = [cpc EXCEPT ![w] = "check"]
    /\ UNCHANGED <<tracked, fetched, cursor, empty, produceVars, counter, start, main,
                   reporter, avail, slow, failed, history>>

\* The load of START_NANOS that decides whether to claim the start of the benchmark ...
LoadStart(w) ==
    /\ cpc[w] = "timer"
    /\ cpc' = [cpc EXCEPT ![w] = IF start = None THEN "claim" ELSE "record"]
    /\ UNCHANGED <<tracked, fetched, cursor, empty, produceVars, counter, start, main,
                   reporter, brokerVars, history>>

\* ... and, after the clock is read, the compare_exchange: another worker may have won.
ClaimStart(w) ==
    /\ cpc[w] = "claim"
    /\ start' = StartAfterClaim(w)
    /\ cpc' = [cpc EXCEPT ![w] = "record"]
    /\ UNCHANGED <<tracked, fetched, cursor, empty, produceVars, counter, main, reporter,
                   brokerVars, history>>

\* for record in &records: the batch is finished.
EndBatch(w) ==
    /\ cpc[w] = "record" /\ cursor[w] = fetched[w]
    /\ cpc' = [cpc EXCEPT ![w] = "check"]
    /\ UNCHANGED <<tracked, fetched, cursor, empty, produceVars, counter, start, main,
                   reporter, brokerVars, history>>

\* The current record of the batch is of this kind.
AtRecord(w, kind) ==
    cpc[w] = "record" /\ cursor[w] < fetched[w] /\ Log[w][cursor[w] + 1] = kind

\* A record without a value is passed over.
SkipNull(w) ==
    /\ AtRecord(w, "null")
    /\ cursor' = [cursor EXCEPT ![w] = @ + 1]
    /\ UNCHANGED <<cpc, tracked, fetched, empty, produceVars, counter, start, main, reporter,
                   brokerVars, history>>

\* A value is decoded, its integers summed and the sum encoded.
DecodeValue(w) ==
    /\ AtRecord(w, "value")
    /\ cpc' = [cpc EXCEPT ![w] = "send"]
    /\ UNCHANGED <<tracked, fetched, cursor, empty, produceVars, counter, start, main,
                   reporter, brokerVars, history>>

\* read_varint indexes past the end of a payload that is too short: the thread panics.
DecodePanics(w) ==
    /\ AtRecord(w, "truncated")
    /\ cpc' = [cpc EXCEPT ![w] = "panicked"]
    /\ UNCHANGED <<tracked, fetched, cursor, empty, produceVars, counter, start, main,
                   reporter, brokerVars, history>>

\* tx.send(buf).await: waits for room; a channel whose receiver is gone ends the loop.
SendBuffer(w) ==
    /\ cpc[w] = "send"
    /\ IF ppc[w] # "running"
       THEN /\ cpc' = [cpc EXCEPT ![w] = "await"]
            /\ UNCHANGED <<cursor, chan>>
       ELSE /\ ChannelHasRoom(w)
            /\ chan' = [chan EXCEPT ![w] = Sent(w)]
            /\ cursor' = [cursor EXCEPT ![w] = CursorAfterRecord(w)]
            /\ cpc' = [cpc EXCEPT ![w] = "record"]
    /\ UNCHANGED <<tracked, fetched, empty, ppc, open, inFlight, local, counter, start, main,
                   reporter, brokerVars, history>>

\* produce_task.await returns and the thread ends.
AwaitProduce(w) ==
    /\ cpc[w] = "await"
    /\ ppc[w] = "finished"
    /\ cpc' = [cpc EXCEPT ![w] = "done"]
    /\ UNCHANGED <<tracked, fetched, cursor, empty, produceVars, counter, start, main,
                   reporter, brokerVars, history>>

Consume(w) ==
    \/ Assign(w) \/ Seek(w) \/ SetupFails(w)
    \/ CheckTotal(w) \/ PollRecords(w) \/ PollEmpty(w) \/ PollFails(w)
    \/ LoadStart(w) \/ ClaimStart(w)
    \/ EndBatch(w) \/ SkipNull(w) \/ DecodeValue(w) \/ DecodePanics(w) \/ SendBuffer(w)
    \/ AwaitProduce(w)

-----------------------------------------------------------------------------
(* The produce task of worker w: each action is one turn of its select!.   *)

\* tx is gone once the consume loop has left its loop or unwound.
TxDropped(w) == cpc[w] \in {"await", "panicked", "done"}

LoopContinues(w) == open[w] \/ inFlight[w] # {}
WindowHasRoom(w) == Cardinality(inFlight[w]) < Window

\* local_counter after it has been added to PROCESSED_COUNTER.
LocalAfterFlush(w) == 0

\* What the task adds to PROCESSED_COUNTER on its way out.
Remainder(w) == local[w]

\* rx.recv() yields a buffer: a send enters the window.
ReceiveBuffer(w) ==
    /\ ppc[w] = "running" /\ LoopContinues(w)
    /\ open[w] /\ WindowHasRoom(w)
    /\ chan[w] # <<>>
    /\ inFlight' = [inFlight EXCEPT ![w] = @ \cup {Head(chan[w])}]
    /\ chan' = [chan EXCEPT ![w] = Tail(@)]
    /\ UNCHANGED <<consumeVars, ppc, open, local, counter, start, main, reporter, brokerVars,
                   history>>

\* rx.recv() yields None: tx is gone and the channel is empty.
ReceiveEnd(w) ==
    /\ ppc[w] = "running" /\ LoopContinues(w)
    /\ open[w] /\ WindowHasRoom(w)
    /\ chan[w] = <<>> /\ TxDropped(w)
    /\ open' = [open EXCEPT ![w] = FALSE]
    /\ UNCHANGED <<consumeVars, ppc, chan, inFlight, local, counter, start, main, reporter,
                   brokerVars, history>>

\* in_flight.next() yields: a send has resolved, in any order.  Ok or Err, it is counted.
SendResolves(w) ==
    /\ ppc[w] = "running" /\ LoopContinues(w)
    /\ \E o \in inFlight[w] :
         /\ inFlight' = [inFlight EXCEPT ![w] = @ \ {o}]
         /\ \/ UNCHANGED failed
            \/ /\ Cardinality(failed) < MaxFails
               /\ failed' = failed \cup {<<w, o>>}
         /\ IF local[w] + 1 >= FlushAt
            THEN /\ counter' = counter + local[w] + 1
                 /\ local' = [local EXCEPT ![w] = LocalAfterFlush(w)]
                 /\ counted' = counted \cup ({w} \X (uncounted[w] \cup {o}))
                 /\ uncounted' = [uncounted EXCEPT ![w] = {}]
            ELSE /\ local' = [local EXCEPT ![w] = @ + 1]
                 /\ uncounted' = [uncounted EXCEPT ![w] = @ \cup {o}]
                 /\ UNCHANGED <<counter, counted>>
    /\ UNCHANGED <<consumeVars, ppc, chan, open, start, main, reporter, avail, slow, errs>>

\* The while loop ends: the remainder is published and the task returns.
ProduceReturns(w) ==
    /\ ppc[w] = "running" /\ ~LoopContinues(w)
    /\ counter' = counter + Remainder(w)
    /\ counted' = counted \cup ({w} \X uncounted[w])
    /\ uncounted' = [uncounted EXCEPT ![w] = {}]
    /\ ppc' = [ppc EXCEPT ![w] = "finished"]
    /\ UNCHANGED <<consumeVars, chan, open, inFlight, local, start, main, reporter,
                   brokerVars>>

\* The worker has unwound: dropping its runtime cancels the task at its next await.
CancelProduce(w) ==
    /\ ppc[w] = "running" /\ cpc[w] = "panicked"
    /\ ppc' = [ppc EXCEPT ![w] = "cancelled"]
    /\ UNCHANGED <<consumeVars, chan, open, inFlight, local, counter, start, main, reporter,
                   brokerVars, history>>

Produce(w) ==
    \/ ReceiveBuffer(w) \/ ReceiveEnd(w) \/ SendResolves(w)
    \/ ProduceReturns(w) \/ CancelProduce(w)

-----------------------------------------------------------------------------
(* main, the reporter, and producers that keep feeding the input topic.    *)

\* join() returns for a worker that panicked too, once its runtime has been dropped.
WorkerEnded(w) ==
    \/ cpc[w] = "done"
    \/ cpc[w] = "panicked" /\ ppc[w] # "running"

AllEnded == \A w \in Workers : WorkerEnded(w)

\* Every handle is joined, the result of the join ignored, and reporter_stop set.
JoinWorkers ==
    /\ main = "joining" /\ AllEnded
    /\ main' = "stopping"
    /\ UNCHANGED <<consumeVars, produceVars, counter, start, reporter, brokerVars, history>>

\* The reporter wakes from its sleep, sees the flag and leaves its loop.
ReporterStops ==
    /\ reporter = "running" /\ main = "stopping"
    /\ reporter' = "stopped"
    /\ UNCHANGED <<consumeVars, produceVars, counter, start, main, brokerVars, history>>

\* main joins the reporter, prints TOTAL_RECORDS and the time since START_NANOS, returns.
Report ==
    /\ main = "stopping" /\ reporter = "stopped"
    /\ main' = "reported"
    /\ UNCHANGED <<consumeVars, produceVars, counter, start, reporter, brokerVars, history>>

Arrive(w) ==
    /\ avail[w] < Len(Log[w])
    /\ avail' = [avail EXCEPT ![w] = @ + 1]
    /\ UNCHANGED <<consumeVars, produceVars, counter, start, main, reporter, slow, errs,
                   failed, history>>

\* The process has exited.
Terminated == main = "reported" /\ UNCHANGED vars

Next ==
    \/ \E w \in Workers : Consume(w) \/ Produce(w) \/ Arrive(w)
    \/ JoinWorkers \/ ReporterStops \/ Report \/ Terminated

\* Threads and tasks are scheduled, a poll returns and a send resolves (an ack, a rejection
\* or the client's timeout).  Nobody promises that a record arrives.
Fairness ==
    /\ \A w \in Workers : WF_vars(Consume(w)) /\ WF_vars(Produce(w))
    /\ WF_vars(JoinWorkers) /\ WF_vars(ReporterStops) /\ WF_vars(Report)

Spec == Init /\ [][Next]_vars /\ Fairness

-----------------------------------------------------------------------------
ConsumeTypes ==
    /\ cpc \in [Workers -> {"assign", "seek", "check", "poll", "timer", "claim", "record",
                            "send", "await", "panicked", "done"}]
    /\ tracked \in [Workers -> BOOLEAN]
    /\ fetched \in [Workers -> Nat]
    /\ cursor \in [Workers -> Nat]
    /\ empty \in [Workers -> 0 .. EmptyLimit]
ProduceTypes ==
    /\ ppc \in [Workers -> {"none", "running", "finished", "cancelled"}]
    /\ chan \in [Workers -> Seq(Nat)]
    /\ open \in [Workers -> BOOLEAN]
    /\ inFlight \in [Workers -> SUBSET Nat]
    /\ local \in [Workers -> Nat]
SharedTypes ==
    /\ counter \in Nat
    /\ start \in Workers \cup {None}
    /\ main \in {"joining", "stopping", "reported"}
    /\ reporter \in {"running", "stopped"}
BrokerTypes ==
    /\ avail \in [Workers -> Nat]
    /\ slow \in [Workers -> 0 .. MaxSlow]
    /\ errs \in [Workers -> 0 .. MaxErrs]
    /\ failed \subseteq Workers \X Nat
HistoryTypes ==
    /\ uncounted \in [Workers -> SUBSET Nat]
    /\ counted \subseteq Workers \X Nat
Positions ==
    \A w \in Workers :
        cursor[w] <= fetched[w] /\ fetched[w] <= avail[w] /\ avail[w] <= Len(Log[w])
TypeOK ==
    ConsumeTypes /\ ProduceTypes /\ SharedTypes /\ BrokerTypes /\ HistoryTypes /\ Positions

\* The value records whose buffer the consume loop of w has handed to the channel.
HandedOver(w) == {o \in Values(w) : o <= cursor[w]}

\* The records of w that have been counted or wait in its local counter.
CountedOf(w) == {o \in Values(w) : <<w, o>> \in counted}

\* No result is lost or duplicated inside a worker: each record the consume loop has dealt
\* with is in the channel, in flight or resolved, in exactly one of them and once.
Conservation ==
    \A w \in Workers :
        /\ HandedOver(w) = Range(chan[w]) \cup inFlight[w] \cup Resolved(w)
        /\ Range(chan[w]) \cap (inFlight[w] \cup Resolved(w)) = {}
        /\ inFlight[w] \cap Resolved(w) = {}
        /\ uncounted[w] \cap CountedOf(w) = {}
        /\ IsInjective(chan[w])

\* Unacknowledged work of a worker is bounded by the two windows and the buffer its consume
\* loop waits with, however far consuming runs ahead of producing.
Backpressure ==
    \A w \in Workers :
        Len(chan[w]) + Cardinality(inFlight[w]) + Cardinality(Held(w)) <= 2 * Window + 1

\* PROCESSED_COUNTER, published in batches by concurrent tasks, is the number of sends whose
\* resolution has been published; the rest is in the local counters, and nothing is in both.
CounterExact ==
    /\ counter = Cardinality(counted)
    /\ \A w \in Workers :
         ppc[w] # "finished" => local[w] = Cardinality(uncounted[w])

\* A worker that leaves its loop has read its whole partition, when the topic holds no more
\* than TOTAL_RECORDS values: neither the shared counter nor empty polls (fewer in a row than
\* the limit, when records remain) make it stop early.
LosesNothing == Preloaded /\ MaxSlow < EmptyLimit
DrainedAtEnd ==
    LosesNothing /\ Cardinality(AllValues) <= TotalRecords
    => \A w \in Workers : cpc[w] \in {"await", "done"} => HandedOver(w) = Values(w)

\* Leaving values of its partition unread is only right once TOTAL_RECORDS sends of all the
\* workers together have resolved.  On a topic of no more than TOTAL_RECORDS values that is
\* DrainedAtEnd; it says more of one that older runs have filled.
EarlyStop ==
    LosesNothing =>
    \A w \in Workers : cpc[w] \in {"await", "done"} =>
        HandedOver(w) = Values(w) \/ counter >= TotalRecords

\* When main stops waiting, every worker that ended without a panic has had every record it
\* took from its partition resolved and counted: nothing is left in a window, in a channel
\* or in a local counter, whatever became of the other workers.
AccountedAtReport ==
    main # "joining" => \A w \in Workers :
        \/ cpc[w] = "panicked"
        \/ cpc[w] = "done" /\ CountedOf(w) = HandedOver(w)

\* START_NANOS is set before the first record is decoded, so the time reported covers all of
\* the work.
TimerCoversWork ==
    \A w \in Workers : cpc[w] \in {"record", "send"} \/ cursor[w] > 0 => start # None

\* Two workers can both load 0 from START_NANOS; only the first to exchange sets it.
TimerSetOnce == [][start # None => start' = start]_vars

\* Sends of a worker enter its window in the order of the records they come from.
SentInOrder ==
    [][\A w \in Workers : \A o \in inFlight'[w] \ inFlight[w] :
         \A p \in inFlight[w] \cup Resolved(w) : p < o]_vars

\* The program always comes to its end: no worker waits forever for room in a channel, for
\* its produce task or for another worker.
Terminates == <>(main = "reported")

\* The processor keeps the promise of StreamSum when no worker panics.
Taken == UNION {{<<w, o>> : o \in HandedOver(w)} : w \in Workers}
AllResolved == UNION {{<<w, o>> : o \in Resolved(w)} : w \in Workers}
Abstract == INSTANCE StreamSum WITH
    Records <- AllValues, taken <- Taken, resolved <- AllResolved,
    tally <- counter, finished <- (main = "reported")
ImplementsStreamSum == Abstract!Spec
=============================================================================
