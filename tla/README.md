# Verification of the kafka-test stream processors

TLA+ models of the programs of this repository, TLC configurations that check
them on small instances, and TLAPS proofs, for every instance, of the safety
properties of all parts.

The repository holds Kafka clients in several languages: message producers and
consumers (`kafka-test-*`), and a stream benchmark (`stream-test-*`) that reads
lists of integers from a topic, sums each list, writes the sums to another
topic and reports how long 50,000,000 of them took. The processor written with
the `krafka` client (`stream-test-krafka/src/bin/processor.rs`) has by far the
most logic of its own and is the centre of this project.

## Inventory

| Part | State | Operations | What is hard |
|---|---|---|---|
| **krafka Phase 2** | per worker: position in its partition, empty-poll count, bounded channel, in-flight window, local count; shared: `PROCESSED_COUNTER`, `START_NANOS` | poll, decode, hand over, send, count, stop, join, report | two tasks per worker and two atomics over all workers, in every order; panics; failing polls and sends; who stops when |
| **krafka Phase 1** | topics, window of sends, producer batches and sequence numbers | delete, create, wait for leaders, push, poll, drain, flush | sends are futures that progress only when awaited; sequence order; lost answers; ignored errors |
| **codec and sum** | decoder position, shift, value, sum | read varint, sum, write varint | word width, sign, truncated payloads, blocks with a size; five implementations that differ |
| **group benchmarks** (rust, go, c, python, java) | records generated, producer queue; shared counter, local counts, a producer queue per worker, start flag | load: send, flush; then poll, send, count, flush, exit | full queues, flushes that time out, counts published in batches, exits that overtake deliveries, workers that fail and are joined like others |
| **endless processors** (java, scala, ruby) | per worker: records in hand, results in its producer, position; the group's offsets; scala's flag | poll, sum, send, commit, close, hook | offsets committed ahead of deliveries, partitions that move, records that hang or kill a worker, errors in mid-batch, shutdown hooks that do not wait |
| **message consumers**, six languages | position, message in hand, committed offset, signal seen | poll, log, commit, close | automatic commits against crashes, signals and a shutdown hook that waits for nobody |
| **message producers**, six languages | message id, messages in the client, signal seen | send, pause, close | a signal during a send; a client that is closed under main's feet |
| **stream test clients**, rust and krafka | as for the message clients, no signal | send without a pause, poll, print | sends nobody looks at, SIGINT not handled |
| stream test clients, other languages | none | send or print a record | none |
| lag monitor | none | read offsets twice, print | the two reads are of different moments |

The parts interact only through topics, except inside a processor: there main
starts the workers, joins them and reads what they left in the atomics, and the
consume loop and the produce task of a krafka worker share a channel. Phase 1
runs to its end before Phase 2 starts.

What makes them correct, in short. Phase 2: nothing taken from the topic is lost
or doubled between the two tasks; memory is bounded; the counter, which decides
when workers stop, is exact; no worker stops with records unread; the time
reported covers the work; the program ends. Phase 1: the topics are new and
ready, records are accepted in sequence, the window is bounded, all records
arrive. Codec: what is read back is the sum, a truncated payload is noticed,
reading ends. Group benchmarks: the load is complete, results are counted once,
the report comes after the total and after the flush and has a start time, the
benchmark ends.
Endless processors: what is lost or doubled is bounded by what went wrong, and
every record is processed while a worker is left. Message clients: what
may be skipped or logged twice is bounded by what went wrong, nothing accepted
is left behind, a signal ends the program.
`PROJECT.json` lists the hazards, each at its line, with the properties for it.

## Modules

**`StreamSum`** is what a processor promises: it takes records, each result
resolves once, the published count never runs ahead of the resolved sends and
never goes back, and the processor finishes only when nothing is outstanding
and the count is exact. It knows no workers, channels or windows.

**`KrafkaProcessor`** is Phase 2. Every worker has a program counter for its
consume loop (`cpc`) and one for its produce task (`ppc`). The consume loop's
actions follow the body of `'consume: loop` statement by statement wherever
another thread can be seen in between: the load of the counter, the poll, the
load and the compare-exchange of `START_NANOS`, each record, `tx.send().await`.
The produce task's actions are the branches of its `select!`. A record is its
offset, and the buffer, the send and the count that come from it carry that
offset, so that "lost" and "twice" can be said. `counted` and `uncounted` are
history variables: which sends the two counters stand for. Start-up failures
(`SetupFails`, of the workers in `Fragile`) and truncated payloads panic the
worker's thread; its runtime then cancels the produce task at some later
moment (`CancelProduce`). What varint reading does with bytes is not here but
in `IntegerSum`; here a record is a value, null or truncated.
`ImplementsStreamSum` is the refinement of `StreamSum`.

**`KrafkaLoader`** is Phase 1, from the deletion of the topics to the flush, in
both modes (`is_durable`). The point of the model is the comment at lines
144-148: a send takes its sequence number and enters its batch in one poll, and
since one task polls all sends no other send gets in between. `TakeSequence`
and `Enqueue` are the two halves of that poll and `SingleTask` is what keeps
them together. The krafka producer and the broker are external; they are
modelled as the code relies on them: `create_topics` fails if a topic still
exists or cannot be made, an answer of `describe_topics` may lack a topic of
which the broker knows no partition yet (`Answers`), and then the code asks
nothing of it (`AllReady`), new futures are handed out in push order, a batch of
a partition is sent in order, only to a partition with a leader, an
unacknowledged request is sent again, and with idempotence the broker appends
a record only if its sequence number is the next. A send takes its sequence
number whether or not its partition has a leader. A send fails only before its
record is in a batch; that a batch is given up later, when its delivery times
out, is not modelled. `described` is history: the topics of the answer the loop
ended with.

**`IntegerSum`** is the transformation, a byte per step, for a word of `Width`
bits and bytes of `Group` payload bits. The processors differ in what happens
at the end of a payload (`AtEnd`), in blocks with a size (`SkipsSize`) and in
the encoder (`Write`). The consumer that reads the sum is part of it. Powers of
two, the bytes of a value and of a list, and the sum of a list are recursive
functions over numbers or over the places of a sequence, not recursive
operators, so that they can be reasoned about. `ListsType` says which lists are
written: blocks of longs that are not empty and whose count is a long.

**`GroupBenchmark`** is both phases of the other five benchmarks in one module:
they share the shape load, poll, clock, send, count, and the module names the
implementations where they part (`LoadRejected`, `LoadFlush`, `TestsFirst`,
`Batching`, `AfterTrigger`, `BadRecord`, `SendRejected`, `FlushReturns`,
`MainDone`). Phase 1
(`LoadPhase`, `LoadDeliver`) is main's loop over a library producer whose queue
may be full, whose deliveries may fail and whose flush may time out; each of the
five treats these in its own way. The workers start on what the load, and older
runs, have left. Records are counted, not told apart: which worker gets which
does not matter to any of them. A record that an older program has left may be
no list (`Malformed`): C reads zeros, sends and counts them, java and rust pass
over a record without a value, a truncated one ends rust's thread and python's
process, and go's panic ends the program. Workers also fail when they make their
clients (`SetupFails`) and, in java, when poll() or send() throws (`Throws`); what
main makes of that is its own: rust's joins them like the others, java's latch is
counted down in a finally block (`CloseReturns`), but not for a worker that
fails before its try. rust flushes nothing: what is in the queue of a worker that
ends stays there. `wasted` is history: records polled, or committed by a close,
that got no result.

**`StreamWorkers`** is the three endless processors: workers of one consumer
group that poll, sum, and hand results to their producer, while the clients
commit what was polled. Here records are told apart, by partition and offset,
since the questions are which results are missing (`Missing`) and which are
there twice. A record may be without value or truncated: java's decoder then
reads for ever (`Hang`), ruby's process dies (`DiesOnRecord`), scala's goes on.
The group, external, assigns, takes away from workers that no longer poll or are
slow with a batch or a close (`Expel`), and rebalances (`Revoke`). In java and
scala the catch is around the loop: an error of poll() or send() (`Throws`) ends
it in mid-batch, and the close that follows commits the whole batch. A JVM halts
with whatever its workers are doing (`Halts`), since scala's hook clears a flag
and waits for nobody and java has none. `discarded`, `abandoned` and `unclean`
are history: results a producer took with it, records a worker had in hand when
an error ended its loop or, in ruby, its process, and how often a partition lost
its worker without a commit. `buffered` counts results by record: a worker that
was expelled and gets its partition back may have two of one record. What
becomes of it at the end of a process is that it is gone; a worker that is
closed waits for it (`Close`).

**`MessageClients`** is one producer and one consumer on one partition: those of
`kafka-test-*` and the stream test clients of rust and krafka. They all do the
same thing and differ in what this module is about: whether a send is awaited
(`AwaitsSend`), whether there is a pause after it (`AfterSend`), what a full
queue does (`SendRejected`), when the client may commit what it has handed out
(`CommitsNow`), how many records a poll returns (`BatchLimit`), and above all
what SIGINT does. Nothing handles it in the stream clients; tokio tells a
`ctrl_c()` future if there is one, which for krafka's consumer is only during a
poll and for the two Rust producers only during the pause (`Listening`,
`pheard`); the JVM runs a hook beside main and halts when the hook is through,
main or not (`Halt`); Python and Ruby raise an exception wherever main is, and
Python's producer catches none. `handled`, `unclean` and `passed` are history:
how often each message was logged, how many crashes and failed closes of a
consumer committed nothing, and up to where a start at `latest` has jumped.
`Interrupted` counts the SIGINTs to those consumers that may end of one before
anything is committed: the JVMs and the stream consumers. Commits of the client,
crashes and deliveries are external. The processes start where the subscription,
or the client, exists.

`MC*` modules hold the constants that TLC needs. Where a module has a section of
faulty variants, these are slips the code could have made. No specification
uses them; each property is known to fail with one of them in the place of the
right operator (`PROJECT.json`, "mutants").

## Runs

| Run | Shows | Distinct states |
|---|---|---|
| `KrafkaExact.cfg` | benchmark, two workers, a log with a null record and exactly `TotalRecords` values: conservation, exact counter, drained partitions, the timer, send order, and the refinement of `StreamSum` | 76,000 |
| `KrafkaCrash.cfg` | one worker may fail to start and has a truncated record, the other has more than enough records; they arrive while the workers run, a poll and a send of each may fail: the accounts at the report, the bound on memory, termination | 700,000 |
| `KrafkaLoader.cfg` | both modes, four records, window two, two partitions, any topics left by an earlier run, answers that lack a topic, sends that fail and answers that are lost | 690,000 |
| `IntegerSum.cfg` | every list of one block and of two, with and without sizes, cut by up to two bytes, all five processors | 51,000 |
| `GroupBenchmark.cfg` | all five benchmarks, with and without the load, on an empty topic and one that older runs have filled, queues of two, two faults: deliveries, flushes and waits for room that fail, workers that fail, records that are no lists. The load is complete (`LoadComplete`), counts are exact, what a report stands for (`AccountedAtReport`), that it has a start time (`TimedAtReport`), termination | 550,000 |
| `StreamWorkers.cfg` | java, scala and ruby; two workers, a partition of three records, the middle one without value or truncated, batches of two, two faults (errors in mid-batch, failed deliveries and commits, expulsions), a rebalance and a restart: which results may be missing (`LostBound`) or there twice (`TwiceBound`), and that every record is dealt with while a worker is left (`Progress`) | 1,100,000 |
| `MessageClients.cfg` | the clients of all eight programs, three messages, batches of two, a queue of one; one send, one poll or close, one crash that fails; one SIGINT to each side; one restart: what a consumer may skip (`SkipBound`) or log again (`LoggedAgain`), whether all it logged is committed (`CommittedAtEnd`), that a producer leaves nothing behind, who ends on SIGINT | 540,000 |

Five more runs show where a document of the repository and the code differ. Each
checks what the document says and finds it violated. Where several programs
violate one sentence, each in its own way, the run holds them all, TLC reports
the shortest way, and the head of the cfg says which constant leaves only
another of them:

| Run | The document | The code |
|---|---|---|
| `GroupHang.cfg` | the load produces 50,000,000 messages, and exactly these are processed | rust and go never publish counts below 1000 and wait for ever; the loads of rust and C drop what a full queue refuses, and the workers wait for it |
| `GroupReport.cfg` | the timer stops when the 50,000,000th result is produced | go exits when the counter is reached, before its producers are flushed; rust's workers drop producers that hold results; rust and java report when all workers have failed |
| `GroupClock.cfg` | the timer starts before the messages are processed | in C other workers go on while the first one reads the clock, in rust and go the workers run before main reads it |
| `MessageShutdown.cfg` | on SIGINT offsets are committed, and producers flush before they exit | java's and scala's JVM halts without waiting for the close; krafka's stream producer has no handler, and the two other Rust producers have none before their first pause |
| `MessageSigint.cfg` | krafka's consumer exits cleanly on SIGINT, both Rust producers flush and exit | a signal that arrives while a batch is logged, as a poll returns, or outside a producer's pause, is lost |

Three more differences have no run. The design document has Phase 2 run
continuously without `BENCHMARK`, and the code ends a worker after three empty
polls in every mode (`KrafkaCrash.cfg` runs in that mode and `Terminates` holds
of it). The comment above the wait for leaders speaks of all partitions, and the
code asks nothing of a topic that an answer leaves out; `FreshAndReady` claims
only what the code does. The flush of a load is to ensure that all messages are
acknowledged, and go and C ignore that it has timed out; `LoadComplete` claims
nothing after such a fault.

The `EarlyStop` of `KrafkaProcessor` is proved and has no run: on a topic of
exactly `TotalRecords` values it says what `DrainedAtEnd` says, and only on one
that holds more does it say more.

### Bounds

`WORKER_WINDOW` and `WINDOW` (10,000) become 1 or 2, the local batch of 1000
becomes 2, `TOTAL_RECORDS` 3 to 5. What matters is kept: the window fills, the
channel fills while the window is full, a batch is published and a remainder is
left, the total is reached while other workers have records, a batch of polled
records ends in the middle of the total. `EmptyLimit` is 3 as in the code, or 2
in the larger run. Two workers suffice for the races on the atomics: both see
START_NANOS unset, one stops by the other's counts. `MaxSlow`, `MaxErrs`,
`MaxFails`, `MaxLost` and `MaxFaults` bound what the environment does; the
fewer than `EmptyLimit` slow answers in a row (`LosesNothing`) is the assumption
under which empty polls do mean that the partition is drained: with more, the
code stops early by design. A 6-bit word with 2-bit groups has varints of up to
three bytes, sums that wrap and values in the outer half of the range.

In `GroupBenchmark` the queue of two fills during a load of four and during
Phase 2; two faults let both workers fail, which is when rust and java report
too little, or one fail and a flush time out. In `StreamWorkers` three records
put one before and one behind the record that hangs or kills; two faults let one
worker be expelled and the other die, or a signal meet a failed commit; one
partition is enough for a take-over, because workers interact by partitions
only.

In `MessageClients` a batch of two has a message in hand and one behind it when
the crash comes, three messages leave one for the second start, and the bounds of
`SkipBound` and `LoggedAgain` are all reached. Producer and consumer are those of
one project: all that a producer does to a consumer is to append messages, which
every producer does at any time.

Deadlock is checked in the three krafka runs, in `IntegerSum.cfg` and in
`GroupClock.cfg`, where the programs do not stop. In the others they may. All of
python's workers may have died of a full queue while main waits for the counter,
one of java's may have failed without counting its latch down, all workers of an
endless processor may have ended, hang or wait for more records, and a consumer
whose producer has sent the last message of the bound waits for more: in the
model as in the program nothing happens any more.

### Fairness

Threads and tasks are scheduled (weak fairness per worker, for the consume loop
and the produce task separately, since they run on the threads of one
multi-threaded runtime). Calls into the client return: a poll by its timeout, a
send by an acknowledgement, a rejection or the client's own timeout, and the
select serves either branch. That a record arrives is never assumed. In
`KrafkaLoader` leaders get elected and requests get answered; deletions, losses
and a flush that fails need not happen. In `GroupBenchmark` polls may come back
empty, but not all of them for ever while records are there (strong fairness on
polling a record, over all workers together); main's load, its producer, the
workers and their producers run. The fair actions of `GroupBenchmark` and
`StreamWorkers` are those without a fault: nobody promises that a poll throws, a
worker fails or a flush times out. In `StreamWorkers` workers run, deliveries
have an outcome, and the group takes partitions from workers that hang and hands
out those without one; it need not commit, rebalance or expel a worker that is
only slow. In `MessageClients` either process, while it runs, makes progress
(weak fairness on each), and a send has an outcome; signals, commits, starts,
failures and the halt of a JVM need not happen. `SignalEnds` claims an end only
where the code listens always: not for krafka's consumer nor for the two Rust
producers.

## Proofs

`KrafkaProcessor_proofs` proves about Phase 2, for any finite set of workers, any
log, any total, windows and limits, and whichever workers may fail:

- `TypeCorrect`, each safety property of the runs and `EarlyStop`:
  `ConservationTheorem`, `BackpressureTheorem`, `CounterExactTheorem`,
  `EarlyStopTheorem`, `DrainedTheorem`, `AccountedTheorem`, `TimerTheorem`;
- the action properties `TimerSetOnceTheorem` and `SentInOrderTheorem`;
- `Refinement`: if no worker can panic (no truncated record, no fragile worker),
  initial states and steps of Phase 2 are initial states and steps, or stutters,
  of `StreamSum` under the mapping of `Abstract`.

The assumptions are those on the constants in the module (`LogType`,
`WorkersFinite`, `LimitsType`, `EnvironmentType`).

The properties are not inductive as they stand. `AccountedAtReport` speaks of the
moment main stops waiting; to get there one has to know how the two tasks of a
worker end: the receiver closes only after the sender has left and the channel
is empty, the task returns only when its window is empty too, and the consume
loop waits for that. `CounterExact` needs to know that the offsets in the window
are not counted yet, which is `Conservation`, and that needs the channel to be
increasing and all of it above what was received before. So the inductive
invariant joins parts by subject, each with the lemmas that its steps preserve
it: types and positions, the life cycle of the two tasks, the pipeline
(channel, window and resolved sends partition what was handed over, in order),
the counters, the clock, and the reasons for which a worker may have left
its loop. The order of the arguments is the order of the file, and each
preservation proof has one step per action. TLC checked the parts as
invariants before they were proved.

`KrafkaLoader_proofs` proves all six invariants of Phase 1 for any partitions,
number of records, window and number of lost requests or acknowledgements, from
`LoadType`. The argument follows a sequence number through the producer:

- sends are polled in the order of the pushes, one after the other (`Polled`),
  so that within a partition later records have higher numbers (`Numbered`).
  This is where the single task is needed: at most one send has a number and is
  not in a batch, and it has the highest number of its partition;
- therefore requests and batches of a partition hold consecutive numbers
  (`Pipelined`), the first of which, `Base`, is the number of the oldest request.
  A step either leaves `Base` alone or takes the oldest request away and raises
  it by one (`PipedStep`);
- the log holds lower numbers in their order (`Logged`), which gives
  `PushOrderTheorem`; in durable mode the broker expects `Base`, or the number
  after it when it has appended the oldest request and the answer was lost
  (`Acknowledged`). The request is then the next or a repetition, never ahead:
  `InSequenceTheorem`. What is settled has a number below the expected one, and
  the log holds all of these, which gives `LoadedOnceTheorem`;
- `FreshAndReadyTheorem` speaks of the topics the last answer has described,
  whichever these are. It needs that nothing is pushed while the broker may still
  delete a topic (`Fresh`); `WindowBoundTheorem` needs room for one more send
  whenever the loop generates a record (`Windowed`).

`MessageClients_proofs` and `MessageOffsets_proofs` prove all five invariants of
`MessageClients` for any pairs of clients and any number of messages, failures,
signals, crashes and starts, from `ClientsType`:

- `TypeCorrect` holds together with `Waiting`: a producer that waits for a send
  has not numbered the next message yet, without which `message_id` might pass
  its end.
- `NothingLeftTheorem` needs where a message can be (`Whereabouts`: topic,
  client or failed, with one more while its producer waits), that rust's client
  holds a message only while it waits for it (`RustHolds`, since its end flushes
  nothing), and who has a hook or a listener at all (`Roles`).
- `LoggedAgainTheorem` needs that what lies ahead of the consumer, or of where
  the next one resumes, was logged only once per end without a commit
  (`Repeats`). `CommittedAtEndTheorem` follows: with no such end
  nothing at or past the offset where the next consumer resumes was logged.
- `SkipBoundTheorem` counts, beside the skipped messages, those that close() is
  about to commit (`Lost`); no step adds to these except a crash or a SIGINT
  that drops the messages in hand, and these are at most a batch (`LostStep`,
  `LimitStep`). That needs what the running consumer has passed to be logged or
  committed (`Places`), and the topic to hold no more than what is generated
  (`Capacity`).

`GroupBenchmark_proofs` proves all five invariants of the group benchmarks, for
each of the five languages, any finite set of workers, any load, batch and
number of failures, from `BenchmarkType`. A sum over the workers, `Total(f)`, is
the number of pairs of a worker and a number up to its share, so that what a
step does to a sum follows from the cardinality of finite sets: one worker's
share changes and the sum by as much (`TotalUpdate`).

- `CountedOnceTheorem` is inductive with the types: what a worker has sent and
  not counted is the one result of its last send.
- `Conserved` says where the records of the backlog are: seen by an older run,
  unread, in the hand of one worker, wasted, or sent. It bounds the counters in
  `TypeCorrect`, since a worker can send only what it took from the topic.
- `LoadCompleteTheorem` needs what is left to do at each step of the load
  (`Loads`): the workers of these three languages start only when the producer
  of main has nothing left, and a record is lost only with a fault.
- `AccountedTheorem` needs that nothing is sent before main starts the workers
  (`Idle`), and why a worker has left its loop and what its producer may then
  still hold (`Leavings`): the report waits for all workers except in go, and a
  worker that did not fail has seen the total reached.
- `TimedAtReportTheorem` needs, per language, who has written the start time or
  will (`Clocks`): in C the flag is set only if some worker is about to read the
  clock or has, and main waits for that worker. `Untouched` says that nothing is
  sent while the flag is not set.

`StreamWorkers_proofs` proves the three invariants of the endless processors for
any languages, workers, partitions, logs and numbers of failures, from
`WorkersType`; the assumption names a bound on the length of the logs,
`MaxRecords`, so that offsets range over one set.

- `TypeCorrect` comes with `Placed`: who may own a partition or have records in
  hand, and how far a partition is read and committed.
- `LostBoundTheorem` is not inductive: that a committed record which is neither
  in the topic nor in a buffer is in somebody's hand says nothing about the
  commit of a record in hand. `Kept` says where each record below the position
  is, and that while a Java worker has it in hand the partition is still that
  worker's and not committed past it. A commit passes a record in hand only when
  an error closes its worker, and then the record is `abandoned`.
- `TwiceBoundTheorem` counts the copies of a record in the topic, in buffers and
  in hands together (`CopiesBound`): one stands for its being below the position,
  each further one for a worker that its partition has lost without a
  commit, which moves the position back.

`IntegerSum_proofs` proves the three properties of the codec and its types, for
words and groups of any number of bits, lists of any length and any cut, from
`WidthType`, `ProcessorsType` and `ListsType`. The code's word has 64 bits and its
groups 7; TLC's have 6 and 2, and the theorems join the two.

- That a recursive function satisfies the equation that defines it has to be
  proved, by induction. The library's induction theorems have an operator as
  parameter, so `Recursion` derives induction over a set, and the existence of
  recursively defined functions over numbers and from the end of a sequence
  (`RecursionExists`, `BackwardExists`), from the well-foundedness of < on the
  natural numbers.
- A varint is followed by a cursor: `Cursor(f, p, v, s, u, t)` says that at
  position p of the bytes f, with the value v and the shift s, what lies ahead
  are the groups of u that have not been read, and then t. A byte with the
  continuation bit moves it (`CursorGroup`), the byte without it delivers u
  (`CursorLast`); while there are more groups the shift stays below the width,
  which is what the krafka decoder's limit relies on. `UnZigZagUnsigned` then
  says that the signed value is the one that was written.
- `Placed` says where in the list the reader is: the varint ahead is a block's
  count, its size or one of its integers (`AtCount`, `AtSize`, `AtItem`), so
  many integers are left, and the sum so far and the rest of the list add up to
  the total modulo 2^Width. `ReadCount`, `ReadSize` and `ReadItem` are the moves
  from one place to the next; one more byte is always needed at each of them,
  which gives `TruncationTheorem`, and the last place gives `ListSummedTheorem`.
- `ResultTheorem` needs `Echoed`, the cursor of the consumer in the sum.

Only model-checked: termination and every other liveness property, with the
fairness half of `ImplementsStreamSum`: liveness is out of the prover's reach.
Every invariant and every action property of the passing runs is a theorem.

## Not modelled

The time itself, hence the throughput printed; the text of logs and reports;
the progress reporter except for its stop, and the throughput counters of the
endless processors and the stream test producers, which nothing reads but a
reporter; the creation of topics there, whose errors are ignored; the settings of
the clients other than acks, idempotence and commits. Of the clients and the
broker only what the code relies on: no broker crash, and rebalances only in
`StreamWorkers` (krafka's workers have no group; in the group benchmarks each
record goes to one worker). In `MessageClients` the consumer is alone in its
group, and decoding a message, which either logs it or logs that it cannot be
read, is one step. The lag monitor keeps no state. The stream test clients of
go, java, scala, python and ruby do what those of rust and krafka do.
`IntegerSum` does not run the decoders of python and ruby, whose integers have
no width, nor that of the endless processors, whose ends are in `Effect` of
`StreamWorkers`.

Phase 1 and Phase 2 of krafka are not composed into one model: Phase 1 ends
before Phase 2 starts and leaves nothing but a log, and what is proved about
Phase 2 is proved for every log.

## Plan

Order of work, the most important behaviour first.

1. `StreamSum`, `KrafkaProcessor` with its runs and proofs. Done.
2. `KrafkaLoader`, `IntegerSum`, `GroupBenchmark` with their runs. Done.
3. `MessageClients` with its runs. Done.
4. The load phases of the group benchmarks, in `GroupBenchmark`. Done.
5. `StreamWorkers`: the endless processors, with rebalances. Done.
6. The stream test clients of rust and krafka, in `MessageClients`. Done.
7. The proofs about `MessageClients`. Done.
8. The proofs about `KrafkaLoader`. Done.
9. The proofs about `GroupBenchmark` and `StreamWorkers`. Done.
10. The proofs about `IntegerSum`, on `Recursion`. Done.

What is left is liveness, which the prover does not reach, and the parts listed
under "Not modelled".
