-------------------------- MODULE MessageClients --------------------------
(***************************************************************************)
(* The message producers and consumers of kafka-test-*, and those that     *)
(* feed and watch the stream processors (stream-test-rust and -krafka,     *)
(* here "stream-rust" and "stream-krafka"): a producer and a consumer on   *)
(* one partition.  The producer sends numbered messages, with a pause      *)
(* after each or without; the consumer is alone in its group, logs every   *)
(* message and leaves the commits to its client (enable.auto.commit).      *)
(* Both end by SIGINT, which the stream clients do not handle; the         *)
(* consumer may also crash, and it may be started again.                   *)
(*                                                                         *)
(* The clients and the broker are external.  What differs between them and *)
(* matters here: rdkafka (rust, ruby) and krafka may commit a message as   *)
(* soon as they have handed it out, the Java client (java, scala) and      *)
(* kafka-python only when they are asked for the next one.                 *)
(***************************************************************************)
EXTENDS Integers, Sequences, FiniteSets

CONSTANTS
    Pairs,         \* the producers and consumers that are run together
    Resets,        \* values of AUTO_OFFSET_RESET
    MaxMessages,   \* messages the producer generates
    MaxPoll,       \* messages one poll may return
    QueueLimit,    \* messages the queue of stream-rust's producer takes
    MaxFails,      \* sends that fail
    MaxErrs,       \* polls and closes of the consumer that fail
    MaxSignals,    \* SIGINTs, for each side
    MaxCrashes,    \* crashes of the consumer
    MaxStarts      \* how often the consumer is started

\* Those whose SIGINT is left to the default action, and which send without a pause.
StreamClients == {"stream-rust", "stream-krafka"}
Languages == {"krafka", "rust", "java", "scala", "python", "ruby"} \cup StreamClients

ASSUME ClientsType ==
    /\ Pairs \subseteq Languages \X Languages
    /\ Resets \subseteq {"latest", "earliest"}
    /\ MaxPoll \in Nat \ {0} /\ QueueLimit \in Nat \ {0}
    /\ {MaxMessages, MaxFails, MaxErrs, MaxSignals, MaxCrashes, MaxStarts} \subseteq Nat

VARIABLES
    \* the producer
    producer,      \* its language
    ppc,           \* where its main thread is
    message_id,
    outbox,        \* messages its client has accepted and not delivered
    hook,          \* its shutdown hook runs (java, scala)
    pheard,        \* the signal future of the current pause is complete (krafka, rust)
    pasked,        \* it has got a SIGINT
    fails,
    \* the topic
    log,           \* message ids by offset
    committed,     \* the group's offset, or NoOffset
    \* the consumer
    consumer, reset,
    cpc,           \* where its main thread is
    next, fetched, \* offsets: the next message to log, the position of its client
    heard,         \* the signal has been seen: closed (java, scala), a future otherwise
    asked,         \* this process has got a SIGINT
    errs, signals, crashes, starts,
    \* history
    handled,       \* how often each offset was logged
    unclean,       \* crashes of the consumer, and closes that failed
    passed         \* the offset up to which a start at "latest" has jumped

psignals == <<hook, pheard, pasked>>
pvars == <<producer, ppc, message_id, outbox, psignals, fails>>
csignals == <<heard, asked>>
counts == <<crashes, starts, handled, unclean, passed>>
cvars == <<consumer, reset, cpc, next, fetched, csignals, errs, counts>>
vars == <<pvars, log, committed, cvars, signals>>

NoOffset == -1

Init ==
    /\ \E pair \in Pairs : producer = pair[1] /\ consumer = pair[2]
    /\ reset \in (IF consumer \in {"python", "ruby"} THEN {"latest"}
                  ELSE IF consumer \in StreamClients THEN {"earliest"} ELSE Resets)
    /\ ppc = "send" /\ message_id = 0 /\ outbox = <<>>
    /\ hook = FALSE /\ pheard = FALSE /\ pasked = FALSE /\ fails = 0
    /\ log = <<>> /\ committed = NoOffset
    /\ cpc = "ended" /\ next = 0 /\ fetched = 0 /\ heard = FALSE /\ asked = FALSE
    /\ errs = 0 /\ signals = [p |-> 0, c |-> 0] /\ crashes = 0 /\ starts = 0
    /\ handled = [o \in 0 .. MaxMessages - 1 |-> 0]
    /\ unclean = 0 /\ passed = 0

-----------------------------------------------------------------------------
(* Faulty variants of operators below, each a slip the code could have     *)
(* made.  No specification uses them: they show that a property can fail.  *)

HearsWhenIdle == cpc = "poll"
CommitsAnyTime == cpc \in {"poll", "handle"}
NothingCommitted == committed
FlushesNothing == TRUE
SkipsOne == next + 2

-----------------------------------------------------------------------------
(* The producer.                                                           *)

POver == ppc \in {"ended", "killed"}

\* These wait for the outcome of a send before they go on.
AwaitsSend == producer \in {"rust", "krafka", "ruby", "stream-krafka"}

\* Where a producer is after a send: the stream producers make no pause.
AfterSend == IF producer \in StreamClients THEN "send" ELSE "pause"

\* send(): a client that the hook has closed throws, which ends main.
SendMessage ==
    /\ ppc = "send" /\ message_id < MaxMessages
    /\ producer = "stream-rust" => Len(outbox) < QueueLimit
    /\ IF hook
       THEN ppc' = "stopped" /\ UNCHANGED <<outbox, message_id>>
       ELSE /\ outbox' = Append(outbox, message_id)
            /\ IF AwaitsSend
               THEN ppc' = "wait" /\ UNCHANGED message_id
               ELSE ppc' = AfterSend /\ message_id' = message_id + 1
    /\ UNCHANGED <<producer, psignals, fails, log, committed, cvars, signals>>

\* The queue of stream-rust's producer is full: the error is ignored, the message counted.
SendRejected ==
    /\ producer = "stream-rust" /\ ppc = "send"
    /\ message_id < MaxMessages /\ Len(outbox) = QueueLimit
    /\ message_id' = message_id + 1
    /\ UNCHANGED <<producer, ppc, outbox, psignals, fails, log, committed, cvars, signals>>

\* The oldest message gets into the topic, or its send fails, which is at most logged; a
\* producer that waited for it goes on.
Outcome ==
    /\ ~POver /\ outbox # <<>>
    /\ outbox' = Tail(outbox)
    /\ \/ log' = Append(log, Head(outbox)) /\ UNCHANGED fails
       \/ fails < MaxFails /\ fails' = fails + 1 /\ UNCHANGED log
    /\ IF ppc = "wait"
       THEN ppc' = AfterSend /\ message_id' = message_id + 1
       ELSE UNCHANGED <<ppc, message_id>>
    /\ UNCHANGED <<producer, psignals, committed, cvars, signals>>

\* The pause is over.  If the signal came at the same time, the select may still take this
\* branch, and drops the future of the signal with it.
PauseEnds ==
    /\ ppc = "pause"
    /\ IF hook THEN ppc' = "stopped" ELSE message_id < MaxMessages /\ ppc' = "send"
    /\ pheard' = FALSE
    /\ UNCHANGED <<producer, message_id, outbox, hook, pasked, fails, log, committed,
                   cvars, signals>>

\* Ctrl-C.  tokio's handler replaces the default action from the first pause on and tells only
\* a future that exists, which is during a pause; java and scala start their hook; python and
\* ruby raise an exception wherever they are, which python's producer does not catch; the
\* default action kills the stream producers.
SignalProducer ==
    /\ ppc \in {"send", "wait", "pause"} /\ signals.p < MaxSignals
    /\ signals' = [signals EXCEPT !.p = @ + 1]
    /\ pasked' = TRUE
    /\ \/ /\ producer \in {"krafka", "rust"}
          /\ pheard' = (ppc = "pause")
          /\ ppc' = IF ppc # "pause" /\ message_id = 0 THEN "killed" ELSE ppc
          /\ UNCHANGED hook
       \/ producer \in {"java", "scala"} /\ hook' = TRUE /\ UNCHANGED <<ppc, pheard>>
       \/ /\ producer \in {"python"} \cup StreamClients
          /\ ppc' = "killed" /\ UNCHANGED <<hook, pheard>>
       \/ producer = "ruby" /\ ppc' = "closing" /\ UNCHANGED <<hook, pheard>>
    /\ UNCHANGED <<producer, message_id, outbox, fails, log, committed, cvars>>

\* The select sees the signal: krafka flushes and closes, rust returns from main.
ProducerBreaks ==
    /\ ppc = "pause" /\ pheard
    /\ ppc' = "closing"
    /\ UNCHANGED <<producer, message_id, outbox, psignals, fails, log, committed,
                   cvars, signals>>

\* Every message the client has accepted has had its outcome.  Rust's producer just returns.
Flushed == producer = "rust" \/ outbox = <<>>

\* close() returns, in main or in the hook: the process ends.
ProducerEnds ==
    /\ ~POver /\ (ppc = "closing" \/ hook) /\ Flushed
    /\ ppc' = "ended"
    /\ UNCHANGED <<producer, message_id, outbox, psignals, fails, log, committed,
                   cvars, signals>>

Produce == SendMessage \/ SendRejected \/ Outcome \/ PauseEnds \/ ProducerBreaks \/ ProducerEnds

-----------------------------------------------------------------------------
(* The consumer.                                                           *)

JavaClient == consumer \in {"java", "scala"}
KrafkaClient == consumer \in {"krafka", "stream-krafka"}

\* The offset the group hands out, or the end or the start of the topic if there is none.
StartOffset ==
    IF committed # NoOffset THEN committed ELSE IF reset = "earliest" THEN 0 ELSE Len(log)

Start ==
    /\ cpc = "ended" /\ starts < MaxStarts
    /\ starts' = starts + 1
    /\ cpc' = "poll" /\ next' = StartOffset /\ fetched' = StartOffset
    /\ heard' = FALSE /\ asked' = FALSE
    /\ passed' = IF committed = NoOffset /\ reset = "latest" THEN Len(log) ELSE passed
    /\ UNCHANGED <<pvars, log, committed, consumer, reset, errs, signals, crashes, handled,
                   unclean>>

\* The clients of java, scala and krafka return batches, the others one message at a time.
BatchLimit == IF JavaClient \/ KrafkaClient THEN MaxPoll ELSE 1

\* A poll returns, with nothing if it timed out.  krafka's select then drops the future of the
\* signal; java and scala poll only while closed is FALSE, and wakeup() ends a poll that was
\* under way.
Poll ==
    /\ cpc = "poll" /\ (JavaClient => ~heard)
    /\ \E n \in 0 .. BatchLimit :
         /\ fetched + n <= Len(log) /\ fetched' = fetched + n
         /\ cpc' = IF n = 0 THEN "poll" ELSE "handle"
    /\ heard' = (heard /\ consumer # "krafka")
    /\ UNCHANGED <<pvars, log, committed, consumer, reset, next, asked, errs, signals, counts>>

\* A poll fails: krafka and the stream consumers poll again, the others leave their loop.
PollFails ==
    /\ cpc = "poll" /\ errs < MaxErrs
    /\ errs' = errs + 1
    /\ cpc' = IF KrafkaClient \/ consumer = "stream-rust" THEN "poll" ELSE "closing"
    /\ heard' = (heard /\ consumer # "krafka")
    /\ UNCHANGED <<pvars, log, committed, consumer, reset, next, fetched, asked, signals, counts>>

\* The place in the batch after a message was logged, or found not to be readable.
NextOffset == next + 1

Handle ==
    /\ cpc = "handle"
    /\ handled' = [handled EXCEPT ![next] = @ + 1]
    /\ next' = NextOffset
    /\ cpc' = IF next' = fetched THEN "poll" ELSE "handle"
    /\ UNCHANGED <<pvars, log, committed, consumer, reset, fetched, csignals, errs, signals,
                   crashes, starts, unclean, passed>>

\* When the client may commit its position by itself.
CommitsNow ==
    \/ cpc = "poll"
    \/ cpc = "handle" /\ (KrafkaClient \/ consumer \in {"rust", "ruby", "stream-rust"})

AutoCommit ==
    /\ CommitsNow /\ committed # fetched
    /\ committed' = fetched
    /\ UNCHANGED <<pvars, log, cvars, signals>>

\* Whether a SIGINT reaches the consumer: tokio's handler tells only a future that exists, and
\* krafka's consumer makes a new one for each select and has none while it logs a batch.
Listening == consumer # "krafka" \/ cpc = "poll"

\* Ctrl-C.  python and ruby raise an exception wherever they are; the default action kills the
\* stream consumers.
SignalConsumer ==
    /\ cpc \in {"poll", "handle"} /\ signals.c < MaxSignals
    /\ signals' = [signals EXCEPT !.c = @ + 1]
    /\ asked' = TRUE
    /\ \/ consumer \in {"python", "ruby"} /\ cpc' = "closing" /\ UNCHANGED heard
       \/ consumer \in StreamClients /\ cpc' = "ended" /\ UNCHANGED heard
       \/ /\ consumer \notin {"python", "ruby"} \cup StreamClients
          /\ heard' = Listening /\ UNCHANGED cpc
    /\ UNCHANGED <<pvars, log, committed, consumer, reset, next, fetched, errs, counts>>

\* The loop ends: by the select (krafka, rust), or by closed or the WakeupException.
LeaveLoop ==
    /\ cpc = "poll" /\ heard
    /\ cpc' = "closing"
    /\ UNCHANGED <<pvars, log, committed, consumer, reset, next, fetched, csignals, errs,
                   signals, counts>>

\* The shutdown hook of java and scala waits for nobody: the JVM halts once it has returned.
Halt ==
    /\ JavaClient /\ heard /\ cpc # "ended"
    /\ cpc' = "ended"
    /\ UNCHANGED <<pvars, log, committed, consumer, reset, next, fetched, csignals, errs,
                   signals, counts>>

\* What the client commits when it is closed: the position, a message in hand included.
OffsetAtClose == fetched

\* close() commits, or fails to.
Close ==
    /\ cpc = "closing"
    /\ cpc' = "ended"
    /\ \/ committed' = OffsetAtClose /\ UNCHANGED <<errs, unclean>>
       \/ /\ errs < MaxErrs /\ errs' = errs + 1
          /\ unclean' = unclean + 1 /\ UNCHANGED committed
    /\ UNCHANGED <<pvars, log, consumer, reset, next, fetched, csignals, signals, crashes,
                   starts, handled, passed>>

Crash ==
    /\ cpc # "ended" /\ crashes < MaxCrashes
    /\ cpc' = "ended"
    /\ crashes' = crashes + 1 /\ unclean' = unclean + 1
    /\ UNCHANGED <<pvars, log, committed, consumer, reset, next, fetched, csignals, errs,
                   signals, starts, handled, passed>>

Consume == Poll \/ Handle \/ LeaveLoop \/ Close

Next ==
    \/ Produce \/ SignalProducer
    \/ Start \/ Consume \/ PollFails \/ AutoCommit \/ SignalConsumer \/ Halt \/ Crash

\* Running processes make progress and sends get an outcome.  Nobody promises a signal, a
\* commit, a start or an error.
Spec == Init /\ [][Next]_vars /\ WF_vars(Produce) /\ WF_vars(Consume)

-----------------------------------------------------------------------------
Flags ==
    /\ hook \in BOOLEAN /\ pheard \in BOOLEAN /\ pasked \in BOOLEAN
    /\ heard \in BOOLEAN /\ asked \in BOOLEAN

ProducerTypes ==
    /\ ppc \in {"send", "wait", "pause", "stopped", "closing", "ended", "killed"}
    /\ message_id \in 0 .. MaxMessages
    /\ outbox \in Seq(0 .. MaxMessages - 1) /\ log \in Seq(0 .. MaxMessages - 1)
    /\ fails \in 0 .. MaxFails

ConsumerTypes ==
    /\ committed \in NoOffset .. Len(log)
    /\ cpc \in {"poll", "handle", "closing", "ended"}
    /\ next \in 0 .. Len(log) /\ fetched \in next .. Len(log)
    /\ (cpc = "poll" => next = fetched) /\ (cpc = "handle" => next < fetched)
    /\ errs \in 0 .. MaxErrs /\ crashes \in 0 .. MaxCrashes /\ starts \in 0 .. MaxStarts
    /\ handled \in [0 .. MaxMessages - 1 -> Nat]
    /\ unclean \in Nat /\ passed \in 0 .. Len(log)

\* Every variable has its type; the consumer's places in the topic are in their order.
TypeOK ==
    /\ <<producer, consumer>> \in Pairs /\ reset \in {"latest", "earliest"}
    /\ signals \in [p : 0 .. MaxSignals, c : 0 .. MaxSignals]
    /\ Flags /\ ProducerTypes /\ ConsumerTypes

\* Offsets the group has committed though no consumer logged them, nor is about to.
Skipped ==
    {o \in passed .. committed - 1 :
        handled[o] = 0 /\ ~(cpc = "handle" /\ o \in next .. fetched - 1)}

\* How many messages may be skipped: java's and scala's are only committed once they were
\* logged; elsewhere the messages in hand go lost when the process crashes (rust, ruby,
\* krafka), or SIGINT interrupts it by an exception (ruby, python) or kills it (stream-*).
SkipLimit ==
    CASE JavaClient                  -> 0
      [] consumer = "rust"           -> crashes
      [] consumer = "krafka"         -> MaxPoll * crashes
      [] consumer = "python"         -> signals.c
      [] consumer \in {"ruby", "stream-rust"} -> crashes + signals.c
      [] consumer = "stream-krafka"  -> MaxPoll * (crashes + signals.c)

\* No more messages than that are committed and never logged.
SkipBound == Cardinality(Skipped) <= SkipLimit

\* A SIGINT may end these before anything is committed: the stream consumers do not handle it,
\* and the JVM of java and scala may halt before main has closed the consumer.
EndsBeforeCommit == JavaClient \/ consumer \in StreamClients
Interrupted == IF EndsBeforeCommit THEN signals.c ELSE 0

\* A message is logged again only after a crash, a close that failed, or such a SIGINT: krafka's,
\* rust's, python's and ruby's consumers may be stopped by SIGINT at any moment, and nothing they
\* have logged is logged twice for that.
LoggedAgain == \A o \in DOMAIN handled : handled[o] <= 1 + unclean + Interrupted

\* The group's offset is behind nothing that was logged.
CommittedLogged == \A o \in DOMAIN handled : handled[o] > 0 => o < committed

\* src/README.md: "Handles `Ctrl-C` (SIGINT) to ensure offsets are committed."  That is so for
\* krafka, rust, python and ruby, wherever the signal meets them, with the records in hand and
\* after earlier starts: unless they crashed or their close failed, all is committed at the end.
CommittedAtEnd == cpc = "ended" /\ unclean + Interrupted = 0 => CommittedLogged

\* A producer that ends by itself has left no message behind in its client, so that each one is
\* in the topic or its failure was logged.  What a SIGINT that kills a producer leaves behind is
\* the matter of GracefulShutdown.
NothingLeft == ppc = "ended" => outbox = <<>> /\ Len(log) + fails >= message_id


\* SIGINT ends a consumer, and a producer that does not use tokio, whatever it was doing.  What
\* becomes of krafka's consumer and the two Rust producers is the matter of HandlesSigint.
SignalEnds ==
    /\ consumer # "krafka" => (asked ~> cpc = "ended")
    /\ producer \notin {"krafka", "rust"} => (pasked ~> POver)

\* What docs/rdkafka-vs-krafka-comparison.md says of the Rust clients and SIGINT, "clean exit" of
\* the consumers and "`flush()` then exit" of the producers: they end.
HandlesSigint == (asked ~> cpc = "ended") /\ (pasked ~> POver)
=============================================================================
