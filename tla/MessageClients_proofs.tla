---------------------- MODULE MessageClients_proofs -----------------------
(***************************************************************************)
(* Proofs about MessageClients for any clients and any number of messages, *)
(* failures, signals, crashes and starts.                                  *)
(***************************************************************************)
EXTENDS MessageClients, FiniteSetTheorems, SequenceTheorems, TLAPS

-----------------------------------------------------------------------------
(* What the two sides leave alone.                                         *)

ProducerStep == Produce \/ SignalProducer
ConsumerStep == Start \/ Consume \/ PollFails \/ AutoCommit \/ SignalConsumer \/ Halt \/ Crash

LEMMA StepKinds ==
  ASSUME [Next]_vars
  PROVE  ProducerStep \/ ConsumerStep \/ UNCHANGED vars
BY DEF Next, ProducerStep, ConsumerStep

LEMMA ProducerFrame ==
  ASSUME ProducerStep
  PROVE  UNCHANGED <<producer, committed, cvars>>
BY DEF ProducerStep, Produce, SendMessage, SendRejected, Outcome, PauseEnds, ProducerBreaks,
   ProducerEnds, SignalProducer

LEMMA ConsumerFrame ==
  ASSUME ConsumerStep
  PROVE  UNCHANGED <<pvars, log, consumer, reset>>
BY DEF ConsumerStep, Start, Consume, Poll, Handle, LeaveLoop, Close, PollFails, AutoCommit,
   SignalConsumer, Halt, Crash, cvars

LEMMA Bounds ==
  /\ MaxMessages \in Nat /\ MaxPoll \in Nat \ {0} /\ QueueLimit \in Nat \ {0}
  /\ MaxFails \in Nat /\ MaxErrs \in Nat /\ MaxSignals \in Nat
  /\ MaxCrashes \in Nat /\ MaxStarts \in Nat
BY ClientsType

-----------------------------------------------------------------------------
(* Types.                                                                  *)

\* A producer that waits for a send has not numbered the next message yet.
Waiting == ppc = "wait" => message_id < MaxMessages /\ AwaitsSend

ProducerInv == ProducerTypes /\ Waiting

LEMMA InitTypes == Init => TypeOK /\ ProducerInv
<1> SUFFICES ASSUME Init PROVE TypeOK /\ ProducerInv
  OBVIOUS
<1> USE Bounds, ClientsType DEF Init
<1>0. /\ log \in Seq(0 .. MaxMessages - 1) /\ outbox \in Seq(0 .. MaxMessages - 1)
      /\ Len(log) = 0
  OBVIOUS
<1>1. ProducerInv
  BY <1>0 DEF ProducerInv, ProducerTypes, Waiting
<1>2. ConsumerTypes
  BY <1>0 DEF ConsumerTypes, NoOffset
<1>3. Flags
  BY Zenon DEF Flags
<1>4. <<producer, consumer>> \in Pairs
  <2>1. PICK pair \in Pairs : producer = pair[1] /\ consumer = pair[2]
    OBVIOUS
  <2> QED
    BY <2>1
<1>5. reset \in {"latest", "earliest"} /\ signals \in [p : 0 .. MaxSignals, c : 0 .. MaxSignals]
  OBVIOUS
<1> QED
  BY <1>1, <1>2, <1>3, <1>4, <1>5 DEF TypeOK, ProducerInv

\* The producer's steps keep its types, and the log only grows.
LEMMA ProducerTypesStep ==
  ASSUME ProducerInv, ProducerStep
  PROVE  ProducerInv' /\ Len(log') >= Len(log)
<1> USE Bounds DEF ProducerInv, ProducerTypes, Waiting
<1>1. CASE SendMessage
  <2>1. outbox' \in Seq(0 .. MaxMessages - 1)
    <3>1. outbox' = outbox \/ outbox' = Append(outbox, message_id)
      BY <1>1 DEF SendMessage
    <3>2. message_id \in 0 .. MaxMessages - 1
      BY <1>1 DEF SendMessage
    <3>3. Append(outbox, message_id) \in Seq(0 .. MaxMessages - 1)
      BY <3>2, AppendProperties
    <3> QED
      BY <3>1, <3>3
  <2>2. /\ ppc' \in {"stopped", "wait", "send", "pause"}
        /\ message_id' \in 0 .. MaxMessages
        /\ Waiting'
    BY <1>1 DEF SendMessage, AwaitsSend, AfterSend
  <2> QED
    BY <1>1, <2>1, <2>2 DEF SendMessage, psignals
<1>2. CASE SendRejected
  BY <1>2 DEF SendRejected, psignals
<1>3. CASE Outcome
  <2>1. /\ outbox' = Tail(outbox) /\ outbox # <<>>
        /\ log' = log \/ log' = Append(log, Head(outbox))
        /\ producer' = producer
    BY <1>3 DEF Outcome
  <2>2. outbox' \in Seq(0 .. MaxMessages - 1) /\ Head(outbox) \in 0 .. MaxMessages - 1
    BY <2>1, HeadTailProperties
  <2>3. log' \in Seq(0 .. MaxMessages - 1) /\ Len(log') >= Len(log)
    <3>1. CASE log' = log
      BY <3>1
    <3>2. CASE log' = Append(log, Head(outbox))
      BY <3>2, <2>2, AppendProperties
    <3> QED
      BY <2>1, <3>1, <3>2
  <2>4. /\ ppc' \in {"send", "wait", "pause", "stopped", "closing", "ended", "killed"}
        /\ message_id' \in 0 .. MaxMessages
        /\ fails' \in 0 .. MaxFails
        /\ Waiting'
    BY <1>3 DEF Outcome, AfterSend, AwaitsSend
  <2> QED
    BY <1>3, <2>2, <2>3, <2>4 DEF Outcome, psignals
<1>4. CASE PauseEnds
  BY <1>4 DEF PauseEnds, AwaitsSend
<1>5. CASE ProducerBreaks
  BY <1>5 DEF ProducerBreaks, psignals
<1>6. CASE ProducerEnds
  BY <1>6 DEF ProducerEnds, psignals
<1>7. CASE SignalProducer
  BY <1>7 DEF SignalProducer, AwaitsSend
<1> QED
  BY <1>1, <1>2, <1>3, <1>4, <1>5, <1>6, <1>7 DEF ProducerStep, Produce

LEMMA ConsumerTypesStep ==
  ASSUME ConsumerTypes, log \in Seq(0 .. MaxMessages - 1), ConsumerStep
  PROVE  ConsumerTypes'
<1>0. Len(log) \in Nat /\ log' = log
  BY LenProperties, ConsumerFrame
<1> USE Bounds, <1>0 DEF ConsumerTypes, NoOffset, counts
<1>1. CASE Start
  BY <1>1 DEF Start, StartOffset
<1>2. CASE Poll
  BY <1>2 DEF Poll, BatchLimit
<1>3. CASE Handle
  <2>1. handled' \in [0 .. MaxMessages - 1 -> Nat]
    <3> HIDE DEF counts, NoOffset
    <3>1. handled' = [o \in 0 .. MaxMessages - 1 |->
                        IF o = next THEN handled[o] + 1 ELSE handled[o]]
      BY <1>3, Zenon DEF Handle
    <3>2. \A o \in 0 .. MaxMessages - 1 : handled[o] \in Nat
      OBVIOUS
    <3> QED
      BY <3>1, <3>2
  <2>2. /\ next' \in 0 .. Len(log) /\ fetched' \in next' .. Len(log)
        /\ cpc' = IF next' = fetched' THEN "poll" ELSE "handle"
    BY <1>3 DEF Handle, NextOffset
  <2> QED
    BY <1>3, <2>1, <2>2 DEF Handle
<1>4. CASE LeaveLoop
  BY <1>4 DEF LeaveLoop
<1>5. CASE Close
  BY <1>5 DEF Close, OffsetAtClose
<1>6. CASE PollFails
  BY <1>6 DEF PollFails
<1>7. CASE AutoCommit
  BY <1>7 DEF AutoCommit, cvars
<1>8. CASE SignalConsumer
  <2>1. /\ cpc' \in {"closing", "ended", cpc}
        /\ UNCHANGED <<committed, next, fetched, errs, counts>>
    BY <1>8, Zenon DEF SignalConsumer
  <2> QED
    BY <2>1
<1>9. CASE Halt
  BY <1>9 DEF Halt
<1>10. CASE Crash
  BY <1>10 DEF Crash
<1> QED
  BY <1>1, <1>2, <1>3, <1>4, <1>5, <1>6, <1>7, <1>8, <1>9, <1>10 DEF ConsumerStep, Consume

LEMMA FlagsStep ==
  ASSUME Flags, [Next]_vars
  PROVE  Flags'
<1> USE DEF Flags
<1>1. CASE ProducerStep
  <2>1. UNCHANGED <<heard, asked>>
    BY <1>1, ProducerFrame DEF cvars, csignals
  <2> QED
    BY <1>1, <2>1, Zenon DEF ProducerStep, Produce, SendMessage, SendRejected, Outcome, PauseEnds,
      ProducerBreaks, ProducerEnds, SignalProducer, psignals
<1>2. CASE ConsumerStep
  <2>1. UNCHANGED <<hook, pheard, pasked>>
    BY <1>2, ConsumerFrame DEF pvars, psignals
  <2> QED
    BY <1>2, <2>1, Zenon DEF ConsumerStep, Start, Consume, Poll, Handle, LeaveLoop, Close,
      PollFails, AutoCommit, SignalConsumer, Halt, Crash, cvars, csignals, Listening
<1>3. CASE UNCHANGED vars
  BY <1>3 DEF vars, pvars, psignals, cvars, csignals
<1> QED
  BY <1>1, <1>2, <1>3, StepKinds

TypeInv == TypeOK /\ Waiting

LEMMA TypeInvStep ==
  ASSUME TypeInv, [Next]_vars
  PROVE  TypeInv'
<1>0. ProducerInv /\ ConsumerTypes /\ Flags /\ log \in Seq(0 .. MaxMessages - 1)
  BY DEF TypeInv, TypeOK, ProducerInv, ProducerTypes
<1>1. Flags'
  BY <1>0, FlagsStep
<1>2. ProducerInv' /\ ConsumerTypes'
  <2>1. CASE ProducerStep
    <3>1. ProducerInv' /\ Len(log') >= Len(log)
      BY <2>1, <1>0, ProducerTypesStep
    <3>2. UNCHANGED <<committed, cvars>>
      BY <2>1, ProducerFrame
    <3>3. Len(log) \in Nat /\ Len(log') \in Nat
      BY <1>0, <3>1, LenProperties DEF ProducerInv, ProducerTypes
    <3>4. ConsumerTypes'
      BY <1>0, <3>1, <3>2, <3>3 DEF ConsumerTypes, cvars, counts, NoOffset
    <3> QED
      BY <3>1, <3>4
  <2>2. CASE ConsumerStep
    <3>1. ConsumerTypes'
      BY <2>2, <1>0, ConsumerTypesStep
    <3>2. UNCHANGED <<pvars, log>>
      BY <2>2, ConsumerFrame
    <3> QED
      BY <1>0, <3>1, <3>2 DEF ProducerInv, ProducerTypes, Waiting, AwaitsSend, pvars
  <2>3. CASE UNCHANGED vars
    BY <2>3, <1>0 DEF vars, pvars, cvars, counts, ProducerInv, ProducerTypes, Waiting, AwaitsSend,
      ConsumerTypes
  <2> QED
    BY <2>1, <2>2, <2>3, StepKinds
<1>3. signals' \in [p : 0 .. MaxSignals, c : 0 .. MaxSignals]
  <2>0. signals \in [p : 0 .. MaxSignals, c : 0 .. MaxSignals]
    BY DEF TypeInv, TypeOK
  <2>1. CASE SignalProducer
    BY <2>0, <2>1, Bounds DEF SignalProducer
  <2>2. CASE SignalConsumer
    BY <2>0, <2>2, Bounds DEF SignalConsumer
  <2>3. CASE ~SignalProducer /\ ~SignalConsumer
    <3>1. signals' = signals
      BY <2>3 DEF Next, vars, Produce, SendMessage, SendRejected, Outcome, PauseEnds,
        ProducerBreaks, ProducerEnds, Start, Consume, Poll, Handle, LeaveLoop, Close, PollFails,
        AutoCommit, Halt, Crash
    <3> QED
      BY <2>0, <3>1
  <2> QED
    BY <2>1, <2>2, <2>3
<1>4. <<producer', consumer'>> \in Pairs /\ reset' \in {"latest", "earliest"}
  <2>1. UNCHANGED <<producer, consumer, reset>>
    BY StepKinds, ProducerFrame, ConsumerFrame DEF vars, pvars, cvars
  <2> QED
    BY <2>1 DEF TypeInv, TypeOK
<1> QED
  BY <1>1, <1>2, <1>3, <1>4 DEF TypeInv, TypeOK, ProducerInv

LEMMA TypeInvAlways == Spec => []TypeInv
<1>1. Init => TypeInv
  BY InitTypes DEF TypeInv, ProducerInv
<1>2. TypeInv /\ [Next]_vars => TypeInv'
  BY TypeInvStep
<1> QED
  BY <1>1, <1>2, PTL DEF Spec

\* Every variable keeps its type, and the consumer's places in the topic stay in their order:
\* committed and logged offsets, the position of the client, the end of the topic.
THEOREM TypeCorrect == Spec => []TypeOK
<1>1. TypeInv => TypeOK
  BY DEF TypeInv
<1> QED
  BY <1>1, TypeInvAlways, PTL

-----------------------------------------------------------------------------
(* What a producer leaves behind.                                          *)

\* Who has a hook, who listens, and that the stream producers only ever send.
Roles ==
    /\ (hook => producer \in {"java", "scala"}) /\ (pheard => producer \in {"krafka", "rust"})
    /\ producer \in StreamClients => ppc \in {"send", "wait", "killed"}

\* rust holds a message only while it waits for it.
RustHolds == producer = "rust" /\ ppc # "killed" => Len(outbox) = IF ppc = "wait" THEN 1 ELSE 0

\* Every message is in the topic, in the client, or has failed; the stream producers drop some.
Whereabouts ==
    producer \notin StreamClients =>
        Len(log) + fails + Len(outbox) >= message_id + IF ppc = "wait" THEN 1 ELSE 0

EmptyAtEnd == ppc = "ended" => outbox = <<>>

Delivering == Roles /\ RustHolds /\ Whereabouts /\ EmptyAtEnd

LEMMA InitDelivering == Init => Delivering
<1> SUFFICES ASSUME Init PROVE Delivering
  OBVIOUS
<1>1. Roles
  BY Zenon DEF Init, Roles
<1>2. RustHolds /\ Whereabouts /\ EmptyAtEnd
  BY DEF Init, RustHolds, Whereabouts, EmptyAtEnd
<1> QED
  BY <1>1, <1>2 DEF Delivering

LEMMA RolesStep ==
  ASSUME Roles, ProducerStep
  PROVE  Roles'
<1> USE DEF Roles, StreamClients, psignals
<1>1. CASE SendMessage
  BY <1>1, Zenon DEF SendMessage, AfterSend
<1>2. CASE SendRejected
  BY <1>2, Zenon DEF SendRejected
<1>3. CASE Outcome
  BY <1>3, Zenon DEF Outcome, AfterSend
<1>4. CASE PauseEnds
  BY <1>4, Zenon DEF PauseEnds
<1>5. CASE ProducerBreaks
  BY <1>5, Zenon DEF ProducerBreaks
<1>6. CASE ProducerEnds
  BY <1>6, Zenon DEF ProducerEnds
<1>7. CASE SignalProducer
  <2>1. hook' => producer' \in {"java", "scala"}
    BY <1>7, Zenon DEF SignalProducer
  <2>2. pheard' => producer' \in {"krafka", "rust"}
    BY <1>7, Zenon DEF SignalProducer
  <2>3. producer' = producer
    BY <1>7 DEF SignalProducer
  <2>4. CASE producer \notin StreamClients
    BY <2>1, <2>2, <2>3, <2>4
  <2>5. CASE producer \in StreamClients
    <3>1. ppc' = "killed"
      <4>1. producer \notin {"krafka", "rust", "java", "scala", "ruby"}
        BY <2>5
      <4> QED
        BY <1>7, <4>1, Zenon DEF SignalProducer
    <3> QED
      BY <2>1, <2>2, <3>1
  <2> QED
    BY <2>4, <2>5
<1> QED
  BY <1>1, <1>2, <1>3, <1>4, <1>5, <1>6, <1>7 DEF ProducerStep, Produce

LEMMA DeliveringStep ==
  ASSUME TypeInv, Delivering, ProducerStep
  PROVE  Delivering'
<1>0. /\ ProducerInv /\ Roles
      /\ Len(log) \in Nat /\ Len(outbox) \in Nat /\ (outbox = <<>> <=> Len(outbox) = 0)
      /\ log \in Seq(0 .. MaxMessages - 1) /\ outbox \in Seq(0 .. MaxMessages - 1)
  BY LenProperties, EmptySeq DEF TypeInv, TypeOK, ProducerInv, ProducerTypes, Delivering
<1>1. Roles'
  BY RolesStep DEF Delivering
<1>2. (RustHolds /\ Whereabouts /\ EmptyAtEnd)'
  <2> USE <1>0, Bounds DEF Delivering, RustHolds, Whereabouts, EmptyAtEnd, ProducerInv,
        ProducerTypes, POver
  <2>1. CASE SendMessage
    <3>1. /\ producer' = producer /\ fails' = fails /\ log' = log
          /\ \/ ppc' = "stopped" /\ UNCHANGED <<outbox, message_id>>
             \/ /\ outbox' = Append(outbox, message_id)
                /\ ppc' = "wait" /\ message_id' = message_id
             \/ /\ outbox' = Append(outbox, message_id) /\ producer # "rust"
                /\ ppc' \in {"pause", "send"} /\ message_id' = message_id + 1
          /\ ppc = "send"
      BY <2>1, Zenon DEF SendMessage, AwaitsSend, AfterSend
    <3>2. Len(Append(outbox, message_id)) = Len(outbox) + 1
      BY AppendProperties
    <3>3. CASE UNCHANGED <<outbox, message_id>> /\ ppc' = "stopped"
      BY <3>1, <3>3
    <3>4. CASE /\ outbox' = Append(outbox, message_id)
               /\ ppc' = "wait" /\ message_id' = message_id
      <4>1. Len(outbox') = Len(outbox) + 1
        BY <3>2, <3>4
      <4>2. RustHolds'
        BY <3>1, <3>4, <4>1
      <4>3. Whereabouts'
        BY <3>1, <3>4, <4>1
      <4> QED
        BY <3>4, <4>2, <4>3
    <3>5. CASE /\ outbox' = Append(outbox, message_id) /\ producer # "rust"
               /\ ppc' \in {"pause", "send"} /\ message_id' = message_id + 1
      <4>1. Len(outbox') = Len(outbox) + 1
        BY <3>2, <3>5
      <4> QED
        BY <3>1, <3>5, <4>1
    <3> QED
      BY <3>1, <3>3, <3>4, <3>5
  <2>2. CASE SendRejected
    BY <2>2 DEF SendRejected, StreamClients
  <2>3. CASE Outcome
    <3>1. /\ producer' = producer /\ ppc # "ended"
          /\ outbox # <<>> /\ outbox' = Tail(outbox)
          /\ \/ log' = Append(log, Head(outbox)) /\ fails' = fails
             \/ fails' = fails + 1 /\ log' = log
          /\ \/ ppc = "wait" /\ ppc' \in {"send", "pause"} /\ message_id' = message_id + 1
             \/ ppc # "wait" /\ ppc' = ppc /\ message_id' = message_id
      BY <2>3, Zenon DEF Outcome, AfterSend
    <3>2. Len(Tail(outbox)) = Len(outbox) - 1 /\ Len(Append(log, Head(outbox))) = Len(log) + 1
      BY <3>1, HeadTailProperties, AppendProperties
    <3>3. Len(outbox') = Len(outbox) - 1 /\ Len(log') + fails' = Len(log) + fails + 1
      BY <3>1, <3>2
    <3>4. RustHolds' /\ EmptyAtEnd'
      BY <3>1, <3>3
    <3>5. Whereabouts'
      BY <3>1, <3>3
    <3> QED
      BY <3>4, <3>5
  <2>4. CASE PauseEnds
    BY <2>4 DEF PauseEnds
  <2>5. CASE ProducerBreaks
    BY <2>5 DEF ProducerBreaks
  <2>6. CASE ProducerEnds
    <3>1. /\ ~POver /\ ppc' = "ended" /\ UNCHANGED <<producer, message_id, outbox, fails, log>>
          /\ producer = "rust" \/ outbox = <<>>
          /\ ppc = "closing" \/ hook
      BY <2>6, Zenon DEF ProducerEnds, Flushed
    <3>2. producer = "rust" => ppc = "closing"
      BY <3>1, Zenon DEF Roles
    <3>3. producer = "rust" => outbox = <<>>
      <4> SUFFICES ASSUME producer = "rust" PROVE outbox = <<>>
        OBVIOUS
      <4>1. Len(outbox) = 0
        BY <3>2
      <4> QED
        BY <4>1
    <3>4. UNCHANGED <<producer, outbox, message_id, fails, log>> /\ ppc' = "ended"
          /\ outbox = <<>> /\ ppc # "killed"
      BY <3>1, <3>3, Zenon
    <3>5. Len(outbox) = 0
      BY <3>4
    <3>6. RustHolds'
      BY <3>4, <3>5
    <3>7. EmptyAtEnd'
      BY <3>4
    <3>8. Whereabouts'
      BY <3>4, <3>5
    <3> QED
      BY <3>6, <3>7, <3>8
  <2>7. CASE SignalProducer
    <3>1. /\ UNCHANGED <<producer, message_id, outbox, fails, log>>
          /\ ppc # "ended" /\ ppc' \in {ppc, "killed", "closing"}
          /\ producer = "rust" => ppc' \in {ppc, "killed"}
      BY <2>7, Zenon DEF SignalProducer, StreamClients
    <3> QED
      BY <3>1
  <2> QED
    BY <2>1, <2>2, <2>3, <2>4, <2>5, <2>6, <2>7 DEF ProducerStep, Produce
<1> QED
  BY <1>1, <1>2 DEF Delivering

\* Any number of messages and failures: a producer that ends by itself, by close() or by
\* returning from main, has no message left in its client, and each message it numbered is in
\* the topic or had a failure that was logged.
THEOREM NothingLeftTheorem == Spec => []NothingLeft
<1>1. Init => Delivering
  BY InitDelivering
<1>2. TypeInv /\ Delivering /\ [Next]_vars => Delivering'
  <2> SUFFICES ASSUME TypeInv, Delivering, [Next]_vars PROVE Delivering'
    OBVIOUS
  <2>1. CASE ProducerStep
    BY <2>1, DeliveringStep
  <2>2. CASE UNCHANGED <<pvars, log>>
    BY <2>2, Zenon DEF Delivering, Roles, RustHolds, Whereabouts, EmptyAtEnd, pvars, psignals
  <2> QED
    BY <2>1, <2>2, StepKinds, ConsumerFrame DEF vars
<1>3. TypeInv /\ Delivering => NothingLeft
  <2> SUFFICES ASSUME TypeInv, Delivering, ppc = "ended"
               PROVE  outbox = <<>> /\ Len(log) + fails >= message_id
    BY DEF NothingLeft
  <2>1. Len(log) \in Nat /\ fails \in Nat /\ message_id \in Nat
    BY LenProperties, Bounds DEF TypeInv, TypeOK, ProducerTypes
  <2>2. outbox = <<>> /\ producer \notin StreamClients
    BY DEF Delivering, EmptyAtEnd, Roles
  <2> QED
    BY <2>1, <2>2 DEF Delivering, Whereabouts
<1> QED
  BY <1>1, <1>2, <1>3, TypeInvAlways, PTL DEF Spec
=============================================================================
