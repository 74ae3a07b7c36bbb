----------------------- MODULE MessageOffsets_proofs ------------------------
(***************************************************************************)
(* Proofs about the consumers of MessageClients and their offsets: which   *)
(* messages are logged again, and how many are committed but never logged. *)
(***************************************************************************)
EXTENDS MessageClients_proofs

-----------------------------------------------------------------------------
(* Logged again.                                                           *)

\* Where the next start begins at the earliest.
Resume == IF committed = NoOffset THEN 0 ELSE committed

\* The ends without a commit, and those that have happened: a JVM that has seen its SIGINT may
\* yet halt, once.
Ends == unclean + Interrupted
Spent == IF JavaClient /\ heard /\ cpc # "ended" THEN Ends - 1 ELSE Ends

\* What lies ahead of the consumer, or of the next one, was logged at most once for each end
\* without a commit; what lies behind, at most once more.
Repeats ==
    /\ JavaClient /\ heard => signals.c > 0
    /\ \A o \in 0 .. MaxMessages - 1 :
         /\ handled[o] <= 1 + Spent
         /\ cpc # "ended" /\ o >= next => handled[o] <= Spent
         /\ cpc = "ended" /\ o >= Resume => handled[o] <= Spent

\* A step that logs nothing: what it does to the counts and to the consumer's place decides.
LEMMA RepeatsQuiet ==
  ASSUME ConsumerTypes, ConsumerTypes', log' = log, Len(log) \in Nat, Repeats,
         UNCHANGED handled, Spent \in Int, Spent' \in Int,
         Spent' >= Spent, (JavaClient /\ heard => signals.c > 0)',
         \/ Spent' >= Spent + 1
         \/ cpc # "ended" /\ cpc' # "ended" /\ next' = next
         \/ cpc = "ended" /\ cpc' # "ended" /\ next' >= Resume
         \/ cpc # "ended" /\ cpc' = "ended" /\ committed' >= next
         \/ UNCHANGED <<cpc, next, committed>>
  PROVE  Repeats'
<1>1. \A o \in 0 .. MaxMessages - 1 : handled[o] \in Nat /\ handled'[o] = handled[o]
  BY DEF ConsumerTypes
<1>2. /\ next \in Int /\ committed \in Int /\ Resume \in Int /\ next >= 0
      /\ next' \in Int /\ committed' \in Int
  BY DEF ConsumerTypes, Resume, NoOffset
<1>3. UNCHANGED <<cpc, next, committed>> => Resume' = Resume
  BY DEF Resume
<1>4. committed' >= next => Resume' = committed'
  BY <1>2 DEF Resume, NoOffset
<1> HIDE DEF Spent, Resume
<1>5. ASSUME NEW o \in 0 .. MaxMessages - 1
      PROVE  /\ handled'[o] <= 1 + Spent'
             /\ cpc' # "ended" /\ o >= next' => handled'[o] <= Spent'
             /\ cpc' = "ended" /\ o >= Resume' => handled'[o] <= Spent'
  <2>1. /\ handled[o] \in Nat /\ handled'[o] = handled[o]
        /\ handled[o] <= 1 + Spent
        /\ cpc # "ended" /\ o >= next => handled[o] <= Spent
        /\ cpc = "ended" /\ o >= Resume => handled[o] <= Spent
    BY <1>1 DEF Repeats
  <2>2. CASE Spent' >= Spent + 1
    BY <2>1, <2>2
  <2>3. CASE cpc # "ended" /\ cpc' # "ended" /\ next' = next
    BY <2>1, <2>3
  <2>4. CASE cpc = "ended" /\ cpc' # "ended" /\ next' >= Resume
    <3>1. o >= next' => o >= Resume
      BY <1>2, <2>4
    <3> QED
      BY <2>1, <2>4, <3>1
  <2>5. CASE cpc # "ended" /\ cpc' = "ended" /\ committed' >= next
    <3>1. o >= Resume' => o >= next
      BY <1>2, <1>4, <2>5
    <3> QED
      BY <2>1, <2>5, <3>1
  <2>6. CASE UNCHANGED <<cpc, next, committed>>
    BY <1>3, <2>1, <2>6
  <2> QED
    BY <2>2, <2>3, <2>4, <2>5, <2>6
<1> QED
  BY <1>5 DEF Repeats

LEMMA RepeatsStep ==
  ASSUME ConsumerTypes, Flags, signals \in [p : 0 .. MaxSignals, c : 0 .. MaxSignals],
         log \in Seq(0 .. MaxMessages - 1), Repeats, ConsumerStep
  PROVE  Repeats'
<1>t. ConsumerTypes' /\ log' = log
  <2>1. ConsumerTypes' /\ log' = log
    BY ConsumerTypesStep, ConsumerFrame
  <2> QED
    BY <2>1
<1>0. /\ \A o \in 0 .. MaxMessages - 1 : handled[o] \in Nat
      /\ unclean \in Nat /\ signals.c \in Nat /\ next \in Nat /\ fetched >= next
      /\ fetched \in Nat /\ committed \in Int /\ Len(log) \in Nat
  BY Bounds, LenProperties DEF ConsumerTypes, NoOffset
<1>1. consumer' = consumer /\ JavaClient' = JavaClient
  BY ConsumerFrame DEF JavaClient
<1>2. Interrupted \in Nat /\ Ends \in Nat /\ Spent \in Int /\ Ends >= Spent
  BY <1>0 DEF Interrupted, Ends, Spent
<1>3. signals' = signals => Interrupted' = Interrupted
  BY <1>1 DEF Interrupted, EndsBeforeCommit, JavaClient
<1>4. CASE Start
  <2>1. /\ cpc = "ended" /\ cpc' = "poll" /\ UNCHANGED <<handled, unclean, signals>>
        /\ heard' = FALSE /\ next' = StartOffset
    BY <1>4, Zenon DEF Start
  <2>2. next' >= Resume
    BY <1>0, <2>1 DEF StartOffset, Resume, NoOffset
  <2>3. Spent' = Spent
    BY <1>1, <1>3, <2>1, Zenon DEF Spent, Ends
  <2> QED
    BY <1>2, <2>1, <2>2, <2>3, <1>t, RepeatsQuiet
<1>5. CASE Handle
  <2>1. /\ cpc = "handle" /\ cpc' # "ended" /\ next' = next + 1
        /\ UNCHANGED <<unclean, heard, signals>>
        /\ handled' = [o \in 0 .. MaxMessages - 1 |->
                         IF o = next THEN handled[o] + 1 ELSE handled[o]]
    BY <1>5, Zenon DEF Handle, NextOffset, ConsumerTypes, csignals
  <2>2. Spent' = Spent
    BY <1>1, <1>3, <2>1, Zenon DEF Spent, Ends
  <2>3. ASSUME NEW o \in 0 .. MaxMessages - 1
        PROVE  handled'[o] <= 1 + Spent' /\ (o >= next' => handled'[o] <= Spent')
    <3>1. /\ handled[o] \in Nat /\ handled[o] <= 1 + Spent
          /\ o >= next => handled[o] <= Spent
      BY <1>0, <2>1 DEF Repeats
    <3>2. handled'[o] = IF o = next THEN handled[o] + 1 ELSE handled[o]
      BY <2>1
    <3> HIDE DEF Spent
    <3> QED
      BY <1>0, <1>2, <2>1, <2>2, <3>1, <3>2
  <2>4. (JavaClient /\ heard => signals.c > 0)'
    BY <1>1, <2>1 DEF Repeats
  <2> QED
    BY <2>1, <2>3, <2>4 DEF Repeats
<1>6. CASE Close
  <2>1. /\ cpc = "closing" /\ cpc' = "ended" /\ UNCHANGED <<handled, heard, signals>>
        /\ \/ committed' = fetched /\ unclean' = unclean
           \/ unclean' = unclean + 1 /\ committed' = committed
    BY <1>6, Zenon DEF Close, OffsetAtClose, csignals
  <2>2. Spent' = unclean' + Interrupted
    BY <1>3, <2>1 DEF Spent, Ends
  <2>3. Spent' \in Int /\ Spent' >= Spent /\ (unclean' = unclean + 1 => Spent' >= Spent + 1)
    BY <1>0, <1>2, <2>1, <2>2 DEF Ends
  <2>4. (JavaClient /\ heard => signals.c > 0)'
    BY <1>1, <2>1 DEF Repeats
  <2> QED
    BY <1>0, <1>2, <2>1, <2>3, <2>4, <1>t, RepeatsQuiet
<1>7. CASE AutoCommit \/ Poll \/ PollFails \/ LeaveLoop
  <2>1. /\ cpc # "ended" /\ cpc' # "ended" /\ UNCHANGED <<next, handled, unclean, signals>>
        /\ heard' = heard \/ (heard' = FALSE /\ consumer = "krafka")
    <3>1. CASE AutoCommit
      BY <3>1, Zenon DEF AutoCommit, CommitsNow, cvars, counts, csignals
    <3>2. CASE Poll
      <4>1. heard' = heard \/ (heard' = FALSE /\ consumer = "krafka")
        BY <3>2 DEF Poll, Flags
      <4> QED
        BY <3>2, <4>1 DEF Poll, counts
    <3>3. CASE PollFails
      <4>1. heard' = heard \/ (heard' = FALSE /\ consumer = "krafka")
        BY <3>3 DEF PollFails, Flags
      <4> QED
        BY <3>3, <4>1 DEF PollFails, counts
    <3>4. CASE LeaveLoop
      BY <3>4 DEF LeaveLoop, counts, csignals
    <3> QED
      BY <1>7, <3>1, <3>2, <3>3, <3>4
  <2>2. (JavaClient /\ heard)' = (JavaClient /\ heard)
    BY <1>1, <2>1 DEF JavaClient
  <2>3. Spent' = Spent
    BY <1>3, <2>1, <2>2, Zenon DEF Spent, Ends
  <2>4. (JavaClient /\ heard => signals.c > 0)'
    BY <2>1, <2>2 DEF Repeats
  <2> QED
    BY <1>2, <2>1, <2>3, <2>4, <1>t, RepeatsQuiet
<1>8. CASE SignalConsumer
  <2>1. /\ cpc # "ended" /\ UNCHANGED <<next, handled, unclean, committed>>
        /\ signals'.c = signals.c + 1
        /\ \/ consumer \in {"python", "ruby"} /\ cpc' = "closing"
           \/ consumer \in StreamClients /\ cpc' = "ended"
           \/ consumer \notin {"python", "ruby"} \cup StreamClients /\ cpc' = cpc
    <3>1. signals' = [signals EXCEPT !.c = @ + 1] /\ signals \in [p : Nat, c : Nat]
      BY <1>8, Bounds DEF SignalConsumer
    <3> QED
      BY <1>8, <3>1, Zenon DEF SignalConsumer, counts
  <2>2. Interrupted' = IF EndsBeforeCommit THEN Interrupted + 1 ELSE Interrupted
    BY <1>0, <1>1, <2>1 DEF Interrupted, EndsBeforeCommit, JavaClient
  <2>3. /\ Ends' = IF EndsBeforeCommit THEN Ends + 1 ELSE Ends
        /\ Ends' \in Int
    BY <1>0, <1>2, <2>1, <2>2 DEF Ends
  <2>4. /\ Spent' \in Int /\ Spent' >= Spent
        /\ consumer \in StreamClients => Spent' >= Spent + 1
    <3>1. Spent' = IF JavaClient /\ heard' /\ cpc' # "ended" THEN Ends' - 1 ELSE Ends'
      BY <1>1 DEF Spent
    <3>2. JavaClient => consumer \notin StreamClients /\ EndsBeforeCommit
      BY DEF JavaClient, StreamClients, EndsBeforeCommit
    <3>3. consumer \in StreamClients => EndsBeforeCommit
      BY DEF EndsBeforeCommit
    <3> HIDE DEF Spent, Ends
    <3> QED
      BY <1>2, <2>3, <3>1, <3>2, <3>3
  <2>5. (JavaClient /\ heard => signals.c > 0)'
    BY <1>0, <2>1
  <2> QED
    BY <1>0, <1>2, <2>1, <2>4, <2>5, <1>t, RepeatsQuiet
<1>9. CASE Halt
  <2>1. /\ cpc # "ended" /\ cpc' = "ended" /\ JavaClient /\ heard
        /\ UNCHANGED <<handled, unclean, heard, signals>>
    BY <1>9, Zenon DEF Halt, counts, csignals
  <2>2. Spent = Ends - 1 /\ Spent' = Ends
    BY <1>3, <2>1 DEF Spent, Ends
  <2>3. (JavaClient /\ heard => signals.c > 0)'
    BY <2>1 DEF Repeats
  <2>4. Spent' \in Int /\ Spent' >= Spent + 1 /\ Spent' >= Spent
    BY <1>2, <2>2
  <2> QED
    BY <1>2, <2>1, <2>3, <2>4, <1>t, RepeatsQuiet
<1>10. CASE Crash
  <2>1. /\ cpc' = "ended" /\ unclean' = unclean + 1 /\ UNCHANGED <<handled, heard, signals>>
    BY <1>10, Zenon DEF Crash, csignals
  <2>2. Spent' = unclean + 1 + Interrupted
    BY <1>3, <2>1 DEF Spent, Ends
  <2>3. Spent' \in Int /\ Spent' >= Spent + 1 /\ Spent' >= Spent
    BY <1>0, <1>2, <2>2 DEF Ends
  <2>4. (JavaClient /\ heard => signals.c > 0)'
    BY <1>1, <2>1 DEF Repeats
  <2> QED
    BY <1>2, <2>1, <2>3, <2>4, <1>t, RepeatsQuiet
<1> QED
  BY <1>4, <1>5, <1>6, <1>7, <1>8, <1>9, <1>10 DEF ConsumerStep, Consume

LEMMA RepeatsAlways == Spec => []Repeats
<1>1. Init => Repeats
  <2> SUFFICES ASSUME Init PROVE Repeats
    OBVIOUS
  <2>1. /\ unclean = 0 /\ handled = [o \in 0 .. MaxMessages - 1 |-> 0] /\ heard = FALSE
        /\ cpc = "ended" /\ signals.c = 0
    BY Zenon DEF Init
  <2>2. Spent = 0
    BY <2>1 DEF Spent, Ends, Interrupted
  <2> QED
    BY <2>1, <2>2, Bounds DEF Repeats
<1>2. TypeInv /\ Repeats /\ [Next]_vars => Repeats'
  <2> SUFFICES ASSUME TypeInv, Repeats, [Next]_vars PROVE Repeats'
    OBVIOUS
  <2>1. /\ ConsumerTypes /\ Flags /\ log \in Seq(0 .. MaxMessages - 1)
        /\ signals \in [p : 0 .. MaxSignals, c : 0 .. MaxSignals]
    BY LenProperties DEF TypeInv, TypeOK, ProducerTypes
  <2>2. CASE ConsumerStep
    BY <2>1, <2>2, RepeatsStep
  <2>3. CASE ProducerStep \/ UNCHANGED vars
    <3>1. /\ UNCHANGED <<cpc, next, committed, handled, unclean, consumer, heard>>
          /\ signals'.c = signals.c
      <4>1. UNCHANGED <<cpc, next, committed, handled, unclean, consumer, heard>>
        BY <2>3, ProducerFrame DEF vars, cvars, counts, csignals
      <4>2. signals'.c = signals.c
        BY <2>1, <2>3, Zenon DEF vars, ProducerStep, Produce, SendMessage, SendRejected, Outcome,
          PauseEnds, ProducerBreaks, ProducerEnds, SignalProducer
      <4> QED
        BY <4>1, <4>2
    <3> QED
      BY <3>1 DEF Repeats, Resume, Spent, Ends, Interrupted, EndsBeforeCommit, JavaClient
  <2> QED
    BY <2>2, <2>3, StepKinds
<1> QED
  BY <1>1, <1>2, TypeInvAlways, PTL DEF Spec

LEMMA SpentType ==
  ASSUME TypeInv
  PROVE  /\ Ends \in Nat /\ Spent \in Int /\ Spent <= Ends
         /\ \A o \in DOMAIN handled : o \in 0 .. MaxMessages - 1 /\ handled[o] \in Nat
<1>1. unclean \in Nat /\ signals.c \in Nat
  BY Bounds DEF TypeInv, TypeOK, ConsumerTypes
<1>2. Interrupted \in Nat
  BY <1>1 DEF Interrupted
<1>3. Ends \in Nat /\ Spent \in {Ends, Ends - 1}
  BY <1>1, <1>2 DEF Ends, Spent
<1> HIDE DEF Ends, Spent
<1> QED
  BY <1>3 DEF TypeInv, TypeOK, ConsumerTypes

\* Whatever the clients, the signals and the crashes: a message is logged again only after an
\* end of the consumer that did not commit, once for each of them.
THEOREM LoggedAgainTheorem == Spec => []LoggedAgain
<1>1. TypeInv /\ Repeats => LoggedAgain
  <2> SUFFICES ASSUME TypeInv, Repeats, NEW o \in DOMAIN handled
               PROVE  handled[o] <= 1 + unclean + Interrupted
    BY DEF LoggedAgain
  <2>1. handled[o] <= 1 + Spent /\ handled[o] \in Nat /\ Ends \in Nat /\ Spent \in Int
        /\ Spent <= Ends
    BY SpentType DEF Repeats
  <2>2. 1 + Ends = 1 + unclean + Interrupted
    <3>1. unclean \in Nat /\ signals.c \in Nat
      BY Bounds DEF TypeInv, TypeOK, ConsumerTypes
    <3> QED
      BY <3>1 DEF Ends, Interrupted
  <2> HIDE DEF Ends, Spent
  <2> QED
    BY <2>1, <2>2
<1> QED
  BY <1>1, RepeatsAlways, TypeInvAlways, PTL

\* Whatever the signals and the starts: a consumer that has ended without a crash or a failed
\* close has committed all that was ever logged, if SIGINT lets it get to its close.
THEOREM CommittedAtEndTheorem == Spec => []CommittedAtEnd
<1>1. TypeInv /\ Repeats => CommittedAtEnd
  <2> SUFFICES ASSUME TypeInv, Repeats, cpc = "ended", unclean + Interrupted = 0,
                      NEW o \in DOMAIN handled, handled[o] > 0
               PROVE  o < committed
    BY DEF CommittedAtEnd, CommittedLogged
  <2>1. Spent = 0
    BY DEF Spent, Ends
  <2>2. o \in 0 .. MaxMessages - 1 /\ handled[o] \in Nat
    BY SpentType
  <2>3. ~(o >= Resume)
    BY <2>1, <2>2 DEF Repeats
  <2>4. committed \in Int
    BY DEF TypeInv, TypeOK, ConsumerTypes, NoOffset
  <2> QED
    BY <2>2, <2>3, <2>4, Bounds DEF Resume
<1> QED
  BY <1>1, RepeatsAlways, TypeInvAlways, PTL

-----------------------------------------------------------------------------
(* Committed and never logged.                                             *)

\* The topic never holds more than the messages the producer generates.
Capacity ==
    /\ Len(log) + Len(outbox) <= MaxMessages
    /\ ppc \in {"send", "pause"} => Len(log) + Len(outbox) <= message_id
    /\ ppc = "wait" => Len(log) + Len(outbox) <= message_id + 1

LEMMA CapacityStep ==
  ASSUME TypeInv, Capacity, ProducerStep
  PROVE  Capacity'
<1>0. /\ ProducerTypes /\ Waiting
      /\ Len(log) \in Nat /\ Len(outbox) \in Nat
      /\ log \in Seq(0 .. MaxMessages - 1) /\ outbox \in Seq(0 .. MaxMessages - 1)
  BY LenProperties DEF TypeInv, TypeOK, ProducerTypes
<1> USE <1>0, Bounds DEF Capacity, ProducerTypes, Waiting
<1>1. CASE SendMessage
  <2>1. /\ log' = log /\ ppc = "send" /\ message_id < MaxMessages
        /\ \/ ppc' = "stopped" /\ UNCHANGED <<outbox, message_id>>
           \/ /\ outbox' = Append(outbox, message_id)
              /\ \/ ppc' = "wait" /\ message_id' = message_id
                 \/ ppc' \in {"pause", "send"} /\ message_id' = message_id + 1
    BY <1>1, Zenon DEF SendMessage, AfterSend
  <2>2. Len(Append(outbox, message_id)) = Len(outbox) + 1
    BY AppendProperties
  <2>3. CASE ppc' = "stopped" /\ UNCHANGED <<outbox, message_id>>
    BY <2>1, <2>3
  <2>4. CASE /\ outbox' = Append(outbox, message_id)
             /\ \/ ppc' = "wait" /\ message_id' = message_id
                \/ ppc' \in {"pause", "send"} /\ message_id' = message_id + 1
    <3>1. Len(outbox') = Len(outbox) + 1
      BY <2>2, <2>4
    <3> QED
      BY <2>1, <2>4, <3>1
  <2> QED
    BY <2>1, <2>3, <2>4
<1>2. CASE SendRejected
  BY <1>2 DEF SendRejected
<1>3. CASE Outcome
  <2>1. /\ outbox # <<>> /\ outbox' = Tail(outbox)
        /\ log' = Append(log, Head(outbox)) \/ log' = log
        /\ \/ ppc = "wait" /\ ppc' \in {"send", "pause"} /\ message_id' = message_id + 1
           \/ ppc # "wait" /\ ppc' = ppc /\ message_id' = message_id
    BY <1>3, Zenon DEF Outcome, AfterSend
  <2>2. Len(Tail(outbox)) = Len(outbox) - 1 /\ Len(Append(log, Head(outbox))) = Len(log) + 1
    BY <2>1, HeadTailProperties, AppendProperties
  <2>3. Len(outbox') = Len(outbox) - 1 /\ Len(log') \in {Len(log), Len(log) + 1}
    BY <2>1, <2>2
  <2> QED
    BY <2>1, <2>3
<1>4. CASE PauseEnds
  BY <1>4 DEF PauseEnds
<1>5. CASE ProducerBreaks
  BY <1>5 DEF ProducerBreaks
<1>6. CASE ProducerEnds
  BY <1>6 DEF ProducerEnds
<1>7. CASE SignalProducer
  <2>1. UNCHANGED <<message_id, outbox, log>> /\ ppc' \in {ppc, "killed", "closing"}
    BY <1>7, Zenon DEF SignalProducer
  <2> QED
    BY <2>1
<1> QED
  BY <1>1, <1>2, <1>3, <1>4, <1>5, <1>6, <1>7 DEF ProducerStep, Produce

\* Those clients that commit a message only when they are asked for the next one.
CommitsWhenAsked == consumer \in {"java", "scala", "python"}

\* A running consumer: what it has passed was logged or is committed already.
Places ==
    /\ consumer \in Languages
    /\ cpc # "ended" =>
         /\ committed <= fetched
         /\ CommitsWhenAsked => committed <= next
         /\ \A o \in passed .. next - 1 : handled[o] > 0 \/ o < committed
    /\ cpc = "handle" => fetched - next <= BatchLimit

LEMMA PlacesStep ==
  ASSUME ConsumerTypes, Len(log) \in Nat, Len(log) <= MaxMessages, Places, ConsumerStep
  PROVE  Places'
<1>0. consumer' = consumer /\ consumer \in Languages /\ BatchLimit \in Nat
  BY ConsumerFrame, Bounds DEF Places, BatchLimit
<1>1. BatchLimit' = BatchLimit /\ CommitsWhenAsked' = CommitsWhenAsked
  BY <1>0, Zenon DEF BatchLimit, CommitsWhenAsked, JavaClient, KrafkaClient
<1>h. \A o \in 0 .. MaxMessages - 1 : handled[o] \in Nat
  BY DEF ConsumerTypes
<1> USE <1>0, <1>1, Bounds DEF ConsumerTypes, NoOffset, Places
<1>2. CASE Start
  <2>1. /\ cpc' = "poll" /\ UNCHANGED <<handled, committed>>
        /\ next' = StartOffset /\ fetched' = StartOffset
        /\ passed' = IF committed = NoOffset /\ reset = "latest" THEN Len(log) ELSE passed
    BY <1>2, Zenon DEF Start
  <2>2. /\ committed # NoOffset => next' = committed /\ fetched' = committed
        /\ committed = NoOffset => next' <= passed' /\ next' \in Nat /\ fetched' = next'
    BY <2>1 DEF StartOffset
  <2> QED
    BY <2>1, <2>2
<1>3. CASE Poll
  <2>1. /\ cpc = "poll" /\ cpc' \in {"poll", "handle"}
        /\ UNCHANGED <<handled, committed, next, passed>>
    BY <1>3 DEF Poll, counts
  <2>2. PICK n \in 0 .. BatchLimit : fetched' = fetched + n
    BY <1>3 DEF Poll
  <2> QED
    BY <2>1, <2>2
<1>4. CASE Handle
  <2>1. /\ cpc = "handle" /\ cpc' # "ended" /\ next' = next + 1
        /\ UNCHANGED <<fetched, committed, passed>>
        /\ handled' = [o \in 0 .. MaxMessages - 1 |->
                         IF o = next THEN handled[o] + 1 ELSE handled[o]]
    BY <1>4, Zenon DEF Handle, NextOffset
  <2>2. ASSUME NEW o \in passed .. next' - 1
        PROVE  handled'[o] > 0 \/ o < committed'
    <3>1. o \in 0 .. MaxMessages - 1
      BY <2>1, <2>2
    <3>2. handled'[o] = IF o = next THEN handled[o] + 1 ELSE handled[o]
      BY <2>1, <3>1
    <3>3. CASE o = next
      BY <1>h, <3>1, <3>2, <3>3
    <3>4. CASE o \in passed .. next - 1
      BY <2>1, <3>2, <3>4
    <3> QED
      BY <2>1, <3>3, <3>4
  <2> QED
    BY <2>1, <2>2
<1>5. CASE AutoCommit
  <2>1. /\ UNCHANGED <<cpc, next, fetched, handled, passed>> /\ committed' = fetched
        /\ cpc = "poll" \/ (cpc = "handle" /\ ~CommitsWhenAsked)
    BY <1>5, Zenon DEF AutoCommit, CommitsNow, CommitsWhenAsked, KrafkaClient, cvars, counts
  <2> QED
    BY <2>1
<1>6. CASE LeaveLoop \/ PollFails
  <2>1. /\ cpc = "poll" /\ cpc' \in {"poll", "closing"}
        /\ UNCHANGED <<next, fetched, committed, handled, passed>>
    BY <1>6 DEF LeaveLoop, PollFails, counts
  <2> QED
    BY <2>1
<1>7. CASE SignalConsumer
  <2>1. /\ cpc # "ended" /\ cpc' \in {"closing", "ended", cpc}
        /\ UNCHANGED <<next, fetched, committed, handled, passed>>
    BY <1>7, Zenon DEF SignalConsumer, counts
  <2> QED
    BY <2>1
<1>8. CASE Close \/ Halt \/ Crash
  <2>1. cpc' = "ended"
    BY <1>8 DEF Close, Halt, Crash
  <2> QED
    BY <2>1
<1> QED
  BY <1>2, <1>3, <1>4, <1>5, <1>6, <1>7, <1>8 DEF ConsumerStep, Consume

\* What the group will have been told once close() has committed.
Promised == IF cpc = "closing" THEN fetched ELSE committed

\* The messages that are skipped, or will be when close() commits.
Lost ==
    {o \in passed .. Promised - 1 :
        handled[o] = 0 /\ ~(cpc = "handle" /\ o \in next .. fetched - 1)}

\* The ends that throw the messages in hand away, though they are or will be committed.
Dropped ==
    /\ cpc = "handle"
    /\ \/ ~CommitsWhenAsked /\ crashes' = crashes + 1 /\ signals' = signals
       \/ /\ consumer \in {"python", "ruby"} \cup StreamClients
          /\ crashes' = crashes /\ signals'.c = signals.c + 1

Counted == crashes' \in {crashes, crashes + 1} /\ signals'.c \in {signals.c, signals.c + 1}

LEMMA Widened ==
  ASSUME NEW a \in Int, NEW b \in Int, NEW c \in Int, b <= c, NEW o \in a .. b - 1
  PROVE  o \in a .. c - 1
OBVIOUS

\* No step but such an end adds to the lost messages, and that only the messages in hand.
LEMMA LostStep ==
  ASSUME ConsumerTypes, signals \in [p : 0 .. MaxSignals, c : 0 .. MaxSignals],
         Len(log) \in Nat, Len(log) <= MaxMessages, Places, ConsumerStep
  PROVE  /\ Counted
         /\ \/ Lost' \subseteq Lost
            \/ Dropped /\ Lost' \subseteq Lost \cup (next .. fetched - 1)
<1>h. /\ \A o \in 0 .. MaxMessages - 1 : handled[o] \in Nat
      /\ crashes \in Nat /\ signals.c \in Nat /\ consumer \in Languages
  BY Bounds DEF ConsumerTypes, Places
<1> USE <1>h, Bounds DEF ConsumerTypes, NoOffset, Places, Lost, Promised
<1>1. CASE Start
  <2>1. /\ cpc' = "poll" /\ cpc = "ended" /\ UNCHANGED <<handled, committed, crashes, signals>>
        /\ passed' = passed \/ (committed = NoOffset /\ passed' = Len(log))
    BY <1>1, Zenon DEF Start
  <2> QED
    BY <2>1 DEF Counted
<1>2. CASE Poll
  <2>1. /\ cpc = "poll" /\ cpc' \in {"poll", "handle"}
        /\ UNCHANGED <<handled, committed, next, passed, crashes, signals>>
    BY <1>2 DEF Poll, counts
  <2> QED
    BY <2>1 DEF Counted
<1>3. CASE Handle
  <2>1. /\ cpc = "handle" /\ next' = next + 1
        /\ cpc' = IF next' = fetched THEN "poll" ELSE "handle"
        /\ UNCHANGED <<fetched, committed, passed, crashes, signals>>
        /\ handled' = [o \in 0 .. MaxMessages - 1 |->
                         IF o = next THEN handled[o] + 1 ELSE handled[o]]
    BY <1>3, Zenon DEF Handle, NextOffset
  <2>2. ASSUME NEW o \in Lost' PROVE o \in Lost
    <3>1. o \in passed .. committed - 1 /\ handled'[o] = 0 /\ o \in 0 .. MaxMessages - 1
      BY <2>1, <2>2
    <3>2. handled'[o] = IF o = next THEN handled[o] + 1 ELSE handled[o]
      BY <2>1, <3>1
    <3>3. o # next /\ handled[o] = 0
      BY <3>1, <3>2
    <3> QED
      BY <2>1, <2>2, <3>1, <3>3
  <2> QED
    BY <2>1, <2>2 DEF Counted
<1>4. CASE AutoCommit
  <2>1. /\ UNCHANGED <<cpc, next, fetched, handled, passed, crashes, signals>>
        /\ committed' = fetched /\ cpc \in {"poll", "handle"}
    BY <1>4, Zenon DEF AutoCommit, CommitsNow, cvars, counts
  <2>2. ASSUME NEW o \in Lost' PROVE o \in Lost
    <3>1. o \in passed .. next - 1 /\ handled[o] = 0
      BY <2>1, <2>2
    <3> QED
      BY <2>1, <2>2, <3>1
  <2> QED
    BY <2>1, <2>2 DEF Counted
<1>5. CASE LeaveLoop \/ PollFails
  <2>1. /\ cpc = "poll" /\ cpc' \in {"poll", "closing"}
        /\ UNCHANGED <<next, fetched, committed, handled, passed, crashes, signals>>
    BY <1>5 DEF LeaveLoop, PollFails, counts
  <2>2. ASSUME NEW o \in Lost' PROVE o \in Lost
    BY <2>1, <2>2
  <2> QED
    BY <2>1, <2>2 DEF Counted
<1>6. CASE Close
  <2>1. /\ cpc = "closing" /\ cpc' = "ended" /\ committed' \in {fetched, committed}
        /\ UNCHANGED <<next, fetched, handled, passed, crashes, signals>>
    BY <1>6 DEF Close, OffsetAtClose
  <2>2. ASSUME NEW o \in Lost' PROVE o \in Lost
    <3>1. o \in passed .. committed' - 1 /\ handled[o] = 0
      BY <2>1, <2>2
    <3>2. passed \in Int /\ committed' \in Int /\ fetched \in Int /\ committed' <= fetched
      BY <2>1
    <3>3. o \in passed .. fetched - 1
      BY ONLY <3>1, <3>2, Widened
    <3> QED
      BY <2>1, <3>1, <3>3
  <2> QED
    BY <2>1, <2>2 DEF Counted
<1>7. CASE Halt
  <2>1. /\ CommitsWhenAsked /\ cpc # "ended" /\ cpc' = "ended"
        /\ UNCHANGED <<next, fetched, committed, handled, passed, crashes, signals>>
    BY <1>7, Zenon DEF Halt, JavaClient, CommitsWhenAsked, counts
  <2>2. ASSUME NEW o \in Lost' PROVE o \in Lost
    BY <2>1, <2>2
  <2> QED
    BY <2>1, <2>2 DEF Counted
<1>8. CASE Crash
  <2>1. /\ cpc # "ended" /\ cpc' = "ended" /\ crashes' = crashes + 1
        /\ UNCHANGED <<next, fetched, committed, handled, passed, signals>>
    BY <1>8 DEF Crash
  <2>2. CASE CommitsWhenAsked \/ cpc # "handle"
    BY <2>1, <2>2 DEF Counted
  <2>3. CASE ~CommitsWhenAsked /\ cpc = "handle"
    BY <2>1, <2>3 DEF Counted, Dropped
  <2> QED
    BY <2>2, <2>3
<1>9. CASE SignalConsumer
  <2>1. /\ cpc \in {"poll", "handle"} /\ signals'.c = signals.c + 1
        /\ UNCHANGED <<next, fetched, committed, handled, passed, crashes>>
        /\ \/ consumer \in {"python", "ruby"} /\ cpc' = "closing"
           \/ consumer \in StreamClients /\ cpc' = "ended"
           \/ cpc' = cpc
    BY <1>9, Zenon DEF SignalConsumer, counts
  <2>2. CASE cpc' = cpc
    BY <2>1, <2>2 DEF Counted
  <2>3. CASE cpc = "poll" /\ cpc' # cpc
    <3>1. ASSUME NEW o \in Lost' PROVE o \in Lost
      BY <2>1, <2>3, <3>1
    <3> QED
      BY <2>1, <3>1 DEF Counted
  <2>4. CASE cpc = "handle" /\ cpc' # cpc
    <3>1. Dropped /\ Counted
      BY <2>1, <2>4 DEF Counted, Dropped
    <3>2. ASSUME NEW o \in Lost' PROVE o \in Lost \cup (next .. fetched - 1)
      BY <2>1, <2>4, <3>2
    <3> QED
      BY <3>1, <3>2
  <2> QED
    BY <2>1, <2>2, <2>3, <2>4
<1> QED
  BY <1>1, <1>2, <1>3, <1>4, <1>5, <1>6, <1>7, <1>8, <1>9 DEF ConsumerStep, Consume

LEMMA Sums ==
  ASSUME NEW a \in Nat, NEW b \in Nat, NEW aa \in {a, a + 1}, NEW bb \in {b, b + 1}
  PROVE  /\ a + b \in Nat /\ aa + bb \in Nat /\ aa + bb >= a + b
         /\ aa + bb \in {a + b, (a + b) + 1, (a + b) + 2}
OBVIOUS

LEMMA LimitStep ==
  ASSUME crashes \in Nat, signals.c \in Nat, consumer \in Languages, consumer' = consumer,
         Counted
  PROVE  /\ SkipLimit \in Nat /\ SkipLimit' \in Nat /\ SkipLimit' >= SkipLimit
         /\ Dropped => SkipLimit' >= SkipLimit + BatchLimit
<1>0. /\ signals'.c \in Nat /\ signals.c \in Nat /\ crashes' \in Nat /\ MaxPoll \in Nat
      /\ signals'.c \in {signals.c, signals.c + 1} /\ crashes' \in {crashes, crashes + 1}
  BY Bounds DEF Counted
<1>m. ASSUME NEW a \in Nat, NEW b \in {a, a + 1}
      PROVE  /\ MaxPoll * a \in Nat /\ MaxPoll * b \in Nat /\ MaxPoll * b >= MaxPoll * a
             /\ b = a + 1 => MaxPoll * b = MaxPoll * a + MaxPoll
  BY <1>0
<1>d. Dropped => \/ ~CommitsWhenAsked /\ crashes' = crashes + 1 /\ signals'.c = signals.c
                 \/ /\ consumer \in {"python", "ruby", "stream-rust", "stream-krafka"}
                    /\ crashes' = crashes /\ signals'.c = signals.c + 1
  BY DEF Dropped, StreamClients
<1>1. CASE JavaClient
  <2>1. SkipLimit = 0 /\ SkipLimit' = 0
    BY <1>1 DEF SkipLimit, JavaClient
  <2> QED
    BY <1>1, <1>d, <2>1 DEF JavaClient, CommitsWhenAsked
<1>2. CASE consumer = "rust"
  <2>1. SkipLimit = crashes /\ SkipLimit' = crashes' /\ BatchLimit = 1
    BY <1>2 DEF SkipLimit, JavaClient, BatchLimit, KrafkaClient
  <2> QED
    BY <1>0, <1>2, <1>d, <2>1
<1>3. CASE consumer = "krafka"
  <2>1. SkipLimit = MaxPoll * crashes /\ SkipLimit' = MaxPoll * crashes' /\ BatchLimit = MaxPoll
    BY <1>3 DEF SkipLimit, JavaClient, BatchLimit, KrafkaClient
  <2>2. Dropped => crashes' = crashes + 1
    BY <1>3, <1>d
  <2> QED
    BY <1>0, <1>m, <2>1, <2>2
<1>4. CASE consumer = "python"
  <2>1. SkipLimit = signals.c /\ SkipLimit' = signals'.c /\ BatchLimit = 1
    BY <1>4 DEF SkipLimit, JavaClient, BatchLimit, KrafkaClient
  <2>2. Dropped => signals'.c = signals.c + 1
    BY <1>4, <1>d DEF CommitsWhenAsked
  <2> QED
    BY <1>0, <2>1, <2>2
<1>5. CASE consumer \in {"ruby", "stream-rust"}
  <2>1. SkipLimit = crashes + signals.c /\ SkipLimit' = crashes' + signals'.c /\ BatchLimit = 1
    BY <1>5 DEF SkipLimit, JavaClient, BatchLimit, KrafkaClient
  <2>2. /\ Dropped => \/ crashes' = crashes + 1 /\ signals'.c = signals.c
                      \/ crashes' = crashes /\ signals'.c = signals.c + 1
    BY <1>d
  <2>3. Dropped => crashes' + signals'.c = (crashes + signals.c) + 1
    <3>1. ASSUME \/ crashes' = crashes + 1 /\ signals'.c = signals.c
                 \/ crashes' = crashes /\ signals'.c = signals.c + 1
          PROVE  crashes' + signals'.c = (crashes + signals.c) + 1
      BY <1>0, <3>1
    <3> QED
      BY <2>2, <3>1
  <2>4. /\ crashes + signals.c \in Nat /\ crashes' + signals'.c \in Nat
        /\ crashes' + signals'.c >= crashes + signals.c
    BY <1>0, Sums, Zenon
  <2> QED
    BY <2>1, <2>3, <2>4
<1>6. CASE consumer = "stream-krafka"
  <2>1. /\ SkipLimit = MaxPoll * (crashes + signals.c)
        /\ SkipLimit' = MaxPoll * (crashes' + signals'.c)
        /\ BatchLimit = MaxPoll
    BY <1>6 DEF SkipLimit, JavaClient, BatchLimit, KrafkaClient
  <2>2. ASSUME NEW a \in Nat, NEW b \in {a, a + 1, a + 2}
        PROVE  /\ MaxPoll * a \in Nat /\ MaxPoll * b \in Nat /\ MaxPoll * b >= MaxPoll * a
               /\ b = a + 1 => MaxPoll * b = MaxPoll * a + MaxPoll
    BY <1>0
  <2>3. Dropped => \/ crashes' = crashes + 1 /\ signals'.c = signals.c
                   \/ crashes' = crashes /\ signals'.c = signals.c + 1
    BY <1>d
  <2>4. Dropped => crashes' + signals'.c = (crashes + signals.c) + 1
    <3>1. ASSUME \/ crashes' = crashes + 1 /\ signals'.c = signals.c
                 \/ crashes' = crashes /\ signals'.c = signals.c + 1
          PROVE  crashes' + signals'.c = (crashes + signals.c) + 1
      BY <1>0, <3>1
    <3> QED
      BY <2>3, <3>1
  <2>5. /\ crashes + signals.c \in Nat
        /\ crashes' + signals'.c \in {crashes + signals.c, (crashes + signals.c) + 1,
                                      (crashes + signals.c) + 2}
    BY <1>0, Sums, Zenon
  <2>6. /\ SkipLimit \in Nat /\ SkipLimit' \in Nat /\ SkipLimit' >= SkipLimit
        /\ crashes' + signals'.c = (crashes + signals.c) + 1 => SkipLimit' = SkipLimit + MaxPoll
    BY <2>1, <2>2, <2>5, Zenon
  <2> QED
    BY <1>0, <2>1, <2>4, <2>6
<1> QED
  BY <1>1, <1>2, <1>3, <1>4, <1>5, <1>6 DEF JavaClient, Languages, StreamClients

\* The lost messages are finitely many, and within the limit.
LossBound == IsFiniteSet(Lost) /\ Cardinality(Lost) <= SkipLimit

LEMMA LossBoundStep ==
  ASSUME ConsumerTypes, signals \in [p : 0 .. MaxSignals, c : 0 .. MaxSignals],
         Len(log) \in Nat, Len(log) <= MaxMessages, Places, LossBound, ConsumerStep
  PROVE  LossBound'
<1>1. /\ Counted
      /\ \/ Lost' \subseteq Lost
         \/ Dropped /\ Lost' \subseteq Lost \cup (next .. fetched - 1)
  BY LostStep
<1>2. /\ SkipLimit \in Nat /\ SkipLimit' \in Nat /\ SkipLimit' >= SkipLimit
      /\ Dropped => SkipLimit' >= SkipLimit + BatchLimit
  <2>1. crashes \in Nat /\ signals.c \in Nat /\ consumer \in Languages /\ consumer' = consumer
    BY Bounds, ConsumerFrame DEF ConsumerTypes, Places
  <2> QED
    BY <1>1, <2>1, LimitStep
<1>3. IsFiniteSet(Lost) /\ Cardinality(Lost) \in Nat /\ Cardinality(Lost) <= SkipLimit
  BY FS_CardinalityType DEF LossBound
<1>4. CASE Lost' \subseteq Lost
  <2>1. IsFiniteSet(Lost') /\ Cardinality(Lost') <= Cardinality(Lost) /\ Cardinality(Lost') \in Nat
    BY <1>3, <1>4, FS_Subset, FS_CardinalityType
  <2> QED
    BY <1>2, <1>3, <2>1 DEF LossBound
<1>5. CASE Dropped /\ Lost' \subseteq Lost \cup (next .. fetched - 1)
  <2> DEFINE hand == next .. fetched - 1
  <2>1. /\ next \in Int /\ fetched \in Int /\ fetched > next /\ fetched - next <= BatchLimit
        /\ BatchLimit \in Nat
    BY <1>5, Bounds DEF ConsumerTypes, Places, Dropped, BatchLimit
  <2>2. IsFiniteSet(hand) /\ Cardinality(hand) = fetched - next
    <3>1. fetched - 1 \in Int /\ ~(next > fetched - 1)
      BY <2>1
    <3>2. IsFiniteSet(hand) /\ Cardinality(hand) = (fetched - 1) - next + 1
      BY <2>1, <3>1, FS_Interval
    <3> QED
      BY <2>1, <3>2
  <2> HIDE DEF hand
  <2>3. /\ IsFiniteSet(Lost \cup hand)
        /\ Cardinality(Lost \cup hand)
             = Cardinality(Lost) + Cardinality(hand) - Cardinality(Lost \cap hand)
    BY <1>3, <2>2, FS_Union
  <2>4. IsFiniteSet(Lost \cap hand) /\ Cardinality(Lost \cap hand) \in Nat
    BY <1>3, FS_Subset, FS_CardinalityType
  <2>5. Lost' \subseteq Lost \cup hand
    BY <1>5 DEF hand
  <2>6. /\ IsFiniteSet(Lost') /\ Cardinality(Lost') <= Cardinality(Lost \cup hand)
        /\ Cardinality(Lost') \in Nat /\ Cardinality(Lost \cup hand) \in Nat
    BY <2>3, <2>5, FS_Subset, FS_CardinalityType
  <2> QED
    BY <1>2, <1>3, <1>5, <2>1, <2>2, <2>3, <2>4, <2>6 DEF LossBound
<1> QED
  BY <1>1, <1>4, <1>5

Skipping == Capacity /\ Places /\ LossBound

\* Whatever the clients and the batch size: java's and scala's consumers never have a message
\* committed that they do not log, and the others at most the messages in hand for each crash or
\* SIGINT that ends them there.
THEOREM SkipBoundTheorem == Spec => []SkipBound
<1>1. Init => Skipping
  <2> SUFFICES ASSUME Init PROVE Skipping
    OBVIOUS
  <2>1. /\ log = <<>> /\ outbox = <<>> /\ message_id = 0 /\ ppc = "send" /\ cpc = "ended"
        /\ committed = -1 /\ passed = 0 /\ crashes = 0 /\ signals = [p |-> 0, c |-> 0]
    BY Zenon DEF Init, NoOffset
  <2>2. consumer \in Languages
    BY ClientsType DEF Init
  <2>3. Capacity
    BY <2>1, Bounds DEF Capacity
  <2>4. Places
    BY <2>1, <2>2 DEF Places
  <2>5. Lost = {}
    BY <2>1 DEF Lost, Promised
  <2>6. SkipLimit \in Nat
    BY <2>1, <2>2, Bounds DEF SkipLimit, JavaClient, Languages, StreamClients
  <2> QED
    BY <2>3, <2>4, <2>5, <2>6, FS_EmptySet DEF Skipping, LossBound
<1>2. TypeInv /\ Skipping /\ [Next]_vars => Skipping'
  <2> SUFFICES ASSUME TypeInv, Skipping, [Next]_vars PROVE Skipping'
    OBVIOUS
  <2>1. /\ ConsumerTypes /\ signals \in [p : 0 .. MaxSignals, c : 0 .. MaxSignals]
        /\ Len(log) \in Nat /\ Len(outbox) \in Nat /\ Len(log) <= MaxMessages
    BY Bounds, LenProperties DEF TypeInv, TypeOK, ProducerTypes, Skipping, Capacity
  <2>2. CASE ConsumerStep
    <3>1. Places'
      BY <2>1, <2>2, PlacesStep DEF Skipping
    <3>2. LossBound'
      BY <2>1, <2>2, LossBoundStep DEF Skipping
    <3>3. Capacity'
      BY <2>2, ConsumerFrame DEF Skipping, Capacity, pvars
    <3> QED
      BY <3>1, <3>2, <3>3 DEF Skipping
  <2>3. CASE ProducerStep
    <3>1. Capacity'
      BY <2>3, CapacityStep DEF Skipping
    <3>2. UNCHANGED <<committed, consumer, cpc, next, fetched, crashes, handled, passed>>
      BY <2>3, ProducerFrame DEF cvars, counts
    <3>3. signals'.c = signals.c
      BY <2>1, <2>3 DEF ProducerStep, Produce, SendMessage, SendRejected, Outcome, PauseEnds,
        ProducerBreaks, ProducerEnds, SignalProducer
    <3>4. Places'
      BY <3>2 DEF Skipping, Places, BatchLimit, JavaClient, KrafkaClient, CommitsWhenAsked
    <3>5. Lost' = Lost /\ SkipLimit' = SkipLimit
      BY <3>2, <3>3 DEF Lost, Promised, SkipLimit, JavaClient
    <3> QED
      BY <3>1, <3>4, <3>5 DEF Skipping, LossBound
  <2>4. CASE UNCHANGED vars
    BY <2>4 DEF vars, pvars, cvars, counts, Skipping, Capacity, Places, LossBound, Lost,
      Promised, SkipLimit, BatchLimit, JavaClient, KrafkaClient, CommitsWhenAsked
  <2> QED
    BY <2>2, <2>3, <2>4, StepKinds
<1>3. TypeInv /\ Skipping => SkipBound
  <2> SUFFICES ASSUME TypeInv, Skipping PROVE SkipBound
    OBVIOUS
  <2>1. ConsumerTypes /\ Len(log) \in Nat
    BY LenProperties DEF TypeInv, TypeOK, ProducerTypes
  <2>2. Skipped \subseteq Lost
    BY <2>1 DEF Skipped, Lost, Promised, ConsumerTypes, Skipping, Places, NoOffset
  <2>3. SkipLimit \in Nat
    <3>1. signals.c \in Nat /\ crashes \in Nat /\ MaxPoll \in Nat
      BY <2>1, Bounds DEF TypeInv, TypeOK, ConsumerTypes
    <3>2. MaxPoll * crashes \in Nat /\ MaxPoll * (crashes + signals.c) \in Nat
      BY <3>1
    <3>3. consumer \in Languages
      BY DEF Skipping, Places
    <3> QED
      BY <3>1, <3>2, <3>3 DEF SkipLimit, JavaClient, Languages, StreamClients
  <2>4. /\ Cardinality(Skipped) <= Cardinality(Lost) /\ Cardinality(Skipped) \in Nat
        /\ Cardinality(Lost) \in Nat /\ Cardinality(Lost) <= SkipLimit
    BY <2>2, FS_Subset, FS_CardinalityType DEF Skipping, LossBound
  <2> QED
    BY <2>3, <2>4 DEF SkipBound
<1> QED
  BY <1>1, <1>2, <1>3, TypeInvAlways, PTL DEF Spec
=============================================================================
