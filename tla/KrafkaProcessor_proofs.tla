---------------------- MODULE KrafkaProcessor_proofs ----------------------
(***************************************************************************)
(* Proofs about KrafkaProcessor for any number of workers, any partitions  *)
(* and any window and batch sizes.                                         *)
(***************************************************************************)
EXTENDS KrafkaProcessor, FiniteSetTheorems, SequenceTheorems, TLAPS

-----------------------------------------------------------------------------
(* What each group of actions leaves alone.                                *)

Others == JoinWorkers \/ ReporterStops \/ Report \/ UNCHANGED vars

LEMMA ConsumeFrame ==
  ASSUME NEW w \in Workers, Consume(w)
  PROVE  /\ UNCHANGED <<open, inFlight, local, counter, main, reporter, avail, failed,
                        uncounted, counted>>
         /\ ppc' = ppc \/ Seek(w)
         /\ chan' = chan \/ SendBuffer(w)
         /\ start' = start \/ ClaimStart(w)
         /\ slow' = slow \/ PollRecords(w) \/ PollEmpty(w)
         /\ errs' = errs \/ PollFails(w)
         /\ cursor' = cursor \/ SkipNull(w) \/ SendBuffer(w)
BY DEF Consume, Assign, Seek, SetupFails, CheckTotal, PollRecords, PollEmpty, PollFails,
   LoadStart, ClaimStart, EndBatch, SkipNull, DecodeValue, DecodePanics, SendBuffer,
   AwaitProduce, produceVars, brokerVars, history

LEMMA ProduceFrame ==
  ASSUME NEW w \in Workers, Produce(w)
  PROVE  /\ UNCHANGED <<cpc, tracked, fetched, cursor, empty, start, main, reporter, avail,
                        slow, errs>>
         /\ ppc' = ppc \/ ProduceReturns(w) \/ CancelProduce(w)
         /\ chan' = chan \/ ReceiveBuffer(w)
         /\ open' = open \/ ReceiveEnd(w)
         /\ inFlight' = inFlight \/ ReceiveBuffer(w) \/ SendResolves(w)
         /\ UNCHANGED <<local, failed>> \/ SendResolves(w)
         /\ UNCHANGED <<counter, uncounted, counted>> \/ SendResolves(w) \/ ProduceReturns(w)
BY DEF Produce, ReceiveBuffer, ReceiveEnd, SendResolves, ProduceReturns, CancelProduce,
   consumeVars, brokerVars, history

LEMMA ArriveFrame ==
  ASSUME NEW w \in Workers, Arrive(w)
  PROVE  UNCHANGED <<cpc, tracked, fetched, cursor, empty, ppc, chan, open, inFlight, local,
                     counter, start, main, reporter, slow, errs, failed, uncounted, counted>>
BY DEF Arrive, consumeVars, produceVars, history

LEMMA OthersFrame ==
  ASSUME Others
  PROVE  UNCHANGED <<cpc, tracked, fetched, cursor, empty, ppc, chan, open, inFlight, local,
                     counter, start, avail, slow, errs, failed, uncounted, counted>>
BY DEF Others, JoinWorkers, ReporterStops, Report, vars, consumeVars, produceVars, brokerVars,
   history

LEMMA StepKinds ==
  ASSUME [Next]_vars
  PROVE  (\E w \in Workers : Consume(w) \/ Produce(w) \/ Arrive(w)) \/ Others
BY DEF Next, Others, Terminated

-----------------------------------------------------------------------------
(* Types, and what the position of a consume loop says of its batch.       *)

ConsumePoint ==
    \A w \in Workers :
        /\ cpc[w] = "send" => cursor[w] < fetched[w] /\ Log[w][cursor[w] + 1] = "value"
        /\ cpc[w] \notin {"await", "done"} => empty[w] < EmptyLimit

TypeInv == TypeOK /\ ConsumePoint

LEMMA InitTypeInv == Init => TypeInv
<1> SUFFICES ASSUME Init PROVE TypeInv
  OBVIOUS
<1> USE LogType, WorkersFinite, LimitsType, EnvironmentType DEF Init
<1>1. TypeOK
  BY DEF TypeOK, ConsumeTypes, ProduceTypes, SharedTypes, BrokerTypes, HistoryTypes, Positions
<1>2. ConsumePoint
  BY DEF ConsumePoint
<1> QED
  BY <1>1, <1>2 DEF TypeInv

LEMMA ConsumeTypesStep ==
  ASSUME TypeInv, NEW w \in Workers, Consume(w)
  PROVE  ConsumeTypes' /\ ConsumePoint'
<1>0. ConsumeTypes /\ ConsumePoint /\ Positions /\ BrokerTypes
  BY DEF TypeInv, TypeOK
<1> USE LimitsType
<1>1. CASE Assign(w)
  BY <1>1, <1>0 DEF Assign, ConsumeTypes, ConsumePoint, BrokerTypes, Positions, produceVars,
    brokerVars, history
<1>2. CASE Seek(w)
  BY <1>2, <1>0 DEF Seek, ConsumeTypes, ConsumePoint, BrokerTypes, Positions, produceVars,
    brokerVars, history
<1>3. CASE SetupFails(w)
  BY <1>3, <1>0 DEF SetupFails, ConsumeTypes, ConsumePoint, BrokerTypes, Positions,
    produceVars, brokerVars, history
<1>4. CASE CheckTotal(w)
  BY <1>4, <1>0 DEF CheckTotal, ConsumeTypes, ConsumePoint, BrokerTypes, Positions,
    produceVars, brokerVars, history
<1>5. CASE PollRecords(w)
  BY <1>5, <1>0 DEF PollRecords, EmptyAfterBatch, ConsumeTypes, ConsumePoint, BrokerTypes,
    Positions, produceVars, brokerVars, history
<1>6. CASE PollEmpty(w)
  <2>1. cpc' \in [Workers -> {"assign", "seek", "check", "poll", "timer", "claim", "record",
                             "send", "await", "panicked", "done"}]
    BY <1>6, <1>0 DEF PollEmpty, ConsumeTypes
  <2>2. empty' \in [Workers -> 0 .. EmptyLimit]
    BY <1>6, <1>0 DEF PollEmpty, ConsumeTypes, ConsumePoint
  <2>3. ConsumePoint'
    BY <1>6, <1>0 DEF PollEmpty, Drained, ConsumeTypes, ConsumePoint
  <2> QED
    BY <1>6, <1>0, <2>1, <2>2, <2>3 DEF PollEmpty, ConsumeTypes
<1>7. CASE PollFails(w)
  BY <1>7, <1>0 DEF PollFails, ConsumeTypes, ConsumePoint, BrokerTypes, Positions,
    produceVars, brokerVars, history
<1>8. CASE LoadStart(w)
  BY <1>8, <1>0 DEF LoadStart, ConsumeTypes, ConsumePoint, BrokerTypes, Positions,
    produceVars, brokerVars, history
<1>9. CASE ClaimStart(w)
  BY <1>9, <1>0 DEF ClaimStart, StartAfterClaim, ConsumeTypes, ConsumePoint, BrokerTypes,
    Positions, produceVars, brokerVars, history
<1>10. CASE EndBatch(w)
  BY <1>10, <1>0 DEF EndBatch, ConsumeTypes, ConsumePoint, BrokerTypes, Positions,
    produceVars, brokerVars, history
<1>11. CASE SkipNull(w)
  <2>1. cpc[w] = "record" /\ cursor' = [cursor EXCEPT ![w] = @ + 1]
    BY <1>11 DEF SkipNull, AtRecord
  <2>2. cpc' = cpc /\ tracked' = tracked /\ fetched' = fetched /\ empty' = empty
    BY <1>11 DEF SkipNull
  <2>3. \A v \in Workers : v # w => cursor'[v] = cursor[v]
    BY <2>1, <1>0 DEF ConsumeTypes
  <2>4. ConsumePoint'
    BY <2>1, <2>2, <2>3, <1>0 DEF ConsumePoint
  <2>5. cursor' \in [Workers -> Nat]
    BY <2>1, <1>0 DEF ConsumeTypes
  <2> QED
    BY <2>2, <2>4, <2>5, <1>0, Zenon DEF ConsumeTypes
<1>12. CASE DecodeValue(w)
  BY <1>12, <1>0 DEF DecodeValue, AtRecord, ConsumeTypes, ConsumePoint, BrokerTypes,
    Positions, produceVars, brokerVars, history
<1>13. CASE DecodePanics(w)
  BY <1>13, <1>0 DEF DecodePanics, AtRecord, ConsumeTypes, ConsumePoint, BrokerTypes,
    Positions, produceVars, brokerVars, history
<1>14. CASE SendBuffer(w)
  <2>1. CASE ppc[w] # "running"
    BY <1>14, <1>0, <2>1 DEF SendBuffer, ConsumeTypes, ConsumePoint, Positions, BrokerTypes,
        brokerVars
  <2>2. CASE ppc[w] = "running"
    <3>1. /\ cpc[w] = "send"
          /\ cursor' = [cursor EXCEPT ![w] = cursor[w] + 1]
          /\ cpc' = [cpc EXCEPT ![w] = "record"]
          /\ UNCHANGED <<tracked, fetched, empty, avail>>
      BY <1>14, <2>2 DEF SendBuffer, CursorAfterRecord, brokerVars
    <3> QED
      BY <3>1, <1>0 DEF ConsumeTypes, ConsumePoint, Positions, BrokerTypes
  <2> QED
    BY <2>1, <2>2
<1>15. CASE AwaitProduce(w)
  BY <1>15, <1>0 DEF AwaitProduce, ConsumeTypes, ConsumePoint, BrokerTypes, Positions,
    produceVars, brokerVars, history
<1> QED
  BY <1>1, <1>2, <1>3, <1>4, <1>5, <1>6, <1>7, <1>8, <1>9, <1>10, <1>11, <1>12, <1>13,
    <1>14, <1>15 DEF Consume

LEMMA ConsumePositionsStep ==
  ASSUME TypeInv, NEW w \in Workers, Consume(w)
  PROVE  Positions'
<1>0. ConsumeTypes /\ ConsumePoint /\ Positions /\ BrokerTypes
  BY DEF TypeInv, TypeOK
<1> USE LogType
<1>1. CASE Assign(w)
  BY <1>1, <1>0 DEF Assign, ConsumeTypes, ConsumePoint, BrokerTypes, Positions, produceVars,
    brokerVars, history
<1>2. CASE Seek(w)
  BY <1>2, <1>0 DEF Seek, ConsumeTypes, ConsumePoint, BrokerTypes, Positions, produceVars,
    brokerVars, history
<1>3. CASE SetupFails(w)
  BY <1>3, <1>0 DEF SetupFails, ConsumeTypes, ConsumePoint, BrokerTypes, Positions,
    produceVars, brokerVars, history
<1>4. CASE CheckTotal(w)
  BY <1>4, <1>0 DEF CheckTotal, ConsumeTypes, ConsumePoint, BrokerTypes, Positions,
    produceVars, brokerVars, history
<1>5. CASE PollRecords(w)
  BY <1>5, <1>0 DEF PollRecords, EmptyAfterBatch, ConsumeTypes, ConsumePoint, BrokerTypes,
    Positions, produceVars, brokerVars, history
<1>6. CASE PollEmpty(w)
  BY <1>6, <1>0 DEF PollEmpty, Drained, ConsumeTypes, ConsumePoint, BrokerTypes, Positions,
    produceVars, brokerVars, history
<1>7. CASE PollFails(w)
  BY <1>7, <1>0 DEF PollFails, ConsumeTypes, ConsumePoint, BrokerTypes, Positions,
    produceVars, brokerVars, history
<1>8. CASE LoadStart(w)
  BY <1>8, <1>0 DEF LoadStart, ConsumeTypes, ConsumePoint, BrokerTypes, Positions,
    produceVars, brokerVars, history
<1>9. CASE ClaimStart(w)
  BY <1>9, <1>0 DEF ClaimStart, StartAfterClaim, ConsumeTypes, ConsumePoint, BrokerTypes,
    Positions, produceVars, brokerVars, history
<1>10. CASE EndBatch(w)
  BY <1>10, <1>0 DEF EndBatch, ConsumeTypes, ConsumePoint, BrokerTypes, Positions,
    produceVars, brokerVars, history
<1>11. CASE SkipNull(w)
  BY <1>11, <1>0 DEF SkipNull, AtRecord, ConsumeTypes, ConsumePoint, BrokerTypes, Positions,
    produceVars, brokerVars, history
<1>12. CASE DecodeValue(w)
  BY <1>12, <1>0 DEF DecodeValue, AtRecord, ConsumeTypes, ConsumePoint, BrokerTypes,
    Positions, produceVars, brokerVars, history
<1>13. CASE DecodePanics(w)
  BY <1>13, <1>0 DEF DecodePanics, AtRecord, ConsumeTypes, ConsumePoint, BrokerTypes,
    Positions, produceVars, brokerVars, history
<1>14. CASE SendBuffer(w)
  <2>1. CASE ppc[w] # "running"
    BY <1>14, <1>0, <2>1 DEF SendBuffer, ConsumeTypes, ConsumePoint, Positions, BrokerTypes,
        brokerVars
  <2>2. CASE ppc[w] = "running"
    <3>1. /\ cpc[w] = "send"
          /\ cursor' = [cursor EXCEPT ![w] = cursor[w] + 1]
          /\ cpc' = [cpc EXCEPT ![w] = "record"]
          /\ UNCHANGED <<tracked, fetched, empty, avail>>
      BY <1>14, <2>2 DEF SendBuffer, CursorAfterRecord, brokerVars
    <3> QED
      BY <3>1, <1>0 DEF ConsumeTypes, ConsumePoint, Positions, BrokerTypes
  <2> QED
    BY <2>1, <2>2
<1>15. CASE AwaitProduce(w)
  BY <1>15, <1>0 DEF AwaitProduce, ConsumeTypes, ConsumePoint, BrokerTypes, Positions,
    produceVars, brokerVars, history
<1> QED
  BY <1>1, <1>2, <1>3, <1>4, <1>5, <1>6, <1>7, <1>8, <1>9, <1>10, <1>11, <1>12, <1>13,
    <1>14, <1>15 DEF Consume

LEMMA ConsumeOtherTypesStep ==
  ASSUME TypeInv, NEW w \in Workers, Consume(w)
  PROVE  ProduceTypes' /\ SharedTypes' /\ BrokerTypes' /\ HistoryTypes'
<1>0. ConsumeTypes /\ ProduceTypes /\ SharedTypes /\ BrokerTypes /\ HistoryTypes
  BY DEF TypeInv, TypeOK
<1>1. ppc' \in [Workers -> {"none", "running", "finished", "cancelled"}]
  BY <1>0, ConsumeFrame DEF Seek, ProduceTypes
<1>2. chan' \in [Workers -> Seq(Nat)]
  <2>1. CASE chan' = chan
    BY <1>0, <2>1 DEF ProduceTypes
  <2>2. CASE SendBuffer(w) /\ chan' # chan
    <3>1. chan' = [chan EXCEPT ![w] = Append(chan[w], cursor[w] + 1)]
      BY <2>2 DEF SendBuffer, Sent
    <3>2. cursor[w] + 1 \in Nat
      BY <1>0 DEF ConsumeTypes
    <3>3. Append(chan[w], cursor[w] + 1) \in Seq(Nat)
      BY <1>0, <3>2, AppendProperties DEF ProduceTypes
    <3> QED
      BY <1>0, <3>1, <3>3 DEF ProduceTypes
  <2> QED
    BY <2>1, <2>2, ConsumeFrame
<1>3. ProduceTypes'
  BY <1>0, <1>1, <1>2, ConsumeFrame DEF ProduceTypes
<1>4. SharedTypes'
  BY <1>0, ConsumeFrame DEF SharedTypes, ClaimStart, StartAfterClaim
<1>5. slow' \in [Workers -> 0 .. MaxSlow]
  BY <1>0, ConsumeFrame, LimitsType DEF BrokerTypes, PollRecords, PollEmpty
<1>6. errs' \in [Workers -> 0 .. MaxErrs]
  BY <1>0, ConsumeFrame, LimitsType DEF BrokerTypes, PollFails
<1>7. BrokerTypes'
  BY <1>0, <1>5, <1>6, ConsumeFrame DEF BrokerTypes
<1>8. HistoryTypes'
  BY <1>0, ConsumeFrame DEF HistoryTypes
<1> QED
  BY <1>3, <1>4, <1>7, <1>8

LEMMA ProduceTypesStep ==
  ASSUME TypeInv, NEW w \in Workers, Produce(w)
  PROVE  ProduceTypes' /\ SharedTypes' /\ BrokerTypes' /\ HistoryTypes'
<1>0. ProduceTypes /\ SharedTypes /\ BrokerTypes /\ HistoryTypes
  BY DEF TypeInv, TypeOK
<1>1. ppc' \in [Workers -> {"none", "running", "finished", "cancelled"}]
  BY <1>0, ProduceFrame DEF ProduceReturns, CancelProduce, ProduceTypes
<1>2. CASE ReceiveBuffer(w)
  <2>1. chan[w] \in Seq(Nat) /\ chan[w] # <<>>
    BY <1>0, <1>2 DEF ProduceTypes, ReceiveBuffer
  <2>2. Head(chan[w]) \in Nat /\ Tail(chan[w]) \in Seq(Nat)
    BY <2>1, HeadTailProperties
  <2>3. chan' \in [Workers -> Seq(Nat)] /\ inFlight' \in [Workers -> SUBSET Nat]
    BY <1>0, <1>2, <2>2 DEF ProduceTypes, ReceiveBuffer
  <2> QED
    BY <1>0, <1>1, <1>2, <2>3
    DEF ReceiveBuffer, ProduceTypes, SharedTypes, BrokerTypes, HistoryTypes, brokerVars, history
<1>3. CASE SendResolves(w)
  <2>1. PICK o \in inFlight[w] :
          /\ inFlight' = [inFlight EXCEPT ![w] = @ \ {o}]
          /\ failed' \in {failed, failed \cup {<<w, o>>}}
          /\ \/ /\ counter' = counter + local[w] + 1
                /\ local' = [local EXCEPT ![w] = 0]
                /\ counted' = counted \cup ({w} \X (uncounted[w] \cup {o}))
                /\ uncounted' = [uncounted EXCEPT ![w] = {}]
             \/ /\ local' = [local EXCEPT ![w] = @ + 1]
                /\ uncounted' = [uncounted EXCEPT ![w] = @ \cup {o}]
                /\ UNCHANGED <<counter, counted>>
    BY <1>3 DEF SendResolves, LocalAfterFlush
  <2>2. o \in Nat
    BY <1>0, <2>1 DEF ProduceTypes
  <2>3. inFlight' \in [Workers -> SUBSET Nat] /\ local' \in [Workers -> Nat]
    BY <1>0, <2>1 DEF ProduceTypes
  <2>4. ProduceTypes'
    BY <1>0, <1>3, <2>3 DEF ProduceTypes, SendResolves
  <2>5. SharedTypes'
    BY <1>0, <2>1, ProduceFrame DEF SharedTypes, ProduceTypes
  <2>6. BrokerTypes'
    BY <1>0, <2>1, <2>2, ProduceFrame DEF BrokerTypes
  <2>7. HistoryTypes'
    BY <1>0, <2>1, <2>2 DEF HistoryTypes
  <2> QED
    BY <2>4, <2>5, <2>6, <2>7
<1>4. CASE ProduceReturns(w)
  <2>1. HistoryTypes'
    BY <1>0, <1>4 DEF HistoryTypes, ProduceReturns
  <2>2. SharedTypes'
    BY <1>0, <1>4 DEF SharedTypes, ProduceTypes, ProduceReturns, Remainder
  <2> QED
    BY <1>0, <1>1, <1>4, <2>1, <2>2 DEF ProduceReturns, ProduceTypes, BrokerTypes, brokerVars
<1>5. CASE ReceiveEnd(w) \/ CancelProduce(w)
  BY <1>0, <1>1, <1>5 DEF ReceiveEnd, CancelProduce, ProduceTypes, SharedTypes, BrokerTypes,
     HistoryTypes, brokerVars, history
<1> QED
  BY <1>2, <1>3, <1>4, <1>5 DEF Produce

LEMMA TypeInvStep == TypeInv /\ [Next]_vars => TypeInv'
<1> SUFFICES ASSUME TypeInv, [Next]_vars PROVE TypeInv'
  OBVIOUS
<1>0. /\ ConsumeTypes /\ ProduceTypes /\ SharedTypes /\ BrokerTypes /\ HistoryTypes
      /\ Positions /\ ConsumePoint
  BY DEF TypeInv, TypeOK
<1>1. ASSUME NEW w \in Workers, Consume(w) PROVE TypeInv'
  BY <1>1, ConsumeTypesStep, ConsumePositionsStep, ConsumeOtherTypesStep DEF TypeInv, TypeOK
<1>2. ASSUME NEW w \in Workers, Produce(w) PROVE TypeInv'
  <2>1. ConsumeTypes' /\ ConsumePoint' /\ Positions'
    BY <1>0, <1>2, ProduceFrame DEF ConsumeTypes, ConsumePoint, Positions
  <2> QED
    BY <1>2, <2>1, ProduceTypesStep DEF TypeInv, TypeOK
<1>3. ASSUME NEW w \in Workers, Arrive(w) PROVE TypeInv'
  <2>1. BrokerTypes' /\ Positions'
    <3>1. /\ avail' = [avail EXCEPT ![w] = avail[w] + 1] /\ avail[w] < Len(Log[w])
          /\ UNCHANGED <<cursor, fetched, slow, errs, failed>>
      BY <1>3 DEF Arrive, consumeVars
    <3>2. \A v \in Workers : Len(Log[v]) \in Nat
      BY LogType
    <3>3. BrokerTypes'
      BY <1>0, <3>1 DEF BrokerTypes
    <3>4. ASSUME NEW v \in Workers
          PROVE  cursor'[v] <= fetched'[v] /\ fetched'[v] <= avail'[v] /\ avail'[v] <= Len(Log[v])
      <4>1. /\ cursor[v] \in Nat /\ fetched[v] \in Nat /\ avail[v] \in Nat
            /\ cursor[v] <= fetched[v] /\ fetched[v] <= avail[v] /\ avail[v] <= Len(Log[v])
        BY <1>0 DEF ConsumeTypes, BrokerTypes, Positions
      <4>2. avail'[v] = IF v = w THEN avail[v] + 1 ELSE avail[v]
        BY <1>0, <3>1 DEF BrokerTypes
      <4> QED
        BY <3>1, <3>2, <4>1, <4>2
    <3> QED
      BY <3>3, <3>4 DEF Positions
  <2>2. ConsumeTypes' /\ ConsumePoint' /\ ProduceTypes' /\ SharedTypes' /\ HistoryTypes'
    BY <1>0, <1>3, ArriveFrame
    DEF ConsumeTypes, ConsumePoint, ProduceTypes, SharedTypes, HistoryTypes
  <2> QED
    BY <2>1, <2>2 DEF TypeInv, TypeOK
<1>4. CASE Others
  <2>1. SharedTypes'
    BY <1>0, <1>4 DEF Others, JoinWorkers, ReporterStops, Report, vars, SharedTypes
  <2>2. /\ ConsumeTypes' /\ ConsumePoint' /\ ProduceTypes' /\ BrokerTypes' /\ HistoryTypes'
        /\ Positions'
    BY <1>0, <1>4, OthersFrame
    DEF ConsumeTypes, ConsumePoint, ProduceTypes, BrokerTypes, HistoryTypes, Positions
  <2> QED
    BY <2>1, <2>2 DEF TypeInv, TypeOK
<1> QED
  BY <1>1, <1>2, <1>3, <1>4, StepKinds

\* Every variable of the processor keeps its type, and a consume loop never reads past its
\* batch, nor a batch past the end of the partition.
THEOREM TypeCorrect == Spec => []TypeOK
<1>1. Spec => []TypeInv
  BY InitTypeInv, TypeInvStep, PTL DEF Spec
<1> QED
  BY <1>1, PTL DEF TypeInv

-----------------------------------------------------------------------------
(* Lifecycle: what the position of one task of a worker says of the other. *)

Lifecycle(w) ==
    /\ ppc[w] = "none" => cpc[w] \in {"assign", "seek", "panicked"}
    /\ cpc[w] \in {"assign", "seek"} => ppc[w] = "none"
    /\ ppc[w] = "cancelled" => cpc[w] = "panicked"
    /\ ppc[w] = "finished" => ~open[w] /\ inFlight[w] = {} /\ uncounted[w] = {}
    /\ ~open[w] => chan[w] = <<>> /\ cpc[w] \in {"await", "panicked", "done"}
    /\ cpc[w] = "done" => ppc[w] = "finished"
    /\ main # "joining" => cpc[w] = "done" \/ (cpc[w] = "panicked" /\ ppc[w] # "running")

LifecycleInv == \A w \in Workers : Lifecycle(w)

\* While a consume loop has a buffer to hand over, the receiving end exists: the early
\* return for a closed channel is never taken.
LEMMA ReceiverOutlivesSender ==
  ASSUME TypeInv, LifecycleInv, NEW w \in Workers, cpc[w] = "send"
  PROVE  ppc[w] = "running" /\ open[w]
<1>1. ppc[w] \in {"none", "running", "finished", "cancelled"} /\ open[w] \in BOOLEAN
  BY DEF TypeInv, TypeOK, ProduceTypes
<1> QED
  BY <1>1 DEF LifecycleInv, Lifecycle

LEMMA LifecycleStep == TypeInv /\ LifecycleInv /\ [Next]_vars => LifecycleInv'
<1> SUFFICES ASSUME TypeInv, LifecycleInv, [Next]_vars PROVE LifecycleInv'
  OBVIOUS
<1>0. ConsumeTypes /\ ProduceTypes /\ SharedTypes /\ HistoryTypes
  BY DEF TypeInv, TypeOK
<1>1. ASSUME NEW w \in Workers, Consume(w) PROVE LifecycleInv'
  <2> SUFFICES ASSUME NEW v \in Workers PROVE Lifecycle(v)'
    BY DEF LifecycleInv
  <2>0. Lifecycle(v) /\ Lifecycle(w)
    BY DEF LifecycleInv
  <2>1. CASE Assign(w)
    BY <1>0, <2>1, <2>0 DEF Assign, Lifecycle, ConsumeTypes, ProduceTypes, produceVars,
       brokerVars, history
  <2>2. CASE Seek(w)
    BY <1>0, <2>2, <2>0 DEF Seek, Lifecycle, ConsumeTypes, ProduceTypes, produceVars,
       brokerVars, history
  <2>3. CASE SetupFails(w)
    BY <1>0, <2>3, <2>0 DEF SetupFails, Lifecycle, ConsumeTypes, ProduceTypes, produceVars,
       brokerVars, history
  <2>4. CASE CheckTotal(w)
    BY <1>0, <2>4, <2>0 DEF CheckTotal, Lifecycle, ConsumeTypes, ProduceTypes, produceVars,
       brokerVars, history
  <2>5. CASE PollRecords(w)
    BY <1>0, <2>5, <2>0 DEF PollRecords, Lifecycle, ConsumeTypes, ProduceTypes, produceVars,
       brokerVars, history
  <2>6. CASE PollEmpty(w)
    BY <1>0, <2>6, <2>0 DEF PollEmpty, Lifecycle, ConsumeTypes, ProduceTypes, produceVars,
       brokerVars, history
  <2>7. CASE PollFails(w)
    BY <1>0, <2>7, <2>0 DEF PollFails, Lifecycle, ConsumeTypes, ProduceTypes, produceVars,
       brokerVars, history
  <2>8. CASE LoadStart(w)
    BY <1>0, <2>8, <2>0 DEF LoadStart, Lifecycle, ConsumeTypes, ProduceTypes, produceVars,
       brokerVars, history
  <2>9. CASE ClaimStart(w)
    BY <1>0, <2>9, <2>0 DEF ClaimStart, Lifecycle, ConsumeTypes, ProduceTypes, produceVars,
       brokerVars, history
  <2>10. CASE EndBatch(w)
    BY <1>0, <2>10, <2>0 DEF EndBatch, Lifecycle, ConsumeTypes, ProduceTypes, produceVars,
       brokerVars, history
  <2>11. CASE SkipNull(w)
    BY <1>0, <2>11, <2>0 DEF SkipNull, AtRecord, Lifecycle, ConsumeTypes, ProduceTypes, produceVars,
       brokerVars, history
  <2>12. CASE DecodeValue(w)
    BY <1>0, <2>12, <2>0 DEF DecodeValue, AtRecord, Lifecycle, ConsumeTypes, ProduceTypes, produceVars,
       brokerVars, history
  <2>13. CASE DecodePanics(w)
    BY <1>0, <2>13, <2>0 DEF DecodePanics, AtRecord, Lifecycle, ConsumeTypes, ProduceTypes, produceVars,
       brokerVars, history
  <2>14. CASE SendBuffer(w)
    <3>1. ppc[w] = "running" /\ open[w]
      BY <2>14, ReceiverOutlivesSender DEF SendBuffer
    <3> QED
      BY <1>0, <2>14, <2>0, <3>1 DEF SendBuffer, Lifecycle, ConsumeTypes, ProduceTypes, history
  <2>15. CASE AwaitProduce(w)
    BY <1>0, <2>15, <2>0 DEF AwaitProduce, Lifecycle, ConsumeTypes, ProduceTypes, produceVars,
       history
  <2> QED
    BY <1>1, <2>1, <2>2, <2>3, <2>4, <2>5, <2>6, <2>7, <2>8, <2>9, <2>10, <2>11, <2>12,
       <2>13, <2>14, <2>15 DEF Consume
<1>2. ASSUME NEW w \in Workers, Produce(w) PROVE LifecycleInv'
  <2> SUFFICES ASSUME NEW v \in Workers PROVE Lifecycle(v)'
    BY DEF LifecycleInv
  <2>0. Lifecycle(v) /\ Lifecycle(w)
    BY DEF LifecycleInv
  <2>1. CASE ReceiveBuffer(w)
    BY <1>0, <2>1, <2>0 DEF ReceiveBuffer, LoopContinues, Lifecycle, ProduceTypes, consumeVars,
       history
  <2>2. CASE ReceiveEnd(w)
    BY <1>0, <2>2, <2>0 DEF ReceiveEnd, TxDropped, Lifecycle, ProduceTypes, consumeVars, history
  <2>3. CASE SendResolves(w)
    <3>1. /\ ppc[w] = "running" /\ UNCHANGED <<cpc, ppc, chan, open, main>>
          /\ w # v => inFlight'[v] = inFlight[v] /\ uncounted'[v] = uncounted[v]
      BY <1>0, <2>3 DEF SendResolves, consumeVars, ProduceTypes, HistoryTypes
    <3> QED
      BY <1>0, <2>0, <3>1 DEF Lifecycle, ProduceTypes
  <2>4. CASE ProduceReturns(w)
    BY <1>0, <2>4, <2>0 DEF ProduceReturns, LoopContinues, Lifecycle, ProduceTypes, HistoryTypes,
       consumeVars
  <2>5. CASE CancelProduce(w)
    BY <1>0, <2>5, <2>0 DEF CancelProduce, Lifecycle, ProduceTypes, consumeVars, history
  <2> QED
    BY <1>2, <2>1, <2>2, <2>3, <2>4, <2>5 DEF Produce
<1>3. ASSUME NEW w \in Workers, Arrive(w) PROVE LifecycleInv'
  BY <1>3, ArriveFrame DEF LifecycleInv, Lifecycle
<1>4. CASE Others
  <2>1. main' # "joining" => main # "joining" \/ AllEnded
    BY <1>4 DEF Others, JoinWorkers, ReporterStops, Report, vars
  <2> QED
    BY <1>4, <2>1, OthersFrame DEF LifecycleInv, Lifecycle, AllEnded, WorkerEnded
<1> QED
  BY <1>1, <1>2, <1>3, <1>4, StepKinds

-----------------------------------------------------------------------------
(* Placement: where each record of a worker is between its channel, its    *)
(* window and the two counters.                                            *)

IsResolved(w, o) == o \in uncounted[w] \/ <<w, o>> \in counted

\* Everything downstream of the consume loop comes from a record it handed over.
Placed(w) ==
    /\ \A i \in 1 .. Len(chan[w]) : chan[w][i] \in HandedOver(w)
    /\ \A o \in inFlight[w] : o \in HandedOver(w)
    /\ \A o : IsResolved(w, o) => o \in HandedOver(w)

\* The channel is first in, first out, and older records have left it already.
Ordered(w) ==
    /\ \A i, j \in 1 .. Len(chan[w]) : i < j => chan[w][i] < chan[w][j]
    /\ \A i \in 1 .. Len(chan[w]) :
         /\ \A o \in inFlight[w] : o < chan[w][i]
         /\ \A o : IsResolved(w, o) => o < chan[w][i]

\* A record is in flight, or in one of the two counters, never in two of them.
Apart(w) ==
    /\ \A o \in inFlight[w] : ~IsResolved(w, o)
    /\ \A o \in uncounted[w] : <<w, o>> \notin counted

\* And no record is dropped on the way.
Covered(w) ==
    \A o \in HandedOver(w) :
        \/ \E i \in 1 .. Len(chan[w]) : chan[w][i] = o
        \/ o \in inFlight[w]
        \/ IsResolved(w, o)

Pipe(w) == Placed(w) /\ Ordered(w) /\ Apart(w) /\ Covered(w)
PipeInv == \A w \in Workers : Pipe(w)

\* A worker whose cursor, channel, window and counted records do not change keeps Pipe.
LEMMA PipeUntouched ==
  ASSUME NEW v \in Workers, Pipe(v),
         cursor'[v] = cursor[v], chan'[v] = chan[v], inFlight'[v] = inFlight[v],
         uncounted'[v] = uncounted[v],
         \A o : <<v, o>> \in counted' <=> <<v, o>> \in counted
  PROVE  Pipe(v)'
<1>1. HandedOver(v)' = HandedOver(v)
  BY DEF HandedOver, Values, Offsets
<1>2. \A o : IsResolved(v, o)' <=> IsResolved(v, o)
  BY DEF IsResolved
<1> QED
  BY <1>1, <1>2 DEF Pipe, Placed, Ordered, Apart, Covered

\* Passing over a record without a value hands nothing over.
LEMMA SkipNullPipe ==
  ASSUME TypeInv, NEW w \in Workers, Pipe(w), SkipNull(w)
  PROVE  Pipe(w)'
<1>1. /\ cursor'[w] = cursor[w] + 1 /\ Log[w][cursor[w] + 1] = "null" /\ cursor[w] \in Nat
      /\ UNCHANGED <<chan, inFlight, uncounted, counted>>
  BY DEF SkipNull, AtRecord, TypeInv, TypeOK, ConsumeTypes, produceVars, history
<1>2. HandedOver(w)' = HandedOver(w)
  BY <1>1 DEF HandedOver, Values, Offsets
<1> QED
  BY <1>1, <1>2 DEF Pipe, Placed, Ordered, Apart, Covered, IsResolved

\* A buffer enters the channel behind all that were handed over before it.
LEMMA SendBufferPipe ==
  ASSUME TypeInv, LifecycleInv, LogType, NEW w \in Workers, Pipe(w), SendBuffer(w)
  PROVE  Pipe(w)'
<1> DEFINE x == cursor[w] + 1
           c == chan[w]
           d == Append(c, x)
<1>1. ppc[w] = "running"
  BY ReceiverOutlivesSender DEF SendBuffer
<1>2. /\ cursor \in [Workers -> Nat] /\ chan \in [Workers -> Seq(Nat)]
      /\ cpc[w] = "send" => cursor[w] < fetched[w] /\ Log[w][x] = "value"
      /\ fetched[w] \in Nat /\ avail[w] \in Nat /\ fetched[w] <= avail[w]
      /\ avail[w] <= Len(Log[w]) /\ Len(Log[w]) \in Nat
  BY LogType DEF TypeInv, TypeOK, ConsumeTypes, ProduceTypes, ConsumePoint, Positions, BrokerTypes
<1>3. /\ cursor'[w] = x /\ chan'[w] = d /\ UNCHANGED <<inFlight, uncounted, counted>>
      /\ cpc[w] = "send"
  BY <1>1, <1>2 DEF SendBuffer, Sent, CursorAfterRecord, history
<1>4. c \in Seq(Nat) /\ x \in Nat /\ Len(c) \in Nat
  BY <1>2
<1>5. Len(d) = Len(c) + 1 /\ (\A i \in 1 .. Len(c) : d[i] = c[i]) /\ d[Len(c) + 1] = x
  BY <1>4, AppendProperties
<1>6. x \in Values(w)
  BY <1>2, <1>3 DEF Values, Offsets
<1>7. HandedOver(w)' = HandedOver(w) \cup {x} /\ \A o \in HandedOver(w) : o \in Nat /\ o < x
  BY <1>2, <1>3, <1>6 DEF HandedOver, Values, Offsets
<1>8. \A o : IsResolved(w, o)' <=> IsResolved(w, o)
  BY <1>3 DEF IsResolved
<1> HIDE DEF x, c, d
<1>9. \A i \in 1 .. Len(d) : (i \in 1 .. Len(c) /\ d[i] = c[i]) \/ (i = Len(c) + 1 /\ d[i] = x)
  BY <1>4, <1>5
<1>10. Placed(w)'
  BY <1>3, <1>7, <1>8, <1>9 DEF Pipe, Placed, c
<1>11. Ordered(w)'
  <2>1. ASSUME NEW i \in 1 .. Len(d), NEW j \in 1 .. Len(d), i < j PROVE d[i] < d[j]
    <3>1. i \in 1 .. Len(c) /\ d[i] = c[i]
      BY <1>4, <1>5, <1>9, <2>1
    <3>2. CASE j = Len(c) + 1
      <4>1. c[i] < x
        BY <1>7, <3>1 DEF Pipe, Placed, c
      <4> QED
        BY <1>5, <3>1, <3>2, <4>1
    <3>3. CASE j \in 1 .. Len(c)
      <4>1. c[i] < c[j]
        BY <2>1, <3>1, <3>3 DEF Pipe, Ordered, c
      <4> QED
        BY <1>5, <3>1, <3>3, <4>1
    <3> QED
      BY <1>9, <3>2, <3>3
  <2>2. \A i \in 1 .. Len(d) : \A o : o \in inFlight[w] \/ IsResolved(w, o) => o < d[i]
    BY <1>7, <1>9 DEF Pipe, Placed, Ordered, c
  <2> QED
    BY <1>3, <1>8, <2>1, <2>2 DEF Ordered
<1>12. Apart(w)'
  BY <1>3, <1>8 DEF Pipe, Apart
<1>13. Covered(w)'
  <2>1. \A o \in HandedOver(w) : (\E i \in 1 .. Len(c) : c[i] = o) => \E i \in 1 .. Len(d) : d[i] = o
    BY <1>4, <1>5
  <2>2. \E i \in 1 .. Len(d) : d[i] = x
    BY <1>4, <1>5
  <2> QED
    BY <1>3, <1>7, <1>8, <2>1, <2>2 DEF Pipe, Covered, c
<1> QED
  BY <1>10, <1>11, <1>12, <1>13 DEF Pipe

\* The oldest buffer of the channel becomes the newest send in flight.
LEMMA ReceiveBufferPipe ==
  ASSUME TypeInv, NEW w \in Workers, Pipe(w), ReceiveBuffer(w)
  PROVE  Pipe(w)'
<1> DEFINE c == chan[w]
           h == Head(c)
           t == Tail(c)
<1>1. chan \in [Workers -> Seq(Nat)] /\ inFlight \in [Workers -> SUBSET Nat]
  BY DEF TypeInv, TypeOK, ProduceTypes
<1>2. /\ chan'[w] = t /\ inFlight'[w] = inFlight[w] \cup {h} /\ c # <<>>
      /\ UNCHANGED <<cursor, uncounted, counted>>
  BY <1>1 DEF ReceiveBuffer, consumeVars, history
<1>3. c \in Seq(Nat) /\ Len(c) \in Nat /\ Len(c) # 0
  BY <1>1, <1>2, EmptySeq
<1>4. /\ h = c[1] /\ h \in Nat /\ Len(t) = Len(c) - 1
      /\ \A i \in 1 .. Len(t) : t[i] = c[i + 1] /\ i + 1 \in 1 .. Len(c)
  BY <1>2, <1>3, HeadTailProperties
<1>5. HandedOver(w)' = HandedOver(w) /\ \A o : IsResolved(w, o)' <=> IsResolved(w, o)
  BY <1>2 DEF HandedOver, IsResolved, Values, Offsets
<1>6. 1 \in 1 .. Len(c)
  BY <1>3
<1> HIDE DEF c, h, t
<1>7. Placed(w)'
  BY <1>2, <1>4, <1>5, <1>6 DEF Pipe, Placed, c
<1>8. Ordered(w)'
  <2>1. \A i, j \in 1 .. Len(t) : i < j => t[i] < t[j]
    <3> SUFFICES ASSUME NEW i \in 1 .. Len(t), NEW j \in 1 .. Len(t), i < j PROVE t[i] < t[j]
      OBVIOUS
    <3>1. i + 1 < j + 1
      OBVIOUS
    <3> QED
      BY <1>4, <3>1 DEF Pipe, Ordered, c
  <2>2. \A i \in 1 .. Len(t) : h < t[i]
    <3> SUFFICES ASSUME NEW i \in 1 .. Len(t) PROVE h < t[i]
      OBVIOUS
    <3>1. 1 < i + 1
      OBVIOUS
    <3> QED
      BY <1>4, <1>6, <3>1 DEF Pipe, Ordered, c
  <2>3. \A i \in 1 .. Len(t) : \A o : o \in inFlight[w] \/ IsResolved(w, o) => o < t[i]
    BY <1>4 DEF Pipe, Ordered, c
  <2> QED
    BY <1>2, <1>5, <2>1, <2>2, <2>3 DEF Ordered
<1>9. Apart(w)'
  <2>1. ~IsResolved(w, h)
    BY <1>4, <1>6 DEF Pipe, Ordered, c
  <2> QED
    BY <1>2, <1>5, <2>1 DEF Pipe, Apart
<1>10. Covered(w)'
  <2>1. \A o : (\E i \in 1 .. Len(c) : c[i] = o) => o = h \/ \E i \in 1 .. Len(t) : t[i] = o
    <3> SUFFICES ASSUME NEW i \in 1 .. Len(c), c[i] # h PROVE \E k \in 1 .. Len(t) : t[k] = c[i]
      OBVIOUS
    <3>1. i # 1 /\ i - 1 \in 1 .. Len(t)
      BY <1>3, <1>4
    <3>2. t[i - 1] = c[(i - 1) + 1]
      BY <1>4, <3>1
    <3> QED
      BY <3>1, <3>2
  <2> QED
    BY <1>2, <1>5, <2>1 DEF Pipe, Covered, c
<1> QED
  BY <1>7, <1>8, <1>9, <1>10 DEF Pipe

\* What one resolved send does, whichever way it goes.
LEMMA SendResolvesEffect ==
  ASSUME TypeInv, NEW w \in Workers, SendResolves(w)
  PROVE  \E o \in inFlight[w] :
           /\ inFlight'[w] = inFlight[w] \ {o}
           /\ \A v \in Workers \ {w} : inFlight'[v] = inFlight[v] /\ uncounted'[v] = uncounted[v]
                                        /\ local'[v] = local[v]
           /\ UNCHANGED <<cpc, cursor, chan, ppc>>
           /\ \/ /\ counter' = counter + local[w] + 1 /\ local'[w] = 0
                 /\ counted' = counted \cup ({w} \X (uncounted[w] \cup {o}))
                 /\ uncounted'[w] = {}
              \/ /\ local'[w] = local[w] + 1 /\ uncounted'[w] = uncounted[w] \cup {o}
                 /\ UNCHANGED <<counter, counted>>
<1>1. /\ inFlight \in [Workers -> SUBSET Nat] /\ uncounted \in [Workers -> SUBSET Nat]
      /\ local \in [Workers -> Nat]
  BY DEF TypeInv, TypeOK, ProduceTypes, HistoryTypes
<1>2. PICK o \in inFlight[w] :
        /\ inFlight' = [inFlight EXCEPT ![w] = @ \ {o}]
        /\ \/ /\ counter' = counter + local[w] + 1
              /\ local' = [local EXCEPT ![w] = 0]
              /\ counted' = counted \cup ({w} \X (uncounted[w] \cup {o}))
              /\ uncounted' = [uncounted EXCEPT ![w] = {}]
           \/ /\ local' = [local EXCEPT ![w] = @ + 1]
              /\ uncounted' = [uncounted EXCEPT ![w] = @ \cup {o}]
              /\ UNCHANGED <<counter, counted>>
  BY DEF SendResolves, LocalAfterFlush
<1>3. UNCHANGED <<cpc, cursor, chan, ppc>>
  BY DEF SendResolves, consumeVars
<1> QED
  BY <1>1, <1>2, <1>3

\* A resolved send leaves the window for one of the two counters.
LEMMA SendResolvesPipe ==
  ASSUME TypeInv, NEW w \in Workers, Pipe(w), SendResolves(w)
  PROVE  Pipe(w)'
<1>1. PICK o \in inFlight[w] :
        /\ inFlight'[w] = inFlight[w] \ {o} /\ UNCHANGED <<cursor, chan>>
        /\ \/ /\ counted' = counted \cup ({w} \X (uncounted[w] \cup {o}))
              /\ uncounted'[w] = {}
           \/ /\ uncounted'[w] = uncounted[w] \cup {o}
              /\ counted' = counted
  BY SendResolvesEffect
<1>2. HandedOver(w)' = HandedOver(w)
  BY <1>1 DEF HandedOver, Values, Offsets
<1>3. \A p : IsResolved(w, p)' <=> IsResolved(w, p) \/ p = o
  BY <1>1 DEF IsResolved
<1>4. Placed(w)' /\ Ordered(w)' /\ Covered(w)'
  BY <1>1, <1>2, <1>3 DEF Pipe, Placed, Ordered, Covered
<1>5. Apart(w)'
  BY <1>1, <1>3 DEF Pipe, Apart, IsResolved
<1> QED
  BY <1>4, <1>5 DEF Pipe

\* Publishing the remainder moves records from the local to the shared counter.
LEMMA ProduceReturnsPipe ==
  ASSUME TypeInv, NEW w \in Workers, Pipe(w), ProduceReturns(w)
  PROVE  Pipe(w)'
<1>1. /\ uncounted'[w] = {} /\ counted' = counted \cup ({w} \X uncounted[w])
      /\ UNCHANGED <<cursor, chan, inFlight>>
  BY DEF ProduceReturns, TypeInv, TypeOK, HistoryTypes, consumeVars
<1>2. HandedOver(w)' = HandedOver(w)
  BY <1>1 DEF HandedOver, Values, Offsets
<1>3. \A p : IsResolved(w, p)' <=> IsResolved(w, p)
  BY <1>1 DEF IsResolved
<1> QED
  BY <1>1, <1>2, <1>3 DEF Pipe, Placed, Ordered, Apart, Covered

LEMMA PipeStep == TypeInv /\ LifecycleInv /\ PipeInv /\ [Next]_vars => PipeInv'
<1> SUFFICES ASSUME TypeInv, LifecycleInv, PipeInv, [Next]_vars, NEW v \in Workers
             PROVE  Pipe(v)'
  BY DEF PipeInv
<1>0. Pipe(v)
  BY DEF PipeInv
<1>t. /\ cursor \in [Workers -> Nat] /\ chan \in [Workers -> Seq(Nat)]
      /\ inFlight \in [Workers -> SUBSET Nat] /\ uncounted \in [Workers -> SUBSET Nat]
  BY DEF TypeInv, TypeOK, ConsumeTypes, ProduceTypes, HistoryTypes
<1>1. ASSUME NEW w \in Workers, Consume(w) PROVE Pipe(v)'
  <2>1. CASE w = v /\ (SkipNull(w) \/ SendBuffer(w))
    BY <1>0, <2>1, SkipNullPipe, SendBufferPipe, LogType
  <2>2. CASE ~(w = v /\ (SkipNull(w) \/ SendBuffer(w)))
    <3>1. cursor'[v] = cursor[v]
      BY <1>1, <1>t, <2>2, ConsumeFrame DEF SkipNull, SendBuffer
    <3>2. chan'[v] = chan[v]
      BY <1>1, <1>t, <2>2, ConsumeFrame DEF SendBuffer
    <3> QED
      BY <1>0, <1>1, <3>1, <3>2, ConsumeFrame, PipeUntouched
  <2> QED
    BY <2>1, <2>2
<1>2. ASSUME NEW w \in Workers, Produce(w) PROVE Pipe(v)'
  <2>1. CASE w = v /\ (ReceiveBuffer(w) \/ SendResolves(w) \/ ProduceReturns(w))
    BY <1>0, <2>1, ReceiveBufferPipe, SendResolvesPipe, ProduceReturnsPipe
  <2>2. CASE ~(w = v /\ (ReceiveBuffer(w) \/ SendResolves(w) \/ ProduceReturns(w)))
    <3>1. cursor'[v] = cursor[v]
      BY <1>2, ProduceFrame
    <3>2. chan'[v] = chan[v]
      BY <1>2, <1>t, <2>2, ProduceFrame DEF ReceiveBuffer
    <3>3. inFlight'[v] = inFlight[v]
      BY <1>2, <1>t, <2>2, ProduceFrame, SendResolvesEffect DEF ReceiveBuffer
    <3>4. uncounted'[v] = uncounted[v]
      BY <1>2, <1>t, <2>2, ProduceFrame, SendResolvesEffect DEF ProduceReturns
    <3>5. \A o : <<v, o>> \in counted' <=> <<v, o>> \in counted
      BY <1>2, <2>2, ProduceFrame, SendResolvesEffect DEF ProduceReturns
    <3> QED
      BY <1>0, <3>1, <3>2, <3>3, <3>4, <3>5, PipeUntouched
  <2> QED
    BY <2>1, <2>2
<1>3. ASSUME NEW w \in Workers, Arrive(w) PROVE Pipe(v)'
  BY <1>0, <1>3, ArriveFrame, PipeUntouched
<1>4. CASE Others
  BY <1>0, <1>4, OthersFrame, PipeUntouched
<1> QED
  BY <1>1, <1>2, <1>3, <1>4, StepKinds

-----------------------------------------------------------------------------
(* Counting and the bounds of the windows.                                 *)

LEMMA OffsetsFinite ==
  ASSUME NEW w \in Workers
  PROVE  /\ Len(Log[w]) \in Nat /\ Offsets(w) \subseteq Nat /\ IsFiniteSet(Offsets(w))
         /\ IsFiniteSet(Values(w)) /\ Values(w) \subseteq Offsets(w)
<1>1. Len(Log[w]) \in Nat
  BY LogType
<1>2. IsFiniteSet(Offsets(w)) /\ Offsets(w) \subseteq Nat
  BY <1>1, FS_Interval DEF Offsets
<1>3. Values(w) \subseteq Offsets(w)
  BY DEF Values
<1> QED
  BY <1>1, <1>2, <1>3, FS_Subset

LEMMA PartsFinite ==
  ASSUME PipeInv, NEW w \in Workers
  PROVE  IsFiniteSet(inFlight[w]) /\ IsFiniteSet(uncounted[w])
<1>1. inFlight[w] \subseteq Values(w) /\ uncounted[w] \subseteq Values(w)
  BY DEF PipeInv, Pipe, Placed, IsResolved, HandedOver
<1> QED
  BY <1>1, OffsetsFinite, FS_Subset

CountInv ==
    /\ IsFiniteSet(counted)
    /\ counter = Cardinality(counted)
    /\ \A w \in Workers : ppc[w] # "finished" => local[w] = Cardinality(uncounted[w])

\* Publishing moves as many records into counted as it adds to the counter.
LEMMA PublishCardinality ==
  ASSUME NEW C, IsFiniteSet(C), NEW S, IsFiniteSet(S), NEW w,
         \A o \in S : <<w, o>> \notin C
  PROVE  /\ IsFiniteSet(C \cup ({w} \X S))
         /\ Cardinality(C \cup ({w} \X S)) = Cardinality(C) + Cardinality(S)
<1> DEFINE P == {w} \X S
<1>1. IsFiniteSet({w}) /\ Cardinality({w}) = 1
  BY FS_Singleton
<1>2. Cardinality(S) \in Nat /\ Cardinality(C) \in Nat
  BY FS_CardinalityType
<1>3. IsFiniteSet(P) /\ Cardinality(P) = Cardinality({w}) * Cardinality(S)
  BY <1>1, FS_Product
<1>4. Cardinality(P) = Cardinality(S)
  BY <1>1, <1>2, <1>3
<1>5. C \cap P = {}
  OBVIOUS
<1> HIDE DEF P
<1>6. Cardinality(C \cap P) = 0
  BY <1>5, FS_EmptySet
<1>7. /\ IsFiniteSet(C \cup P)
      /\ Cardinality(C \cup P) = Cardinality(C) + Cardinality(P) - Cardinality(C \cap P)
  BY <1>3, FS_Union
<1>8. IsFiniteSet(C \cup P) /\ Cardinality(C \cup P) = Cardinality(C) + Cardinality(S)
  BY <1>2, <1>4, <1>6, <1>7
<1> QED
  BY <1>8 DEF P

LEMMA CountStep ==
  TypeInv /\ LifecycleInv /\ PipeInv /\ CountInv /\ [Next]_vars => CountInv'
<1> SUFFICES ASSUME TypeInv, LifecycleInv, PipeInv, CountInv, [Next]_vars PROVE CountInv'
  OBVIOUS
<1>t. /\ ppc \in [Workers -> {"none", "running", "finished", "cancelled"}]
      /\ local \in [Workers -> Nat] /\ uncounted \in [Workers -> SUBSET Nat] /\ counter \in Nat
  BY DEF TypeInv, TypeOK, ProduceTypes, HistoryTypes, SharedTypes
<1>1. ASSUME NEW w \in Workers, Consume(w) PROVE CountInv'
  BY <1>1, <1>t, ConsumeFrame DEF CountInv, Seek, LifecycleInv, Lifecycle
<1>2. ASSUME NEW w \in Workers, Produce(w) PROVE CountInv'
  <2>0. IsFiniteSet(uncounted[w]) /\ Cardinality(uncounted[w]) \in Nat
    BY PartsFinite, FS_CardinalityType
  <2>1. CASE SendResolves(w)
    <3>1. PICK o \in inFlight[w] :
            /\ \A v \in Workers \ {w} : uncounted'[v] = uncounted[v] /\ local'[v] = local[v]
            /\ ppc' = ppc
            /\ \/ /\ counter' = counter + local[w] + 1 /\ local'[w] = 0
                  /\ counted' = counted \cup ({w} \X (uncounted[w] \cup {o}))
                  /\ uncounted'[w] = {}
               \/ /\ local'[w] = local[w] + 1 /\ uncounted'[w] = uncounted[w] \cup {o}
                  /\ UNCHANGED <<counter, counted>>
      BY <2>1, SendResolvesEffect
    <3>2. ppc[w] = "running"
      BY <2>1 DEF SendResolves
    <3>3. local[w] = Cardinality(uncounted[w])
      BY <3>2 DEF CountInv
    <3>4. o \notin uncounted[w] /\ \A p \in uncounted[w] \cup {o} : <<w, p>> \notin counted
      BY DEF PipeInv, Pipe, Apart, IsResolved
    <3>5. /\ IsFiniteSet(uncounted[w] \cup {o})
          /\ Cardinality(uncounted[w] \cup {o}) = local[w] + 1
      BY <2>0, <3>3, <3>4, FS_AddElement
    <3>6. CASE /\ counter' = counter + local[w] + 1 /\ local'[w] = 0
               /\ counted' = counted \cup ({w} \X (uncounted[w] \cup {o}))
               /\ uncounted'[w] = {}
      <4>1. IsFiniteSet(counted') /\ Cardinality(counted') = Cardinality(counted) + local[w] + 1
        <5>1. IsFiniteSet(counted) /\ Cardinality(counted) \in Nat
          BY FS_CardinalityType DEF CountInv
        <5>2. /\ IsFiniteSet(counted \cup ({w} \X (uncounted[w] \cup {o})))
              /\ Cardinality(counted \cup ({w} \X (uncounted[w] \cup {o}))) =
                   Cardinality(counted) + Cardinality(uncounted[w] \cup {o})
          BY <3>4, <3>5, <5>1, PublishCardinality
        <5> QED
          BY <1>t, <3>5, <3>6, <5>1, <5>2
      <4>2. local'[w] = Cardinality(uncounted'[w])
        BY <3>6, FS_EmptySet
      <4> QED
        BY <1>t, <3>1, <3>6, <4>1, <4>2, FS_CardinalityType DEF CountInv
    <3>7. CASE /\ local'[w] = local[w] + 1 /\ uncounted'[w] = uncounted[w] \cup {o}
               /\ UNCHANGED <<counter, counted>>
      BY <3>1, <3>5, <3>7 DEF CountInv
    <3> QED
      BY <3>1, <3>6, <3>7
  <2>2. CASE ProduceReturns(w)
    <3>1. /\ counter' = counter + local[w] /\ counted' = counted \cup ({w} \X uncounted[w])
          /\ \A v \in Workers \ {w} : uncounted'[v] = uncounted[v] /\ ppc'[v] = ppc[v]
          /\ ppc[w] = "running" /\ ppc'[w] = "finished" /\ local' = local
      BY <1>t, <2>2 DEF ProduceReturns, Remainder
    <3>2. local[w] = Cardinality(uncounted[w])
      BY <3>1 DEF CountInv
    <3>3. \A p \in uncounted[w] : <<w, p>> \notin counted
      BY DEF PipeInv, Pipe, Apart
    <3>4. IsFiniteSet(counted') /\ Cardinality(counted') = Cardinality(counted) + local[w]
      <4>1. IsFiniteSet(counted)
        BY DEF CountInv
      <4>2. /\ IsFiniteSet(counted \cup ({w} \X uncounted[w]))
            /\ Cardinality(counted \cup ({w} \X uncounted[w])) =
                 Cardinality(counted) + Cardinality(uncounted[w])
        BY <2>0, <3>3, <4>1, PublishCardinality
      <4> QED
        BY <3>1, <3>2, <4>2
    <3> QED
      BY <3>1, <3>4 DEF CountInv
  <2>3. CASE ReceiveBuffer(w) \/ ReceiveEnd(w) \/ CancelProduce(w)
    <3>1. UNCHANGED <<counter, counted, uncounted, local>>
      BY <2>3 DEF ReceiveBuffer, ReceiveEnd, CancelProduce, history
    <3>2. \A v \in Workers : ppc'[v] # "finished" => ppc[v] # "finished"
      BY <1>t, <2>3 DEF ReceiveBuffer, ReceiveEnd, CancelProduce
    <3> QED
      BY <3>1, <3>2 DEF CountInv
  <2> QED
    BY <1>2, <2>1, <2>2, <2>3 DEF Produce
<1>3. ASSUME NEW w \in Workers, Arrive(w) PROVE CountInv'
  BY <1>3, ArriveFrame DEF CountInv
<1>4. CASE Others
  BY <1>4, OthersFrame DEF CountInv
<1> QED
  BY <1>1, <1>2, <1>3, <1>4, StepKinds

\* The channel and the window never hold more than WORKER_WINDOW each.
WindowInv ==
    \A w \in Workers : Len(chan[w]) <= Window /\ Cardinality(inFlight[w]) <= Window

LEMMA WindowStep ==
  TypeInv /\ LifecycleInv /\ PipeInv /\ WindowInv /\ [Next]_vars => WindowInv'
<1> SUFFICES ASSUME TypeInv, LifecycleInv, PipeInv, WindowInv, [Next]_vars PROVE WindowInv'
  OBVIOUS
<1>t. /\ chan \in [Workers -> Seq(Nat)] /\ inFlight \in [Workers -> SUBSET Nat]
      /\ cursor \in [Workers -> Nat]
  BY DEF TypeInv, TypeOK, ProduceTypes, ConsumeTypes
<1>l. Window \in Nat
  BY LimitsType
<1>1. ASSUME NEW w \in Workers, Consume(w) PROVE WindowInv'
  <2>1. CASE chan' = chan
    BY <1>1, <2>1, ConsumeFrame DEF WindowInv
  <2>2. CASE SendBuffer(w) /\ chan' # chan
    <3>1. /\ chan' = [chan EXCEPT ![w] = Append(chan[w], cursor[w] + 1)]
          /\ Len(chan[w]) < Window
      BY <2>2 DEF SendBuffer, Sent, ChannelHasRoom
    <3>2. chan[w] \in Seq(Nat) /\ cursor[w] + 1 \in Nat
      BY <1>t
    <3>3. Len(Append(chan[w], cursor[w] + 1)) = Len(chan[w]) + 1 /\ Len(chan[w]) \in Nat
      BY <3>2, AppendProperties
    <3>4. Len(Append(chan[w], cursor[w] + 1)) <= Window
      BY <1>l, <3>1, <3>3
    <3>5. \A v \in Workers : Len(chan'[v]) <= Window
      BY <1>t, <3>1, <3>4 DEF WindowInv
    <3> QED
      BY <1>1, <3>5, ConsumeFrame DEF WindowInv
  <2> QED
    BY <1>1, <2>1, <2>2, ConsumeFrame
<1>2. ASSUME NEW w \in Workers, Produce(w) PROVE WindowInv'
  <2>0. IsFiniteSet(inFlight[w]) /\ Cardinality(inFlight[w]) \in Nat
    BY PartsFinite, FS_CardinalityType
  <2>1. CASE ReceiveBuffer(w)
    <3>1. /\ chan' = [chan EXCEPT ![w] = Tail(chan[w])] /\ chan[w] # <<>>
          /\ inFlight' = [inFlight EXCEPT ![w] = inFlight[w] \cup {Head(chan[w])}]
          /\ Cardinality(inFlight[w]) < Window
      BY <2>1 DEF ReceiveBuffer, WindowHasRoom
    <3>2. Len(Tail(chan[w])) = Len(chan[w]) - 1 /\ Len(chan[w]) \in Nat
      BY <1>t, <3>1, HeadTailProperties
    <3>3. Len(Tail(chan[w])) <= Window
      BY <1>l, <3>2 DEF WindowInv
    <3>4. Cardinality(inFlight[w] \cup {Head(chan[w])}) <= Window
      <4>1. Cardinality(inFlight[w] \cup {Head(chan[w])}) =
              IF Head(chan[w]) \in inFlight[w] THEN Cardinality(inFlight[w])
                                              ELSE Cardinality(inFlight[w]) + 1
        BY <2>0, FS_AddElement
      <4> QED
        BY <1>l, <2>0, <3>1, <4>1
    <3> QED
      BY <1>t, <3>1, <3>3, <3>4 DEF WindowInv
  <2>2. CASE SendResolves(w)
    <3>1. PICK o \in inFlight[w] :
            /\ inFlight'[w] = inFlight[w] \ {o} /\ chan' = chan
            /\ \A v \in Workers \ {w} : inFlight'[v] = inFlight[v]
      BY <2>2, SendResolvesEffect
    <3>2. Cardinality(inFlight[w] \ {o}) <= Window
      <4>1. Cardinality(inFlight[w] \ {o}) =
              IF o \in inFlight[w] THEN Cardinality(inFlight[w]) - 1
                                  ELSE Cardinality(inFlight[w])
        BY <2>0, FS_RemoveElement
      <4> QED
        BY <1>l, <2>0, <4>1 DEF WindowInv
    <3> QED
      BY <3>1, <3>2 DEF WindowInv
  <2>3. CASE ~ReceiveBuffer(w) /\ ~SendResolves(w)
    BY <1>2, <2>3, ProduceFrame DEF WindowInv
  <2> QED
    BY <2>1, <2>2, <2>3
<1>3. ASSUME NEW w \in Workers, Arrive(w) PROVE WindowInv'
  BY <1>3, ArriveFrame DEF WindowInv
<1>4. CASE Others
  BY <1>4, OthersFrame DEF WindowInv
<1> QED
  BY <1>1, <1>2, <1>3, <1>4, StepKinds

-----------------------------------------------------------------------------
(* Draining: between two batches everything polled has been handled, and   *)
(* while records remain each consecutive empty poll was a spurious one.    *)

Drain(w) ==
    /\ cpc[w] \in {"assign", "seek", "check", "poll"} => cursor[w] = fetched[w]
    /\ cpc[w] \notin {"assign", "seek", "panicked"} => tracked[w]
    /\ cpc[w] \in {"assign", "seek"} => empty[w] = 0
    /\ LosesNothing => avail[w] = Len(Log[w])
    /\ LosesNothing /\ fetched[w] < avail[w] => empty[w] <= slow[w]

DrainInv == \A w \in Workers : Drain(w)

LEMMA DrainStep == TypeInv /\ LifecycleInv /\ DrainInv /\ [Next]_vars => DrainInv'
<1> SUFFICES ASSUME TypeInv, LifecycleInv, DrainInv, [Next]_vars, NEW v \in Workers
             PROVE  Drain(v)'
  BY DEF DrainInv
<1>0. ConsumeTypes /\ BrokerTypes /\ Positions /\ Drain(v) /\ EmptyLimit \in Nat /\ MaxSlow \in Nat
  BY LimitsType DEF TypeInv, TypeOK, DrainInv
<1>1. ASSUME NEW w \in Workers, Consume(w) PROVE Drain(v)'
  <2>1. CASE Assign(w)
    BY <1>0, <2>1 DEF Assign, Drain, ConsumeTypes, BrokerTypes, Positions, brokerVars
  <2>2. CASE Seek(w)
    BY <1>0, <2>2 DEF Seek, Drain, ConsumeTypes, BrokerTypes, Positions, brokerVars
  <2>3. CASE SetupFails(w)
    BY <1>0, <2>3 DEF SetupFails, Drain, ConsumeTypes, BrokerTypes, Positions, brokerVars
  <2>4. CASE CheckTotal(w)
    BY <1>0, <2>4 DEF CheckTotal, Drain, ConsumeTypes, BrokerTypes, Positions, brokerVars
  <2>5. CASE PollRecords(w)
    BY <1>0, <2>5 DEF PollRecords, EmptyAfterBatch, Drain, ConsumeTypes, BrokerTypes, Positions, brokerVars
  <2>6. CASE PollEmpty(w)
    BY <1>0, <2>6 DEF PollEmpty, Drain, ConsumeTypes, BrokerTypes, Positions, brokerVars
  <2>7. CASE PollFails(w)
    BY <1>0, <2>7 DEF PollFails, Drain, ConsumeTypes, BrokerTypes, Positions, brokerVars
  <2>8. CASE LoadStart(w)
    BY <1>0, <2>8 DEF LoadStart, Drain, ConsumeTypes, BrokerTypes, Positions, brokerVars
  <2>9. CASE ClaimStart(w)
    BY <1>0, <2>9 DEF ClaimStart, Drain, ConsumeTypes, BrokerTypes, Positions, brokerVars
  <2>10. CASE EndBatch(w)
    BY <1>0, <2>10 DEF EndBatch, Drain, ConsumeTypes, BrokerTypes, Positions, brokerVars
  <2>11. CASE SkipNull(w)
    BY <1>0, <2>11 DEF SkipNull, AtRecord, Drain, ConsumeTypes, BrokerTypes, Positions, brokerVars
  <2>12. CASE DecodeValue(w)
    BY <1>0, <2>12 DEF DecodeValue, AtRecord, Drain, ConsumeTypes, BrokerTypes, Positions, brokerVars
  <2>13. CASE DecodePanics(w)
    BY <1>0, <2>13 DEF DecodePanics, AtRecord, Drain, ConsumeTypes, BrokerTypes, Positions, brokerVars
  <2>14. CASE SendBuffer(w)
    <3>1. ppc[w] = "running"
      BY <2>14, ReceiverOutlivesSender DEF SendBuffer
    <3>2. cpc' = [cpc EXCEPT ![w] = "record"] /\ cursor' = [cursor EXCEPT ![w] = cursor[w] + 1]
      BY <2>14, <3>1 DEF SendBuffer, CursorAfterRecord
    <3>3. cpc[w] = "send" /\ UNCHANGED <<tracked, fetched, empty, avail, slow>>
      BY <2>14 DEF SendBuffer, brokerVars
    <3> QED
      BY <1>0, <3>2, <3>3 DEF Drain, ConsumeTypes
  <2>15. CASE AwaitProduce(w)
    BY <1>0, <2>15 DEF AwaitProduce, Drain, ConsumeTypes, BrokerTypes, Positions, brokerVars
  <2> QED
    BY <1>1, <2>1, <2>2, <2>3, <2>4, <2>5, <2>6, <2>7, <2>8, <2>9, <2>10, <2>11, <2>12,
       <2>13, <2>14, <2>15 DEF Consume
<1>2. ASSUME NEW w \in Workers, Produce(w) PROVE Drain(v)'
  BY <1>0, <1>2, ProduceFrame DEF Drain
<1>3. ASSUME NEW w \in Workers, Arrive(w) PROVE Drain(v)'
  <2>1. CASE v = w /\ LosesNothing
    BY <1>0, <1>3, <2>1 DEF Arrive, Drain
  <2>2. CASE ~(v = w /\ LosesNothing)
    <3>1. LosesNothing => avail'[v] = avail[v]
      BY <1>0, <1>3, <2>2 DEF Arrive, BrokerTypes
    <3> QED
      BY <1>0, <1>3, <3>1, ArriveFrame DEF Drain
  <2> QED
    BY <2>1, <2>2
<1>4. CASE Others
  BY <1>0, <1>4, OthersFrame DEF Drain
<1> QED
  BY <1>1, <1>2, <1>3, <1>4, StepKinds

LEMMA CounterGrows ==
  ASSUME TypeInv, [Next]_vars
  PROVE  counter' \in Nat /\ counter' >= counter
<1>t. counter \in Nat /\ local \in [Workers -> Nat]
  BY DEF TypeInv, TypeOK, SharedTypes, ProduceTypes
<1>1. ASSUME NEW w \in Workers, Consume(w) PROVE counter' = counter
  BY <1>1, ConsumeFrame
<1>2. ASSUME NEW w \in Workers, Produce(w) PROVE counter' \in Nat /\ counter' >= counter
  <2>1. CASE SendResolves(w)
    <3>1. counter' = counter \/ counter' = counter + local[w] + 1
      BY <2>1, SendResolvesEffect
    <3>2. local[w] \in Nat
      BY <1>t
    <3> QED
      BY <1>t, <3>1, <3>2
  <2>2. CASE ProduceReturns(w)
    BY <1>t, <2>2 DEF ProduceReturns, Remainder
  <2> QED
    BY <1>2, <1>t, <2>1, <2>2, ProduceFrame
<1>3. ASSUME NEW w \in Workers, Arrive(w) PROVE counter' = counter
  BY <1>3, ArriveFrame
<1>4. CASE Others
  BY <1>t, <1>4, OthersFrame
<1> QED
  BY <1>t, <1>1, <1>2, <1>3, <1>4, StepKinds

\* Breaking out of the loop: either the counter has reached the total, or the empty polls
\* were not all spurious, and then the partition has been read to its end.
LEMMA EarlyStopStep ==
  TypeInv /\ LifecycleInv /\ DrainInv /\ EarlyStop /\ [Next]_vars => EarlyStop'
<1> SUFFICES ASSUME TypeInv, LifecycleInv, DrainInv, EarlyStop, [Next]_vars, LosesNothing,
                    NEW v \in Workers, cpc'[v] \in {"await", "done"}
             PROVE  HandedOver(v)' = Values(v) \/ counter' >= TotalRecords
  BY DEF EarlyStop, LosesNothing, Values, Offsets
<1>0. /\ ConsumeTypes /\ BrokerTypes /\ Positions /\ Drain(v) /\ EmptyLimit \in Nat
      /\ MaxSlow \in Nat /\ MaxSlow < EmptyLimit /\ TotalRecords \in Nat /\ counter \in Nat
      /\ counter' \in Nat /\ counter' >= counter
  BY LimitsType, CounterGrows DEF TypeInv, TypeOK, DrainInv, LosesNothing, SharedTypes
<1>1. CASE cpc[v] \in {"await", "done"}
  <2>1. HandedOver(v) = Values(v) \/ counter >= TotalRecords
    BY <1>1 DEF EarlyStop
  <2>2. cursor'[v] = cursor[v]
    BY <1>0, <1>1, StepKinds, ConsumeFrame, ProduceFrame, ArriveFrame, OthersFrame
    DEF SkipNull, AtRecord, SendBuffer, ConsumeTypes
  <2>3. HandedOver(v)' = HandedOver(v)
    BY <2>2 DEF HandedOver, Values, Offsets
  <2> QED
    BY <1>0, <2>1, <2>3
<1>2. CASE cpc[v] \notin {"await", "done"}
  <2>1. PICK w \in Workers : Consume(w)
    BY <1>2, StepKinds, ProduceFrame, ArriveFrame, OthersFrame
  <2>2. /\ cpc'[v] # cpc[v] /\ cpc' \in [Workers -> {"assign", "seek", "check", "poll", "timer",
               "claim", "record", "send", "await", "panicked", "done"}]
    BY <1>2, TypeInvStep DEF TypeInv, TypeOK, ConsumeTypes
  <2>3. w = v /\ (CheckTotal(v) \/ PollEmpty(v) \/ SendBuffer(v) \/ AwaitProduce(v))
    BY <1>0, <1>2, <2>1 DEF Consume, ConsumeTypes, Assign, Seek, SetupFails, CheckTotal,
       PollRecords, PollEmpty, PollFails, LoadStart, ClaimStart, EndBatch, SkipNull,
       DecodeValue, DecodePanics, SendBuffer, AwaitProduce, AtRecord
  <2>4. CASE CheckTotal(v)
    BY <1>0, <2>4 DEF CheckTotal, TotalReached, ConsumeTypes
  <2>5. CASE PollEmpty(v)
    <3>1. Drained(v) /\ cpc[v] = "poll" /\ cursor' = cursor
      BY <1>0, <2>5 DEF PollEmpty, ConsumeTypes
    <3>2. empty[v] + 1 >= EmptyLimit /\ tracked[v] /\ cursor[v] = fetched[v]
      BY <1>0, <3>1 DEF Drained, Drain
    <3>3. fetched[v] = avail[v]
      <4>1. CASE fetched[v] < avail[v]
        <5>1. slow[v] < MaxSlow
          BY <1>0, <2>5, <3>2, <4>1 DEF PollEmpty, ConsumeTypes, BrokerTypes
        <5>2. empty[v] <= slow[v]
          BY <1>0, <4>1 DEF Drain
        <5>3. empty[v] \in Nat /\ slow[v] \in Nat
          BY <1>0 DEF ConsumeTypes, BrokerTypes
        <5> QED
          BY <1>0, <3>2, <5>1, <5>2, <5>3
      <4> QED
        BY <1>0, <4>1 DEF ConsumeTypes, BrokerTypes, Positions
    <3>4. cursor'[v] = Len(Log[v])
      BY <1>0, <3>1, <3>2, <3>3 DEF Drain
    <3> QED
      BY <3>4, OffsetsFinite DEF HandedOver, Values, Offsets
  <2>6. CASE SendBuffer(v)
    <3>1. ppc[v] = "running"
      BY <2>6, ReceiverOutlivesSender DEF SendBuffer
    <3> QED
      BY <1>0, <2>6, <3>1 DEF SendBuffer, ConsumeTypes
  <2>7. CASE AwaitProduce(v)
    BY <1>2, <2>7 DEF AwaitProduce
  <2> QED
    BY <2>3, <2>4, <2>5, <2>6, <2>7
<1> QED
  BY <1>1, <1>2

LEMMA TimerStep == TypeInv /\ TimerCoversWork /\ [Next]_vars => TimerCoversWork'
<1> SUFFICES ASSUME TypeInv, TimerCoversWork, [Next]_vars, NEW v \in Workers,
                    cpc'[v] \in {"record", "send"} \/ cursor'[v] > 0
             PROVE  start' # None
  BY DEF TimerCoversWork
<1>0. ConsumeTypes /\ None \notin Workers
  BY WorkersFinite DEF TypeInv, TypeOK
<1>1. start # None => start' # None
  BY <1>0, StepKinds, ConsumeFrame, ProduceFrame, ArriveFrame, OthersFrame
  DEF ClaimStart, StartAfterClaim
<1>2. CASE cpc[v] \in {"record", "send"} \/ cursor[v] > 0
  BY <1>1, <1>2 DEF TimerCoversWork
<1>3. CASE ~(cpc[v] \in {"record", "send"} \/ cursor[v] > 0)
  <2>1. PICK w \in Workers : Consume(w)
    BY <1>3, StepKinds, ProduceFrame, ArriveFrame, OthersFrame
  <2>2. w = v /\ (LoadStart(v) \/ ClaimStart(v))
    <3>1. CASE w # v
      <4>1. cursor'[v] = cursor[v]
        BY <1>0, <2>1, <3>1, ConsumeFrame DEF SkipNull, SendBuffer, ConsumeTypes
      <4>2. cpc'[v] = cpc[v]
        BY <1>0, <2>1, <3>1 DEF Consume, ConsumeTypes, Assign, Seek, SetupFails, CheckTotal,
           PollRecords, PollEmpty, PollFails, LoadStart, ClaimStart, EndBatch, SkipNull,
           DecodeValue, DecodePanics, SendBuffer, AwaitProduce, AtRecord
      <4> QED
        BY <1>3, <4>1, <4>2
    <3>2. CASE w = v
      <4>1. cursor' = cursor
        BY <1>3, <2>1, <3>2, ConsumeFrame DEF SkipNull, SendBuffer, AtRecord
      <4>2. cpc'[v] \in {"record", "send"}
        BY <1>3, <4>1
      <4> QED
        BY <1>0, <1>3, <2>1, <3>2, <4>2 DEF Consume, ConsumeTypes, Assign, Seek, SetupFails,
           CheckTotal, PollRecords, PollEmpty, PollFails, LoadStart, ClaimStart, EndBatch,
           SkipNull, DecodeValue, DecodePanics, SendBuffer, AwaitProduce, AtRecord
    <3> QED
      BY <3>1, <3>2
  <2>3. CASE LoadStart(v)
    BY <1>0, <1>3, <2>3 DEF LoadStart, ConsumeTypes
  <2>4. CASE ClaimStart(v)
    BY <1>0, <2>4 DEF ClaimStart, StartAfterClaim
  <2> QED
    BY <2>2, <2>3, <2>4
<1> QED
  BY <1>2, <1>3

-----------------------------------------------------------------------------
(* The inductive invariant and the theorems.                               *)

IInv ==
    /\ TypeInv /\ LifecycleInv /\ PipeInv /\ CountInv /\ WindowInv
    /\ DrainInv /\ EarlyStop /\ TimerCoversWork

LEMMA InitIInv == Init => IInv
<1> SUFFICES ASSUME Init PROVE IInv
  OBVIOUS
<1>1. TypeInv
  BY InitTypeInv
<1>2. LifecycleInv
  BY DEF Init, LifecycleInv, Lifecycle
<1>3. PipeInv
  <2> SUFFICES ASSUME NEW w \in Workers PROVE Pipe(w)
    BY DEF PipeInv
  <2>1. chan[w] = <<>> /\ inFlight[w] = {} /\ uncounted[w] = {} /\ counted = {} /\ cursor[w] = 0
    BY DEF Init
  <2>2. HandedOver(w) = {}
    BY <2>1, OffsetsFinite DEF HandedOver, Values, Offsets
  <2> QED
    BY <2>1, <2>2 DEF Pipe, Placed, Ordered, Apart, Covered, IsResolved
<1>4. CountInv
  BY FS_EmptySet DEF Init, CountInv
<1>5. WindowInv
  BY LimitsType, FS_EmptySet DEF Init, WindowInv
<1>6. DrainInv
  <2>1. \A w \in Workers : Len(Log[w]) \in Nat
    BY OffsetsFinite
  <2> QED
    BY <2>1, LimitsType DEF Init, DrainInv, Drain, LosesNothing
<1>7. EarlyStop /\ TimerCoversWork
  BY DEF Init, EarlyStop, TimerCoversWork
<1> QED
  BY <1>1, <1>2, <1>3, <1>4, <1>5, <1>6, <1>7 DEF IInv

LEMMA IInvStep == IInv /\ [Next]_vars => IInv'
BY TypeInvStep, LifecycleStep, PipeStep, CountStep, WindowStep, DrainStep, EarlyStopStep,
   TimerStep DEF IInv

LEMMA Invariance == Spec => []IInv
BY InitIInv, IInvStep, PTL DEF Spec

\* Every value record a worker has dealt with is in exactly one place, once: the channel, the
\* window of sends, or among the resolved.
THEOREM ConservationTheorem == Spec => []Conservation
<1>1. IInv => Conservation
  <2> SUFFICES ASSUME IInv, NEW w \in Workers
               PROVE  /\ HandedOver(w) = Range(chan[w]) \cup inFlight[w] \cup Resolved(w)
                      /\ Range(chan[w]) \cap (inFlight[w] \cup Resolved(w)) = {}
                      /\ inFlight[w] \cap Resolved(w) = {}
                      /\ uncounted[w] \cap CountedOf(w) = {}
                      /\ IsInjective(chan[w])
    BY DEF Conservation
  <2>0. Pipe(w) /\ chan[w] \in Seq(Nat) /\ Len(chan[w]) \in Nat
    BY DEF IInv, PipeInv, TypeInv, TypeOK, ProduceTypes
  <2>1. DOMAIN chan[w] = 1 .. Len(chan[w])
    BY <2>0
  <2>2. HandedOver(w) \subseteq Offsets(w) /\ HandedOver(w) \subseteq Nat
    BY OffsetsFinite DEF HandedOver
  <2>3. \A o : o \in Resolved(w) <=> IsResolved(w, o)
    BY <2>0, <2>2 DEF Resolved, IsResolved, Pipe, Placed
  <2>4. \A o : o \in Range(chan[w]) <=> \E i \in 1 .. Len(chan[w]) : chan[w][i] = o
    BY <2>1 DEF Range
  <2>5. HandedOver(w) = Range(chan[w]) \cup inFlight[w] \cup Resolved(w)
    BY <2>0, <2>3, <2>4 DEF Pipe, Placed, Covered
  <2>6. Range(chan[w]) \cap (inFlight[w] \cup Resolved(w)) = {}
    <3>1. \A i \in 1 .. Len(chan[w]) :
            chan[w][i] \in Nat /\ chan[w][i] \notin inFlight[w] /\ ~IsResolved(w, chan[w][i])
      BY <2>0, <2>2 DEF Pipe, Placed, Ordered
    <3> QED
      BY <2>3, <2>4, <3>1
  <2>7. inFlight[w] \cap Resolved(w) = {}
    BY <2>0, <2>3 DEF Pipe, Apart
  <2>8. uncounted[w] \cap CountedOf(w) = {}
    BY <2>0 DEF Pipe, Apart, CountedOf
  <2>9. IsInjective(chan[w])
    <3>1. \A i \in 1 .. Len(chan[w]) : chan[w][i] \in Nat
      BY <2>0, <2>2 DEF Pipe, Placed
    <3>2. \A i, j \in 1 .. Len(chan[w]) : i < j \/ j < i \/ i = j
      OBVIOUS
    <3> QED
      BY <2>0, <2>1, <3>1, <3>2 DEF Pipe, Ordered, IsInjective
  <2> QED
    BY <2>5, <2>6, <2>7, <2>8, <2>9
<1> QED
  BY Invariance, <1>1, PTL

\* However fast a worker consumes, at most two windows and one buffer are unacknowledged.
THEOREM BackpressureTheorem == Spec => []Backpressure
<1>1. IInv => Backpressure
  <2> SUFFICES ASSUME IInv, NEW w \in Workers
               PROVE  Len(chan[w]) + Cardinality(inFlight[w]) + Cardinality(Held(w))
                        <= 2 * Window + 1
    BY DEF Backpressure
  <2>1. Cardinality(Held(w)) \in Nat /\ Cardinality(Held(w)) <= 1
    <3>1. CASE cpc[w] = "send"
      <4>1. Held(w) = {cursor[w] + 1}
        BY <3>1 DEF Held
      <4> QED
        <5>1. Cardinality({cursor[w] + 1}) = 1
          BY FS_Singleton, Zenon
        <5> QED
          BY <4>1, <5>1
    <3>2. CASE cpc[w] # "send"
      <4>1. Held(w) = {}
        BY <3>2 DEF Held
      <4> QED
        BY <4>1, FS_EmptySet
    <3> QED
      BY <3>1, <3>2
  <2>2. Cardinality(inFlight[w]) \in Nat /\ Len(chan[w]) \in Nat
    BY PartsFinite, FS_CardinalityType DEF IInv, TypeInv, TypeOK, ProduceTypes
  <2> QED
    BY <2>1, <2>2, LimitsType DEF IInv, WindowInv
<1> QED
  BY Invariance, <1>1, PTL

\* PROCESSED_COUNTER is the number of resolved sends that have been published.
THEOREM CounterExactTheorem == Spec => []CounterExact
<1>1. IInv => CounterExact
  BY DEF IInv, CountInv, CounterExact
<1> QED
  BY Invariance, <1>1, PTL

\* Values of a partition are left unread only once TOTAL_RECORDS sends have resolved.
THEOREM EarlyStopTheorem == Spec => []EarlyStop
<1>1. IInv => EarlyStop
  BY DEF IInv
<1> QED
  BY Invariance, <1>1, PTL

LEMMA AllValuesFinite == IsFiniteSet(AllValues)
<1> DEFINE Part(w) == {<<w, o>> : o \in Values(w)}
           parts == {Part(w) : w \in Workers}
           f == [w \in Workers |-> Part(w)]
<1>1. \A w \in Workers : IsFiniteSet(Part(w))
  <2> TAKE w \in Workers
  <2>1. IsFiniteSet({w} \X Values(w))
    BY OffsetsFinite, FS_Singleton, FS_Product
  <2>2. Part(w) = {w} \X Values(w)
    OBVIOUS
  <2> QED
    BY <2>1, <2>2
<1>2. f \in Surjection(Workers, parts)
  BY DEF Surjection
<1>3. IsFiniteSet(parts)
  BY <1>2, WorkersFinite, FS_Surjection
<1> QED
  BY <1>1, <1>3, FS_UNION DEF AllValues

\* With no more values in the topic than TOTAL_RECORDS, a worker that leaves its loop has
\* read its whole partition.
THEOREM DrainedTheorem == Spec => []DrainedAtEnd
<1>1. IInv => DrainedAtEnd
  <2> SUFFICES ASSUME IInv, LosesNothing, Cardinality(AllValues) <= TotalRecords,
                      NEW w \in Workers, cpc[w] \in {"await", "done"},
                      counter >= TotalRecords
               PROVE  HandedOver(w) = Values(w)
    BY DEF IInv, EarlyStop, DrainedAtEnd
  <2>1. \A v, o : <<v, o>> \in counted => v \in Workers /\ o \in HandedOver(v)
    BY DEF IInv, TypeInv, TypeOK, HistoryTypes, PipeInv, Pipe, Placed, IsResolved
  <2>2. counted \subseteq AllValues
    <3>1. counted \subseteq Workers \X Nat
      BY DEF IInv, TypeInv, TypeOK, HistoryTypes
    <3> QED
      BY <2>1, <3>1 DEF AllValues, HandedOver
  <2>3. /\ Cardinality(counted) <= Cardinality(AllValues)
        /\ Cardinality(AllValues) = Cardinality(counted) => AllValues = counted
    BY <2>2, AllValuesFinite, FS_Subset
  <2>4. Cardinality(counted) >= TotalRecords /\ Cardinality(counted) \in Nat
        /\ Cardinality(AllValues) \in Nat /\ TotalRecords \in Nat
    BY AllValuesFinite, FS_CardinalityType, LimitsType DEF IInv, CountInv
  <2>5. AllValues = counted
    BY <2>3, <2>4
  <2>6. \A o \in Values(w) : <<w, o>> \in counted
    BY <2>5 DEF AllValues
  <2> QED
    BY <2>1, <2>6 DEF HandedOver
<1> QED
  BY Invariance, <1>1, PTL

\* Once main has joined the workers, each that did not panic has had every record it took
\* counted.
THEOREM AccountedTheorem == Spec => []AccountedAtReport
<1>1. IInv => AccountedAtReport
  <2> SUFFICES ASSUME IInv, main # "joining", NEW w \in Workers, cpc[w] # "panicked"
               PROVE  cpc[w] = "done" /\ CountedOf(w) = HandedOver(w)
    BY DEF AccountedAtReport
  <2>1. cpc[w] = "done" /\ ppc[w] = "finished" /\ chan[w] = <<>> /\ inFlight[w] = {}
        /\ uncounted[w] = {}
    BY DEF IInv, LifecycleInv, Lifecycle
  <2>2. Placed(w) /\ Covered(w)
    BY DEF IInv, PipeInv, Pipe
  <2>3. \A o \in HandedOver(w) : <<w, o>> \in counted
    BY <2>1, <2>2 DEF Covered, IsResolved
  <2> QED
    BY <2>1, <2>2, <2>3 DEF CountedOf, Placed, IsResolved, HandedOver
<1> QED
  BY Invariance, <1>1, PTL

\* The clock of the benchmark starts before the first record is decoded.
THEOREM TimerTheorem == Spec => []TimerCoversWork
<1>1. IInv => TimerCoversWork
  BY DEF IInv
<1> QED
  BY Invariance, <1>1, PTL

\* START_NANOS, once set, is never set again, although two workers may both find it 0.
THEOREM TimerSetOnceTheorem == Spec => TimerSetOnce
<1>1. [Next]_vars => [start # None => start' = start]_vars
  BY StepKinds, ConsumeFrame, ProduceFrame, ArriveFrame, OthersFrame
  DEF ClaimStart, StartAfterClaim
<1> QED
  BY <1>1, PTL DEF Spec, TimerSetOnce

\* Sends of a worker are started in the order of the records they come from.
THEOREM SentInOrderTheorem == Spec => SentInOrder
<1> DEFINE Older == \A w \in Workers : \A o \in inFlight'[w] \ inFlight[w] :
                      \A p \in inFlight[w] \cup Resolved(w) : p < o
<1>1. IInv /\ [Next]_vars => [Older]_vars
  <2> SUFFICES ASSUME IInv, [Next]_vars, NEW w \in Workers,
                      NEW o \in inFlight'[w] \ inFlight[w],
                      NEW p \in inFlight[w] \cup Resolved(w)
               PROVE  p < o
    OBVIOUS
  <2>t. inFlight \in [Workers -> SUBSET Nat] /\ chan[w] \in Seq(Nat)
    BY DEF IInv, TypeInv, TypeOK, ProduceTypes
  <2>1. PICK v \in Workers : ReceiveBuffer(v) \/ SendResolves(v)
    BY StepKinds, ConsumeFrame, ProduceFrame, ArriveFrame, OthersFrame
  <2>2. v = w /\ ReceiveBuffer(w)
    BY <2>1, <2>t, SendResolvesEffect DEF ReceiveBuffer, IInv
  <2>3. chan[w] # <<>> /\ o = Head(chan[w])
    BY <2>2, <2>t DEF ReceiveBuffer
  <2>4. 1 \in 1 .. Len(chan[w]) /\ o = chan[w][1]
    BY <2>3, <2>t, EmptySeq
  <2>5. p \in inFlight[w] \/ IsResolved(w, p)
    BY DEF Resolved, IsResolved
  <2> QED
    BY <2>4, <2>5 DEF IInv, PipeInv, Pipe, Ordered
<1> QED
  BY Invariance, <1>1, PTL DEF Spec, SentInOrder

-----------------------------------------------------------------------------
(* Refinement: every step of the processor is a step of StreamSum, or none. *)

NoPanics == Fragile = {} /\ \A w \in Workers : \A o \in Offsets(w) : Log[w][o] # "truncated"

NoneUnwound == \A w \in Workers : cpc[w] # "panicked"

\* The instance has its own copy of the operator of FiniteSets.
LEMMA AbstractCardinality ==
  \A S : Abstract!Cardinality(S) = Cardinality(S)
BY DEF Abstract!Cardinality, Cardinality

LEMMA NoneUnwoundStep ==
  ASSUME NoPanics, TypeInv, NoneUnwound, [Next]_vars
  PROVE  NoneUnwound'
<1> SUFFICES ASSUME NEW v \in Workers, cpc'[v] = "panicked" PROVE FALSE
  BY DEF NoneUnwound
<1>0. ConsumeTypes /\ Positions /\ BrokerTypes /\ cpc[v] # "panicked"
  BY DEF TypeInv, TypeOK, NoneUnwound
<1>1. PICK w \in Workers : Consume(w)
  BY <1>0, StepKinds, ProduceFrame, ArriveFrame, OthersFrame
<1>2. SetupFails(w) \/ DecodePanics(w)
  BY <1>0, <1>1 DEF Consume, ConsumeTypes, Assign, Seek, SetupFails, CheckTotal, PollRecords,
     PollEmpty, PollFails, LoadStart, ClaimStart, EndBatch, SkipNull, DecodeValue,
     DecodePanics, SendBuffer, AwaitProduce, AtRecord
<1>3. ~SetupFails(w)
  BY DEF SetupFails, NoPanics
<1>4. cursor[w] + 1 \in Offsets(w) /\ Log[w][cursor[w] + 1] = "truncated"
  BY <1>0, <1>2, <1>3, OffsetsFinite
  DEF DecodePanics, AtRecord, ConsumeTypes, Positions, BrokerTypes, Offsets
<1> QED
  BY <1>4 DEF NoPanics

LEMMA TakenMember ==
  \A r : r \in Taken <=> \E w \in Workers : \E o \in HandedOver(w) : r = <<w, o>>
BY DEF Taken

LEMMA ResolvedMember ==
  ASSUME TypeInv, PipeInv
  PROVE  \A r : r \in AllResolved <=> \E w \in Workers : \E o : IsResolved(w, o) /\ r = <<w, o>>
<1>1. \A w \in Workers : \A o : o \in Resolved(w) <=> IsResolved(w, o)
  BY DEF Resolved, IsResolved, PipeInv, Pipe, Placed, HandedOver, Values
<1> QED
  BY <1>1 DEF AllResolved

LEMMA ResolvedFinite ==
  ASSUME TypeInv, PipeInv
  PROVE  /\ counted \subseteq AllResolved /\ AllResolved \subseteq Taken
         /\ Taken \subseteq AllValues /\ IsFiniteSet(AllResolved)
<1>1. counted \subseteq AllResolved
  <2> SUFFICES ASSUME NEW r \in counted PROVE r \in AllResolved
    OBVIOUS
  <2>1. PICK w \in Workers, o \in Nat : r = <<w, o>>
    BY DEF TypeInv, TypeOK, HistoryTypes
  <2>2. IsResolved(w, o)
    BY <2>1 DEF IsResolved
  <2> QED
    BY <2>1, <2>2, ResolvedMember
<1>2. AllResolved \subseteq Taken
  BY ResolvedMember, TakenMember DEF PipeInv, Pipe, Placed
<1>3. Taken \subseteq AllValues
  BY TakenMember DEF AllValues, HandedOver
<1> QED
  BY <1>1, <1>2, <1>3, AllValuesFinite, FS_Subset

\* A step that changes neither cursors of value records, nor the resolved, nor the result.
LEMMA SameAbstractState ==
  ASSUME TypeInv, PipeInv, TypeInv', PipeInv',
         \A w \in Workers : HandedOver(w)' = HandedOver(w),
         \A w \in Workers : \A o : IsResolved(w, o)' <=> IsResolved(w, o)
  PROVE  Taken' = Taken /\ AllResolved' = AllResolved
<1>1. Taken' = Taken
  BY DEF Taken
<1>2. \A w \in Workers : \A o : o \in Resolved(w)' <=> IsResolved(w, o)'
  BY DEF Resolved, IsResolved, PipeInv, Pipe, Placed, HandedOver, Values
<1>3. \A w \in Workers : \A o : o \in Resolved(w) <=> IsResolved(w, o)
  BY DEF Resolved, IsResolved, PipeInv, Pipe, Placed, HandedOver, Values
<1>4. \A w \in Workers : Resolved(w)' = Resolved(w)
  BY <1>2, <1>3
<1> QED
  BY <1>1, <1>4 DEF AllResolved

LEMMA TakeStep ==
  ASSUME IInv, IInv', NEW w \in Workers, SendBuffer(w)
  PROVE  [Abstract!Next]_(Abstract!vars)
<1> DEFINE x == cursor[w] + 1
<1>0. /\ TypeInv /\ LifecycleInv /\ PipeInv /\ TypeInv' /\ PipeInv' /\ cursor \in [Workers -> Nat]
      /\ Log[w][x] = "value" /\ x \in 1 .. Len(Log[w]) /\ ppc[w] = "running"
  <2>1. TypeInv /\ LifecycleInv /\ PipeInv /\ TypeInv' /\ PipeInv'
    BY DEF IInv
  <2>2. ppc[w] = "running" /\ cpc[w] = "send"
    BY <2>1, ReceiverOutlivesSender DEF SendBuffer
  <2>3. cursor \in [Workers -> Nat] /\ Len(Log[w]) \in Nat
    BY <2>1, OffsetsFinite DEF TypeInv, TypeOK, ConsumeTypes
  <2>4. x <= Len(Log[w]) /\ Log[w][x] = "value"
    BY <2>1, <2>2, <2>3 DEF TypeInv, TypeOK, ConsumeTypes, Positions, BrokerTypes, ConsumePoint
  <2> QED
    BY <2>1, <2>2, <2>3, <2>4
<1>1. /\ cursor' = [cursor EXCEPT ![w] = x] /\ UNCHANGED <<uncounted, counted, counter, main>>
  BY <1>0 DEF SendBuffer, CursorAfterRecord, history
<1>2. \A v \in Workers : HandedOver(v)' = IF v = w THEN HandedOver(v) \cup {x} ELSE HandedOver(v)
  BY <1>0, <1>1, OffsetsFinite DEF HandedOver, Values, Offsets
<1>3. Taken' = Taken \cup {<<w, x>>}
  BY <1>2 DEF Taken
<1>4. AllResolved' = AllResolved
  BY <1>1 DEF AllResolved, Resolved, Offsets
<1>5. <<w, x>> \in AllValues /\ <<w, x>> \notin Taken
  BY <1>0 DEF AllValues, Values, Offsets, Taken, HandedOver
<1>6. main = "joining"
  BY <1>0 DEF LifecycleInv, Lifecycle, SendBuffer
<1>7. Abstract!Take(<<w, x>>)
  BY <1>1, <1>3, <1>4, <1>5, <1>6 DEF Abstract!Take
<1> QED
  BY <1>5, <1>7 DEF Abstract!Next

LEMMA ResolveStep ==
  ASSUME IInv, IInv', NEW w \in Workers, SendResolves(w)
  PROVE  [Abstract!Next]_(Abstract!vars)
<1>0. TypeInv /\ PipeInv /\ TypeInv' /\ PipeInv' /\ Pipe(w) /\ CountInv' /\ counter \in Nat
  BY DEF IInv, PipeInv, TypeInv, TypeOK, SharedTypes
<1>1. PICK o \in inFlight[w] :
        /\ \A v \in Workers \ {w} : uncounted'[v] = uncounted[v]
        /\ UNCHANGED cursor
        /\ \/ /\ counted' = counted \cup ({w} \X (uncounted[w] \cup {o})) /\ uncounted'[w] = {}
           \/ /\ uncounted'[w] = uncounted[w] \cup {o} /\ UNCHANGED counted
  BY <1>0, SendResolvesEffect
<1>2. \A v \in Workers : \A p : IsResolved(v, p)' <=> IsResolved(v, p) \/ (v = w /\ p = o)
  BY <1>1 DEF IsResolved
<1>3. Taken' = Taken
  BY <1>1 DEF Taken, HandedOver, Values, Offsets
<1>4. AllResolved' = AllResolved \cup {<<w, o>>}
  <2>1. \A v \in Workers : \A p : p \in Resolved(v)' <=> IsResolved(v, p)'
    BY <1>0 DEF Resolved, IsResolved, PipeInv, Pipe, Placed, HandedOver, Values
  <2>2. \A v \in Workers : \A p : p \in Resolved(v) <=> IsResolved(v, p)
    BY <1>0 DEF Resolved, IsResolved, PipeInv, Pipe, Placed, HandedOver, Values
  <2>3. \A v \in Workers : Resolved(v)' = IF v = w THEN Resolved(v) \cup {o} ELSE Resolved(v)
    BY <1>2, <2>1, <2>2
  <2> QED
    BY <2>3 DEF AllResolved
<1>5. <<w, o>> \in Taken /\ <<w, o>> \notin AllResolved /\ Taken \subseteq AllValues
  BY <1>0, TakenMember, ResolvedMember, ResolvedFinite DEF Pipe, Placed, Apart
<1>6. counter' \in counter .. Cardinality(AllResolved')
  <2>1. counter' \in Nat /\ counter' >= counter
    BY <1>0, CounterGrows DEF Next, Produce
  <2>2. IsFiniteSet(AllResolved)
    BY <1>0, ResolvedFinite
  <2>3. IsFiniteSet(AllResolved') /\ Cardinality(AllResolved') \in Nat
    BY <1>4, <2>2, FS_AddElement, FS_CardinalityType
  <2>4. counted' \subseteq AllResolved'
    <3>1. counted \subseteq AllResolved
      BY <1>0, ResolvedFinite
    <3>2. \A p \in uncounted[w] : <<w, p>> \in AllResolved
      BY <1>0, ResolvedMember DEF IsResolved
    <3> QED
      BY <1>1, <1>4, <3>1, <3>2
  <2>5. Cardinality(counted') <= Cardinality(AllResolved')
    BY <2>3, <2>4, FS_Subset
  <2> QED
    BY <1>0, <2>1, <2>3, <2>5 DEF CountInv
<1>7. main = "joining" /\ main' = main
  BY ProduceFrame DEF Produce, SendResolves, IInv, LifecycleInv, Lifecycle
<1>8. Abstract!Resolve(<<w, o>>)
  BY <1>3, <1>4, <1>5, <1>6, <1>7, AbstractCardinality DEF Abstract!Resolve
<1> QED
  BY <1>5, <1>8 DEF Abstract!Next

LEMMA PublishStep ==
  ASSUME IInv, IInv', NEW w \in Workers, ProduceReturns(w)
  PROVE  [Abstract!Next]_(Abstract!vars)
<1>0. TypeInv /\ PipeInv /\ TypeInv' /\ PipeInv' /\ CountInv' /\ counter \in Nat
  BY DEF IInv, TypeInv, TypeOK, SharedTypes
<1>1. /\ counted' = counted \cup ({w} \X uncounted[w]) /\ UNCHANGED <<cursor, main>>
      /\ uncounted'[w] = {} /\ \A v \in Workers \ {w} : uncounted'[v] = uncounted[v]
  BY <1>0 DEF ProduceReturns, consumeVars, TypeInv, TypeOK, HistoryTypes
<1>2. Taken' = Taken /\ AllResolved' = AllResolved
  <2>1. \A v \in Workers : HandedOver(v)' = HandedOver(v)
    BY <1>1 DEF HandedOver, Values, Offsets
  <2>2. \A v \in Workers : \A o : IsResolved(v, o)' <=> IsResolved(v, o)
    BY <1>1 DEF IsResolved
  <2> QED
    BY <1>0, <2>1, <2>2, SameAbstractState
<1>3. counter' \in counter .. Cardinality(AllResolved)
  <2>1. counter' \in Nat /\ counter' >= counter
    BY <1>0, CounterGrows DEF Next, Produce
  <2>2. IsFiniteSet(AllResolved) /\ Cardinality(AllResolved) \in Nat
    BY <1>0, ResolvedFinite, FS_CardinalityType
  <2>3. counted' \subseteq AllResolved
    BY <1>0, <1>1, ResolvedFinite, ResolvedMember DEF IsResolved
  <2>4. Cardinality(counted') <= Cardinality(AllResolved)
    BY <2>2, <2>3, FS_Subset
  <2> QED
    BY <1>0, <2>1, <2>2, <2>4 DEF CountInv
<1>4. main = "joining"
  BY DEF ProduceReturns, IInv, LifecycleInv, Lifecycle
<1>5. Abstract!Publish
  BY <1>1, <1>2, <1>3, <1>4, AbstractCardinality DEF Abstract!Publish
<1> QED
  BY <1>5 DEF Abstract!Next

LEMMA FinishStep ==
  ASSUME IInv, NoneUnwound, Report
  PROVE  [Abstract!Next]_(Abstract!vars)
<1>0. TypeInv /\ PipeInv /\ CountInv /\ main = "stopping" /\ main' = "reported"
  BY DEF IInv, Report
<1>1. \A w \in Workers : CountedOf(w) = HandedOver(w) /\ uncounted[w] = {}
                         /\ chan[w] = <<>> /\ inFlight[w] = {}
  <2> TAKE w \in Workers
  <2>1. cpc[w] = "done" /\ ppc[w] = "finished" /\ chan[w] = <<>> /\ inFlight[w] = {}
        /\ uncounted[w] = {}
    BY <1>0 DEF IInv, LifecycleInv, Lifecycle, NoneUnwound
  <2>2. Placed(w) /\ Covered(w)
    BY <1>0 DEF PipeInv, Pipe
  <2>3. \A o \in HandedOver(w) : <<w, o>> \in counted
    BY <2>1, <2>2 DEF Covered, IsResolved
  <2> QED
    BY <2>1, <2>2, <2>3 DEF CountedOf, Placed, IsResolved, HandedOver
<1>2. AllResolved = Taken
  <2>1. ASSUME NEW w \in Workers, NEW o PROVE IsResolved(w, o) <=> o \in HandedOver(w)
    <3>1. IsResolved(w, o) => o \in HandedOver(w)
      BY <1>0 DEF PipeInv, Pipe, Placed
    <3>2. o \in HandedOver(w) => IsResolved(w, o)
      BY <1>1 DEF CountedOf, IsResolved
    <3> QED
      BY <3>1, <3>2
  <2>2. \A r : r \in AllResolved <=> r \in Taken
    <3>1. \A r : r \in AllResolved <=> \E w \in Workers : \E o : IsResolved(w, o) /\ r = <<w, o>>
      BY <1>0, ResolvedMember
    <3> QED
      BY <2>1, <3>1, TakenMember, Zenon
  <2> QED
    BY <2>2, Zenon
<1>3. counted = AllResolved
  <2>1. AllResolved \subseteq counted
    BY <1>0, <1>1, ResolvedMember DEF IsResolved
  <2> QED
    BY <1>0, <2>1, ResolvedFinite
<1>4. UNCHANGED <<Taken, AllResolved, counter>>
  BY DEF Report, Taken, AllResolved, HandedOver, Resolved, consumeVars, history, Values, Offsets
<1>5. Abstract!Finish
  BY <1>0, <1>2, <1>3, <1>4, AbstractCardinality DEF Abstract!Finish, CountInv
<1> QED
  BY <1>5 DEF Abstract!Next

LEMMA StutterStep ==
  ASSUME IInv, IInv', UNCHANGED <<uncounted, counted, counter, main>>,
         \A w \in Workers : HandedOver(w)' = HandedOver(w)
  PROVE  [Abstract!Next]_(Abstract!vars)
<1>1. Taken' = Taken /\ AllResolved' = AllResolved
  BY SameAbstractState DEF IInv, IsResolved
<1> QED
  BY <1>1 DEF Abstract!vars

LEMMA SimulationStep ==
  ASSUME IInv, IInv', NoneUnwound, [Next]_vars
  PROVE  [Abstract!Next]_(Abstract!vars)
<1>t. cursor \in [Workers -> Nat]
  BY DEF IInv, TypeInv, TypeOK, ConsumeTypes
<1>0. cursor' = cursor => \A w \in Workers : HandedOver(w)' = HandedOver(w)
  BY DEF HandedOver, Values, Offsets
<1>1. ASSUME NEW w \in Workers, Consume(w) PROVE [Abstract!Next]_(Abstract!vars)
  <2>1. CASE SendBuffer(w)
    BY <2>1, TakeStep
  <2>2. CASE SkipNull(w)
    <3>1. \A v \in Workers : HandedOver(v)' = HandedOver(v)
      BY <1>t, <2>2, OffsetsFinite DEF SkipNull, AtRecord, HandedOver, Values, Offsets
    <3> QED
      BY <1>1, <3>1, ConsumeFrame, StutterStep
  <2>3. CASE ~SendBuffer(w) /\ ~SkipNull(w)
    BY <1>0, <1>1, <2>3, ConsumeFrame, StutterStep
  <2> QED
    BY <2>1, <2>2, <2>3
<1>2. ASSUME NEW w \in Workers, Produce(w) PROVE [Abstract!Next]_(Abstract!vars)
  <2>1. CASE SendResolves(w)
    BY <2>1, ResolveStep
  <2>2. CASE ProduceReturns(w)
    BY <2>2, PublishStep
  <2>3. CASE ~SendResolves(w) /\ ~ProduceReturns(w)
    BY <1>0, <1>2, <2>3, ProduceFrame, StutterStep
  <2> QED
    BY <2>1, <2>2, <2>3
<1>3. ASSUME NEW w \in Workers, Arrive(w) PROVE [Abstract!Next]_(Abstract!vars)
  BY <1>0, <1>3, ArriveFrame, StutterStep
<1>4. CASE Others
  <2>1. CASE Report
    BY <2>1, FinishStep
  <2>2. CASE ~Report
    <3>1. UNCHANGED <<cursor, uncounted, counted, counter>>
      BY <1>4, <2>2 DEF Others, JoinWorkers, ReporterStops, Terminated, vars, consumeVars, history
    <3>2. UNCHANGED <<Taken, AllResolved>>
      BY <3>1 DEF Taken, AllResolved, HandedOver, Resolved, Values, Offsets
    <3>3. (main' = "reported") <=> (main = "reported")
      BY <1>4, <2>2 DEF Others, JoinWorkers, ReporterStops, Terminated, vars
    <3> QED
      BY <3>1, <3>2, <3>3 DEF Abstract!vars
  <2> QED
    BY <2>1, <2>2
<1> QED
  BY <1>1, <1>2, <1>3, <1>4, StepKinds

\* Without panics every step of the workers, their tasks and main is a step StreamSum allows:
\* one send per record, each resolved once, no count above the resolved sends, and a report
\* only when nothing is outstanding and the count is exact.
THEOREM Refinement ==
  ASSUME NoPanics
  PROVE  Spec => Abstract!Init /\ [][Abstract!Next]_(Abstract!vars)
<1>1. Init => Abstract!Init
  <2> SUFFICES ASSUME Init PROVE Abstract!Init
    OBVIOUS
  <2>1. Taken = {}
    BY OffsetsFinite DEF Init, Taken, HandedOver, Values, Offsets
  <2>2. AllResolved = {}
    BY DEF Init, AllResolved, Resolved
  <2> QED
    BY <2>1, <2>2 DEF Init, Abstract!Init
<1>2. Init => NoneUnwound
  BY DEF Init, NoneUnwound
<1>3. IInv /\ NoneUnwound /\ [Next]_vars => NoneUnwound'
  BY NoneUnwoundStep DEF IInv
<1>4. IInv /\ IInv' /\ NoneUnwound /\ [Next]_vars => [Abstract!Next]_(Abstract!vars)
  BY SimulationStep
<1> QED
  BY Invariance, <1>1, <1>2, <1>3, <1>4, PTL DEF Spec
=============================================================================
