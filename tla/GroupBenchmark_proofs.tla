----------------------- MODULE GroupBenchmark_proofs -----------------------
(***************************************************************************)
(* Proofs about GroupBenchmark for any workers, total, batch, queue and    *)
(* number of faults, and for each of the five benchmarks: its safety       *)
(* properties.                                                             *)
(***************************************************************************)
EXTENDS GroupBenchmark, FiniteSetTheorems, TLAPS

-----------------------------------------------------------------------------
(* The inductive invariant.                                                *)

Types ==
    /\ impl \in Benchmarks /\ loads \in BOOLEAN /\ older \in Leftovers /\ seen \in 0 .. older
    /\ main \in {"load", "flush", "loaded", "starting", "running", "reported", "died"}
    /\ produced \in 0 .. TotalRecords /\ pending \in 0 .. QueueLimit /\ lost \in Nat
    /\ pending + lost <= produced
    /\ pc \in [Workers -> {"new", "setup", "test", "poll", "clock", "stamp", "send", "count",
                           "flush", "ended", "closing", "died", "gone"}]
    /\ unread \in Nat
    /\ local \in [Workers -> 0 .. FlushAt - 1] /\ queue \in [Workers -> 0 .. QueueLimit]
    /\ output \in Nat /\ dropped \in Nat /\ wasted \in Nat /\ counter \in Nat
    /\ trigger \in BOOLEAN /\ started \in BOOLEAN
    /\ faults \in 0 .. MaxFaults

\* Workers with a record they have polled and not sent, and workers whose last send is not
\* counted.
Holding == {w \in Workers : pc[w] \in {"clock", "stamp", "send"}}
Uncounted == {w \in Workers : pc[w] = "count"}

\* Each record of the topic was seen by an older run, is unread, is in the hand of a worker, was
\* left without a result, or has a result that was sent.
Conserved == Sent + Cardinality(Holding) + unread + seen + wasted = Backlog

\* The load: what is left to do at each of its steps.
Loads ==
    /\ main \in {"load", "flush"} => loads
    /\ main = "flush" => produced = TotalRecords
    /\ Loaded /\ loads => produced = TotalRecords /\ pending = 0
    /\ impl \notin {"rust", "c"} /\ faults = 0 => lost = 0

\* main has not started the workers.
Idle ==
    main \in {"load", "flush", "loaded"} => ~trigger /\ \A w \in Workers : pc[w] = "new"

\* No worker has come to its first record.
Untouched ==
    ~trigger => /\ output = 0 /\ dropped = 0
                /\ \A w \in Workers : queue[w] = 0 /\ pc[w] \notin {"stamp", "send", "count"}

\* Why a worker has left its loop, and what its producer then holds.
Left(w) ==
    /\ pc[w] \in {"flush", "ended"} => Reached
    /\ pc[w] = "closing" => impl = "java"
    /\ pc[w] = "died" => impl \in {"rust", "python"} \/ (impl = "java" /\ queue[w] = 0)
    /\ pc[w] = "ended" /\ queue[w] # 0 =>
           impl = "rust" \/ (impl \in {"go", "c"} /\ faults > 0)

Leavings ==
    /\ \A w \in Workers : Left(w)
    /\ main = "reported" => MainDone

\* The start time has been written, or it is clear which worker will write it.
Clocks ==
    /\ main \in {"running", "reported"} /\ impl \in {"rust", "go", "python"} => started
    /\ impl = "java" /\ trigger => started
    /\ impl = "c" /\ trigger => started \/ \E w \in Workers : pc[w] = "stamp"

IInv ==
    Types /\ Conserved /\ CountedOnce /\ Loads /\ Idle /\ Untouched /\ Leavings /\ Clocks

\* A step of a worker, of its consumer or of its producer.
WorkerStep(w) == Work(w) \/ Fails(w) \/ PollNothing(w) \/ Deliver(w)

-----------------------------------------------------------------------------
(* Counting workers, and adding up over them.                              *)

One(x, S) == IF x \in S THEN 1 ELSE 0

\* A set of workers is finite.
LEMMA WorkersCount ==
    ASSUME NEW S, S \subseteq Workers
    PROVE  IsFiniteSet(S) /\ Cardinality(S) \in Nat
<1>1. IsFiniteSet(S)
  BY BenchmarkType, FS_Subset
<1> QED
  BY <1>1, FS_CardinalityType

\* Sets of workers that differ in one worker at most.
LEMMA WorkersUpdate ==
    ASSUME NEW S, NEW T, S \subseteq Workers, T \subseteq Workers,
           NEW v \in Workers, S \ {v} = T \ {v}
    PROVE  Cardinality(T) = Cardinality(S) - One(v, S) + One(v, T)
<1>1. /\ Cardinality(S) \in Nat /\ Cardinality(T) \in Nat
      /\ IsFiniteSet(S) /\ IsFiniteSet(T)
  BY WorkersCount
<1>2. Cardinality(S \ {v}) = IF v \in S THEN Cardinality(S) - 1 ELSE Cardinality(S)
  BY <1>1, FS_RemoveElement
<1>3. Cardinality(T \ {v}) = IF v \in T THEN Cardinality(T) - 1 ELSE Cardinality(T)
  BY <1>1, FS_RemoveElement
<1>4. (IF v \in S THEN Cardinality(S) - 1 ELSE Cardinality(S)) =
      (IF v \in T THEN Cardinality(T) - 1 ELSE Cardinality(T))
  BY <1>2, <1>3
<1> QED
  BY <1>1, <1>4 DEF One

\* The units of one worker are as many as it has.
LEMMA UnitsOfOne ==
    ASSUME NEW v, NEW n \in Nat
    PROVE  IsFiniteSet({v} \X (1 .. n)) /\ Cardinality({v} \X (1 .. n)) = n
<1>1. IsFiniteSet({v}) /\ Cardinality({v}) = 1
  BY FS_Singleton
<1>2. IsFiniteSet(1 .. n) /\ Cardinality(1 .. n) = n
  BY FS_Interval
<1>3. /\ IsFiniteSet({v} \X (1 .. n))
      /\ Cardinality({v} \X (1 .. n)) = Cardinality({v}) * Cardinality(1 .. n)
  BY <1>1, <1>2, FS_Product
<1> QED
  BY <1>1, <1>2, <1>3

\* A sum is a number.
LEMMA TotalType ==
    ASSUME NEW f \in [Workers -> Nat]
    PROVE  IsFiniteSet(Units(f)) /\ Total(f) \in Nat
<1> DEFINE Parts == {{w} \X (1 .. f[w]) : w \in Workers}
<1>1. IsFiniteSet(Parts)
  <2> DEFINE h == [w \in Workers |-> {w} \X (1 .. f[w])]
  <2>1. h \in Surjection(Workers, Parts)
    BY DEF Surjection
  <2> QED
    BY <2>1, BenchmarkType, FS_Surjection
<1>2. ASSUME NEW P \in Parts PROVE IsFiniteSet(P)
  <2>1. PICK w \in Workers : P = {w} \X (1 .. f[w])
    OBVIOUS
  <2>2. f[w] \in Nat
    OBVIOUS
  <2>3. IsFiniteSet({w} \X (1 .. f[w]))
    BY <2>2, UnitsOfOne
  <2> HIDE DEF Parts
  <2> QED
    BY <2>1, <2>3
<1>3. IsFiniteSet(Units(f))
  BY <1>1, <1>2, FS_UNION DEF Units
<1> QED
  BY <1>3, FS_CardinalityType DEF Total

\* What a sum becomes when one worker's share changes.
LEMMA TotalUpdate ==
    ASSUME NEW f \in [Workers -> Nat], NEW v \in Workers, NEW k \in Nat
    PROVE  Total([f EXCEPT ![v] = k]) = Total(f) - f[v] + k
<1> DEFINE g == [f EXCEPT ![v] = k]
           Rest == UNION {{w} \X (1 .. f[w]) : w \in Workers \ {v}}
           Old == {v} \X (1 .. f[v])
           New == {v} \X (1 .. k)
<1>1. Units(f) = Rest \cup Old
  BY DEF Units
<1>2. Units(g) = Rest \cup New
  <2>1. \A w \in Workers : g[w] = IF w = v THEN k ELSE f[w]
    OBVIOUS
  <2> HIDE DEF g
  <2> QED
    BY <2>1 DEF Units
<1>3. Rest \cap Old = {} /\ Rest \cap New = {}
  OBVIOUS
<1>4. /\ IsFiniteSet(Old) /\ Cardinality(Old) = f[v]
      /\ IsFiniteSet(New) /\ Cardinality(New) = k
  BY UnitsOfOne
<1>5. IsFiniteSet(Rest)
  BY <1>1, TotalType, FS_Subset
<1> HIDE DEF Rest, Old, New
<1>6. Cardinality(Rest) \in Nat
  BY <1>5, FS_CardinalityType
<1>7. Cardinality({}) = 0
  BY FS_EmptySet
<1>8. Cardinality(Rest \cup Old) = Cardinality(Rest) + f[v] - 0
  <2>1. Cardinality(Rest \cup Old) =
          Cardinality(Rest) + Cardinality(Old) - Cardinality(Rest \cap Old)
    BY <1>4, <1>5, FS_Union
  <2> QED
    BY <2>1, <1>3, <1>4, <1>7
<1>9. Cardinality(Rest \cup New) = Cardinality(Rest) + k - 0
  <2>1. Cardinality(Rest \cup New) =
          Cardinality(Rest) + Cardinality(New) - Cardinality(Rest \cap New)
    BY <1>4, <1>5, FS_Union
  <2> QED
    BY <2>1, <1>3, <1>4, <1>7
<1>10. Total(f) = Cardinality(Rest) + f[v] - 0
  BY <1>1, <1>8 DEF Total
<1>11. Total(g) = Cardinality(Rest) + k - 0
  BY <1>2, <1>9 DEF Total
<1>12. f[v] \in Nat
  OBVIOUS
<1> QED
  BY <1>6, <1>10, <1>11, <1>12

\* No shares, no sum.
LEMMA TotalZero == Total([w \in Workers |-> 0]) = 0
<1>1. Units([w \in Workers |-> 0]) = {}
  BY DEF Units
<1> QED
  BY <1>1, FS_EmptySet DEF Total

-----------------------------------------------------------------------------
(* Types.                                                                  *)

LEMMA TypesInit == Init => Types
<1> SUFFICES ASSUME Init PROVE Types
  OBVIOUS
<1>1. older \in Leftovers /\ older \in Nat /\ seen \in 0 .. older
  BY BenchmarkType DEF Init
<1>2. unread \in Nat
  BY <1>1 DEF Init
<1>3. main \in {"load", "flush", "loaded", "starting", "running", "reported", "died"}
  BY DEF Init
<1>4. /\ local \in [Workers -> 0 .. FlushAt - 1] /\ queue \in [Workers -> 0 .. QueueLimit]
      /\ faults \in 0 .. MaxFaults /\ produced \in 0 .. TotalRecords
      /\ pending \in 0 .. QueueLimit
  BY BenchmarkType DEF Init
<1>5. impl \in Benchmarks /\ loads \in BOOLEAN /\ trigger \in BOOLEAN /\ started \in BOOLEAN
  BY BenchmarkType DEF Init
<1> QED
  BY <1>1, <1>2, <1>3, <1>4, <1>5 DEF Init, Types

\* The steps of the load.
LEMMA TypesLoad ==
    ASSUME Types, LoadPhase \/ LoadDeliver PROVE Types'
<1> USE BenchmarkType DEF config, load, work, clock, Fault, NoFault
<1>1. CASE LoadSend
  BY <1>1 DEF Types, LoadSend
<1>2. CASE LoadRejected
  <2>1. CASE main' = "died" /\ NoFault /\ UNCHANGED <<produced, lost>>
    BY <1>2, <2>1 DEF Types, LoadRejected
  <2>2. CASE /\ produced' = produced + 1 /\ lost' = lost + 1 /\ UNCHANGED main
             /\ NoFault \/ Fault
    BY <1>2, <2>2 DEF Types, LoadRejected
  <2> QED
    BY <1>2, <2>1, <2>2 DEF LoadRejected
<1>3. CASE LoadDeliver
  BY <1>3 DEF Types, LoadDeliver
<1>4. CASE LoadEnds
  BY <1>4 DEF Types, LoadEnds
<1>5. CASE LoadFlush
  BY <1>5 DEF Types, LoadFlush
<1>6. CASE StartWorkers
  <2>1. pc' \in [Workers -> {"setup"}]
    BY <1>6 DEF StartWorkers
  <2>2. started' \in BOOLEAN
    BY <1>6 DEF StartWorkers
  <2>3. main' \in {"starting", "running"}
    BY <1>6 DEF StartWorkers
  <2> QED
    BY <1>6, <2>1, <2>2, <2>3 DEF Types, StartWorkers
<1> QED
  BY <1>1, <1>2, <1>3, <1>4, <1>5, <1>6 DEF LoadPhase

\* What a step of a worker leaves alone.
LEMMA StepKeeps ==
    ASSUME Types, NEW w \in Workers, WorkerStep(w)
    PROVE  /\ UNCHANGED <<config, load>> /\ ~Exited
           /\ main' = main \/ main' = "died"
           /\ faults' = faults \/ (faults < MaxFaults /\ faults' = faults + 1)
           /\ \A v \in Workers \ {w} : pc'[v] = pc[v] /\ queue'[v] = queue[v]
           /\ counter' = counter \/ counter' = counter + local[w] + 1
           /\ started => started'
<1> USE DEF work, clock, Fault, NoFault
<1>1. CASE Setup(w) \/ SetupFails(w) \/ Malformed(w) \/ Throws(w) \/ CloseReturns(w)
  <2>1. CASE Setup(w) \/ SetupFails(w)
    BY <2>1 DEF Setup, SetupFails, Types
  <2>2. CASE Malformed(w)
    BY <2>2 DEF Malformed, Triggers, Types
  <2>3. CASE Throws(w) \/ CloseReturns(w)
    BY <2>3 DEF Throws, CloseReturns, Types
  <2> QED
    BY <1>1, <2>1, <2>2, <2>3
<1>2. CASE Test(w) \/ PollRecord(w) \/ PollNothing(w) \/ SetTrigger(w) \/ Stamp(w)
  BY <1>2 DEF Test, PollRecord, PollNothing, SetTrigger, Triggers, Stamp, Types
<1>3. CASE Send(w) \/ SendRejected(w) \/ Deliver(w)
  BY <1>3 DEF Send, SendRejected, Deliver, Types
<1>4. CASE Count(w) \/ FlushReturns(w)
  BY <1>4 DEF Count, FlushReturns, Types
<1> QED
  BY <1>1, <1>2, <1>3, <1>4 DEF WorkerStep, Work, Fails

\* The steps of a worker, of its client and of its producer.
LEMMA TypesWorker ==
    ASSUME Types, NEW w \in Workers, WorkerStep(w)
    PROVE  Types'
<1> USE BenchmarkType DEF config, load, work, clock, Fault, NoFault
<1>1. CASE Test(w) \/ Setup(w)
  BY <1>1 DEF Types, Test, Setup
<1>2. CASE PollRecord(w)
  BY <1>2 DEF Types, PollRecord
<1>3. CASE PollNothing(w)
  BY <1>3 DEF Types, PollNothing
<1>4. CASE SetTrigger(w)
  <2>1. started' \in BOOLEAN
    BY <1>4 DEF SetTrigger, Triggers, Types
  <2> QED
    BY <1>4, <2>1 DEF Types, SetTrigger, Triggers, AfterTrigger
<1>5. CASE Stamp(w)
  BY <1>5 DEF Types, Stamp
<1>6. CASE Send(w)
  BY <1>6 DEF Types, Send
<1>7. CASE SendRejected(w)
  <2>1. CASE impl = "python"
    BY <1>7, <2>1 DEF Types, SendRejected
  <2>2. CASE impl # "python"
    BY <1>7, <2>2 DEF Types, SendRejected
  <2> QED
    BY <2>1, <2>2
<1>8. CASE Count(w)
  <2>1. CASE Batching /\ local[w] + 1 < FlushAt
    BY <1>8, <2>1 DEF Types, Count
  <2>2. CASE ~(Batching /\ local[w] + 1 < FlushAt)
    <3>1. /\ counter' = counter + local[w] + 1
          /\ local' = [local EXCEPT ![w] = 0]
          /\ pc' = [pc EXCEPT ![w] =
                       IF impl \in {"rust", "java"} /\ Reached' THEN "flush"
                       ELSE IF impl = "java" THEN "poll" ELSE "test"]
          /\ UNCHANGED <<config, main, load, unread, queue, output, dropped, wasted, clock,
                         faults>>
      BY <1>8, <2>2 DEF Count, LocalAfterPublish
    <3>2. local[w] \in Nat
      BY DEF Types
    <3>3. counter' \in Nat /\ local' \in [Workers -> 0 .. FlushAt - 1]
      BY <3>1, <3>2 DEF Types
    <3>4. PICK b \in {"flush", "poll", "test"} : pc' = [pc EXCEPT ![w] = b]
      BY <3>1
    <3> QED
      BY <3>1, <3>3, <3>4 DEF Types
  <2> QED
    BY <2>1, <2>2
<1>9. CASE FlushReturns(w) \/ CloseReturns(w)
  BY <1>9 DEF Types, FlushReturns, CloseReturns
<1>10. CASE Deliver(w)
  BY <1>10 DEF Types, Deliver
<1>11. CASE SetupFails(w)
  <2>1. CASE impl \in {"go", "c"}
    BY <1>11, <2>1 DEF Types, SetupFails
  <2>2. CASE impl \notin {"go", "c"}
    BY <1>11, <2>2 DEF Types, SetupFails
  <2> QED
    BY <2>1, <2>2
<1>12. CASE Malformed(w)
  <2>1. trigger' \in BOOLEAN /\ started' \in BOOLEAN
    BY <1>12 DEF Malformed, Triggers, Types
  <2>2. CASE main' = "died" /\ UNCHANGED <<pc, wasted>>
    BY <1>12, <2>1, <2>2 DEF Types, Malformed
  <2>3. CASE /\ \E b \in {"died", "poll", "test"} : pc' = [pc EXCEPT ![w] = b]
             /\ wasted' = wasted + 1 /\ UNCHANGED main
    BY <1>12, <2>1, <2>3 DEF Types, Malformed
  <2> QED
    BY <1>12, <2>2, <2>3 DEF Malformed
<1>13. CASE Throws(w)
  <2>1. wasted' \in Nat /\ unread' \in Nat
    BY <1>13 DEF Throws, Types
  <2> QED
    BY <1>13, <2>1 DEF Types, Throws
<1> QED
  BY <1>1, <1>2, <1>3, <1>4, <1>5, <1>6, <1>7, <1>8, <1>9, <1>10, <1>11, <1>12, <1>13
     DEF WorkerStep, Work, Fails

LEMMA TypesStep == Types /\ [Next]_vars => Types'
<1> SUFFICES ASSUME Types, [Next]_vars PROVE Types'
  OBVIOUS
<1>1. CASE StartClock
  BY <1>1 DEF StartClock, Types, config, load, work
<1>2. CASE Report
  BY <1>2 DEF Report, Types, config, load, work, clock
<1>3. CASE UNCHANGED vars
  BY <1>3 DEF vars, Types, config, load, work, clock
<1> QED
  BY <1>1, <1>2, <1>3, TypesLoad, TypesWorker DEF Next, Terminated, WorkerStep

-----------------------------------------------------------------------------
(* Where the records and the results are.                                  *)

Balanced == Conserved /\ CountedOnce

HoldingPcs == {"clock", "stamp", "send"}
UncountedPcs == {"count"}

\* Counts and sums are numbers.
Countable ==
    /\ Total(queue) \in Nat /\ Total(local) \in Nat /\ Sent \in Nat
    /\ Cardinality(Holding) \in Nat /\ Cardinality(Uncounted) \in Nat
    /\ Backlog \in Int /\ older \in Nat /\ seen \in Nat

LEMMA Numbers == Types => Countable
<1> SUFFICES ASSUME Types PROVE Countable
  OBVIOUS
<1>1. queue \in [Workers -> Nat] /\ local \in [Workers -> Nat]
  BY BenchmarkType DEF Types
<1>2. Total(queue) \in Nat /\ Total(local) \in Nat
  BY <1>1, TotalType
<1>3. Sent \in Nat
  BY <1>2 DEF Sent, Types
<1>4. Holding \subseteq Workers /\ Uncounted \subseteq Workers
  BY DEF Holding, Uncounted
<1>5. Cardinality(Holding) \in Nat /\ Cardinality(Uncounted) \in Nat
  BY <1>4, WorkersCount
<1>6. older \in Nat /\ seen \in Nat
  BY BenchmarkType DEF Types
<1>7. Backlog \in Int
  BY <1>6 DEF Backlog, Types
<1> QED
  BY <1>2, <1>3, <1>5, <1>6, <1>7 DEF Countable

\* What a step of one worker does to the two counts.
LEMMA CountsUpdate ==
    ASSUME Types, NEW w \in Workers, NEW b, pc' = [pc EXCEPT ![w] = b]
    PROVE  /\ Cardinality(Holding') =
                Cardinality(Holding) - One(pc[w], HoldingPcs) + One(b, HoldingPcs)
           /\ Cardinality(Uncounted') =
                Cardinality(Uncounted) - One(pc[w], UncountedPcs) + One(b, UncountedPcs)
<1>1. pc'[w] = b /\ \A v \in Workers \ {w} : pc'[v] = pc[v]
  BY DEF Types
<1>2. /\ Holding \subseteq Workers /\ Holding' \subseteq Workers
      /\ Holding \ {w} = Holding' \ {w}
  BY <1>1 DEF Holding
<1>3. (w \in Holding <=> pc[w] \in HoldingPcs) /\ (w \in Holding' <=> b \in HoldingPcs)
  BY <1>1 DEF Holding, HoldingPcs
<1>4. /\ Uncounted \subseteq Workers /\ Uncounted' \subseteq Workers
      /\ Uncounted \ {w} = Uncounted' \ {w}
  BY <1>1 DEF Uncounted
<1>5. /\ w \in Uncounted <=> pc[w] \in UncountedPcs
      /\ w \in Uncounted' <=> b \in UncountedPcs
  BY <1>1 DEF Uncounted, UncountedPcs
<1>6. Cardinality(Holding') = Cardinality(Holding) - One(w, Holding) + One(w, Holding')
  BY <1>2, WorkersUpdate
<1>7. Cardinality(Uncounted') =
        Cardinality(Uncounted) - One(w, Uncounted) + One(w, Uncounted')
  BY <1>4, WorkersUpdate
<1>8. /\ One(w, Holding) = One(pc[w], HoldingPcs)
      /\ One(w, Holding') = One(b, HoldingPcs)
  BY <1>3 DEF One
<1>9. /\ One(w, Uncounted) = One(pc[w], UncountedPcs)
      /\ One(w, Uncounted') = One(b, UncountedPcs)
  BY <1>5 DEF One
<1> QED
  BY <1>6, <1>7, <1>8, <1>9

\* What a step of one worker has to keep to keep the balance.
LEMMA Weighed ==
    ASSUME Types, Types', Balanced,
           UNCHANGED <<older, produced, pending, lost, seen>>,
           Sent' + Cardinality(Holding') + unread' + wasted' =
             Sent + Cardinality(Holding) + unread + wasted,
           counter' + Total(local') + Cardinality(Uncounted') - Sent' =
             counter + Total(local) + Cardinality(Uncounted) - Sent
    PROVE  Balanced'
<1>1. Backlog' = Backlog
  BY DEF Backlog
<1>2. CountedOnce <=> counter + Total(local) + Cardinality(Uncounted) = Sent
  BY DEF CountedOnce, Uncounted
<1>3. CountedOnce' <=> counter' + Total(local') + Cardinality(Uncounted') = Sent'
  BY DEF CountedOnce, Uncounted
<1>4. Countable /\ Countable'
  BY Numbers, PTL
<1>5. Conserved'
  BY <1>1, <1>4 DEF Balanced, Conserved, Countable, Types
<1>6. CountedOnce'
  <2>1. counter + Total(local) + Cardinality(Uncounted) - Sent = 0
    BY <1>2, <1>4 DEF Balanced, Countable, Types
  <2>2. counter' + Total(local') + Cardinality(Uncounted') - Sent' = 0
    BY <2>1
  <2>3. /\ counter' \in Nat /\ Total(local') \in Nat /\ Cardinality(Uncounted') \in Nat
        /\ Sent' \in Nat
    BY <1>4 DEF Countable, Types
  <2> QED
    BY <1>3, <2>2, <2>3
<1> QED
  BY <1>5, <1>6 DEF Balanced

\* A step that sends nothing, counts nothing, and lets the worker keep what it has.
LEMMA Quiet ==
    ASSUME Types, Types', Balanced, NEW w \in Workers, NEW b, pc' = [pc EXCEPT ![w] = b],
           UNCHANGED <<config, load, unread, work>>,
           pc[w] \in HoldingPcs <=> b \in HoldingPcs,
           pc[w] \notin UncountedPcs, b \notin UncountedPcs
    PROVE  Balanced'
<1>1. Countable /\ Countable'
  BY Numbers, PTL
<1>2. Cardinality(Holding') = Cardinality(Holding)
  <2>1. One(pc[w], HoldingPcs) = One(b, HoldingPcs) /\ One(b, HoldingPcs) \in Nat
    BY DEF One
  <2>2. Cardinality(Holding') =
          Cardinality(Holding) - One(pc[w], HoldingPcs) + One(b, HoldingPcs)
    BY CountsUpdate
  <2> QED
    BY <2>1, <2>2, <1>1 DEF Countable
<1>3. Cardinality(Uncounted') = Cardinality(Uncounted)
  <2>1. One(pc[w], UncountedPcs) = 0 /\ One(b, UncountedPcs) = 0
    BY DEF One
  <2>2. Cardinality(Uncounted') =
          Cardinality(Uncounted) - One(pc[w], UncountedPcs) + One(b, UncountedPcs)
    BY CountsUpdate
  <2> QED
    BY <2>1, <2>2, <1>1 DEF Countable
<1>4. Sent' = Sent /\ Total(local') = Total(local)
  BY DEF Sent, work
<1> QED
  BY <1>2, <1>3, <1>4, Weighed DEF config, load, work

\* A step that does not move a worker.
LEMMA SamePlaces ==
    ASSUME Types, Types', Balanced, UNCHANGED <<config, load, unread, pc, work>>
    PROVE  Balanced'
<1>1. Holding' = Holding /\ Uncounted' = Uncounted
  BY DEF Holding, Uncounted
<1>2. Sent' = Sent /\ Total(local') = Total(local)
  BY DEF Sent, work
<1> QED
  BY <1>1, <1>2, Weighed DEF config, load, work

\* A step by which a worker drops the record it holds, and records that nobody has seen.
LEMMA Wasted ==
    ASSUME Types, Types', Balanced, NEW w \in Workers, pc[w] \in {"clock", "send"},
           NEW b \in {"died", "poll", "test", "closing"}, pc' = [pc EXCEPT ![w] = b],
           unread' + wasted' = unread + wasted + 1,
           UNCHANGED <<config, load, local, queue, output, dropped, counter>>
    PROVE  Balanced'
<1>1. Countable /\ Countable'
  BY Numbers, PTL
<1>2. Cardinality(Holding') = Cardinality(Holding) - 1
  <2>1. One(pc[w], HoldingPcs) = 1 /\ One(b, HoldingPcs) = 0
    BY DEF One, HoldingPcs
  <2>2. Cardinality(Holding') =
          Cardinality(Holding) - One(pc[w], HoldingPcs) + One(b, HoldingPcs)
    BY CountsUpdate
  <2> QED
    BY <2>1, <2>2, <1>1 DEF Countable
<1>3. Cardinality(Uncounted') = Cardinality(Uncounted)
  <2>1. One(pc[w], UncountedPcs) = 0 /\ One(b, UncountedPcs) = 0
    BY DEF One, UncountedPcs
  <2>2. Cardinality(Uncounted') =
          Cardinality(Uncounted) - One(pc[w], UncountedPcs) + One(b, UncountedPcs)
    BY CountsUpdate
  <2> QED
    BY <2>1, <2>2, <1>1 DEF Countable
<1>4. Sent' = Sent /\ Total(local') = Total(local)
  BY DEF Sent
<1>5. Sent' + Cardinality(Holding') + unread' + wasted' =
        Sent + Cardinality(Holding) + unread + wasted
  <2>1. PICK s \in Nat, h \in Nat, m \in Nat, d \in Nat, n \in Nat, e \in Nat :
             /\ s = Sent /\ h = Cardinality(Holding)
             /\ m = unread /\ d = wasted /\ n = unread' /\ e = wasted'
    BY <1>1 DEF Countable, Types
  <2>2. n + e = m + d + 1
    BY <2>1
  <2>3. s + (h - 1) + n + e = s + h + m + d
    BY <2>2
  <2> QED
    BY <1>2, <1>4, <2>1, <2>3
<1> QED
  BY <1>3, <1>4, <1>5, Weighed DEF config, load

LEMMA BalancedWorker ==
    ASSUME Types, Types', Balanced, NEW w \in Workers,
           WorkerStep(w)
    PROVE  Balanced'
<1>0. Countable /\ Countable'
  BY Numbers, PTL
<1>1. queue \in [Workers -> Nat] /\ local \in [Workers -> Nat]
  BY BenchmarkType DEF Types
<1>2. CASE Test(w)
  <2> PICK b \in {"flush", "poll"} : pc' = [pc EXCEPT ![w] = b]
    BY <1>2 DEF Test
  <2> QED
    BY <1>2, Quiet DEF HoldingPcs, UncountedPcs, Test
<1>3. CASE PollNothing(w)
  <2> PICK b \in {"test", "flush", "poll"} : pc' = [pc EXCEPT ![w] = b]
    BY <1>3 DEF PollNothing
  <2> QED
    BY <1>3, Quiet DEF HoldingPcs, UncountedPcs, PollNothing
<1>4. CASE SetTrigger(w)
  <2> PICK b \in {"stamp", "send"} : pc' = [pc EXCEPT ![w] = b]
    BY <1>4 DEF SetTrigger, AfterTrigger
  <2> QED
    BY <1>4, Quiet DEF HoldingPcs, UncountedPcs, SetTrigger
<1>5. CASE Stamp(w)
  <2>1. pc[w] = "stamp" /\ pc' = [pc EXCEPT ![w] = "send"]
    BY <1>5 DEF Stamp
  <2>2. UNCHANGED <<config, load, unread, work>>
    BY <1>5 DEF Stamp
  <2>3. /\ pc[w] \in HoldingPcs <=> "send" \in HoldingPcs
        /\ pc[w] \notin UncountedPcs /\ "send" \notin UncountedPcs
    BY <2>1 DEF HoldingPcs, UncountedPcs
  <2> QED
    BY <2>1, <2>2, <2>3, Quiet
<1>6. CASE PollRecord(w)
  <2>1. pc[w] = "poll" /\ pc' = [pc EXCEPT ![w] = "clock"]
    BY <1>6 DEF PollRecord
  <2>2. Cardinality(Holding') =
          Cardinality(Holding) - One("poll", HoldingPcs) + One("clock", HoldingPcs)
    BY <2>1, CountsUpdate
  <2>3. Cardinality(Uncounted') =
          Cardinality(Uncounted) - One("poll", UncountedPcs) + One("clock", UncountedPcs)
    BY <2>1, CountsUpdate
  <2>4. Cardinality(Holding') = Cardinality(Holding) + 1
    BY <2>2, <1>0 DEF One, HoldingPcs, UncountedPcs, Countable
  <2>5. Cardinality(Uncounted') = Cardinality(Uncounted)
    BY <2>3, <1>0 DEF One, HoldingPcs, UncountedPcs, Countable
  <2>6. Sent' = Sent /\ Total(local') = Total(local)
    BY <1>6 DEF Sent, PollRecord, work
  <2>7. unread' = unread - 1 /\ UNCHANGED <<older, produced, pending, lost, seen, counter>>
    BY <1>6 DEF PollRecord, config, load, work
  <2>8. wasted' = wasted
    BY <1>6 DEF PollRecord, work
  <2>9. Sent' + Cardinality(Holding') + unread' + wasted' =
          Sent + Cardinality(Holding) + unread + wasted
    BY <2>4, <2>6, <2>7, <2>8, <1>0 DEF Countable, Types
  <2> QED
    BY <2>5, <2>6, <2>7, <2>9, Weighed
<1>7. CASE Send(w)
  <2>1. pc[w] = "send" /\ pc' = [pc EXCEPT ![w] = "count"]
    BY <1>7 DEF Send
  <2>2. Cardinality(Holding') =
          Cardinality(Holding) - One("send", HoldingPcs) + One("count", HoldingPcs)
    BY <2>1, CountsUpdate
  <2>3. Cardinality(Uncounted') =
          Cardinality(Uncounted) - One("send", UncountedPcs) + One("count", UncountedPcs)
    BY <2>1, CountsUpdate
  <2>4. /\ Cardinality(Holding') = Cardinality(Holding) - 1
        /\ Cardinality(Uncounted') = Cardinality(Uncounted) + 1
    BY <2>2, <2>3, <1>0 DEF One, HoldingPcs, UncountedPcs, Countable
  <2>5. queue[w] \in Nat /\ queue' = [queue EXCEPT ![w] = queue[w] + 1]
    BY <1>7, <1>1 DEF Send
  <2>6. Total(queue') = Total(queue) - queue[w] + (queue[w] + 1)
    <3>1. queue[w] + 1 \in Nat
      BY <2>5
    <3> QED
      BY <3>1, <2>5, <1>1, TotalUpdate
  <2>7. /\ Total(local') = Total(local)
        /\ UNCHANGED <<unread, output, dropped, wasted, counter, older, produced, pending, lost,
                       seen>>
    BY <1>7 DEF Send, config, load
  <2>8. Sent' = Sent + 1
    BY <2>5, <2>6, <2>7, <1>0 DEF Sent, Countable, Types
  <2>9. Sent' + Cardinality(Holding') + unread' + wasted' =
          Sent + Cardinality(Holding) + unread + wasted
    BY <2>4, <2>7, <2>8, <1>0 DEF Countable, Types
  <2>10. counter' + Total(local') + Cardinality(Uncounted') - Sent' =
           counter + Total(local) + Cardinality(Uncounted) - Sent
    BY <2>4, <2>7, <2>8, <1>0 DEF Countable, Types
  <2> QED
    BY <2>7, <2>9, <2>10, Weighed
<1>8. CASE SendRejected(w) /\ impl # "python"
  <2>1. pc[w] = "send" /\ pc' = [pc EXCEPT ![w] = "count"]
    BY <1>8 DEF SendRejected
  <2>2. Cardinality(Holding') =
          Cardinality(Holding) - One("send", HoldingPcs) + One("count", HoldingPcs)
    BY <2>1, CountsUpdate
  <2>3. Cardinality(Uncounted') =
          Cardinality(Uncounted) - One("send", UncountedPcs) + One("count", UncountedPcs)
    BY <2>1, CountsUpdate
  <2>4. /\ Cardinality(Holding') = Cardinality(Holding) - 1
        /\ Cardinality(Uncounted') = Cardinality(Uncounted) + 1
    BY <2>2, <2>3, <1>0 DEF One, HoldingPcs, UncountedPcs, Countable
  <2>5. /\ Total(local') = Total(local) /\ Total(queue') = Total(queue) /\ dropped' = dropped + 1
        /\ UNCHANGED <<unread, output, wasted, counter, older, produced, pending, lost, seen>>
    BY <1>8 DEF SendRejected, config, load
  <2>6. Sent' = Sent + 1
    BY <2>5, <1>0 DEF Sent, Countable, Types
  <2>7. Sent' + Cardinality(Holding') + unread' + wasted' =
          Sent + Cardinality(Holding) + unread + wasted
    BY <2>4, <2>5, <2>6, <1>0 DEF Countable, Types
  <2>8. counter' + Total(local') + Cardinality(Uncounted') - Sent' =
           counter + Total(local) + Cardinality(Uncounted) - Sent
    BY <2>4, <2>5, <2>6, <1>0 DEF Countable, Types
  <2> QED
    BY <2>5, <2>7, <2>8, Weighed
<1>9. CASE Count(w)
  <2> PICK b \in {"flush", "test", "poll"} : pc' = [pc EXCEPT ![w] = b]
    BY <1>9 DEF Count
  <2>1. pc[w] = "count" /\ pc' = [pc EXCEPT ![w] = b]
    BY <1>9 DEF Count
  <2>2. Cardinality(Holding') =
          Cardinality(Holding) - One("count", HoldingPcs) + One(b, HoldingPcs)
    BY <2>1, CountsUpdate
  <2>3. Cardinality(Uncounted') =
          Cardinality(Uncounted) - One("count", UncountedPcs) + One(b, UncountedPcs)
    BY <2>1, CountsUpdate
  <2>4. /\ Cardinality(Holding') = Cardinality(Holding)
        /\ Cardinality(Uncounted') = Cardinality(Uncounted) - 1
    BY <2>2, <2>3, <1>0 DEF One, HoldingPcs, UncountedPcs, Countable
  <2>5. Sent' = Sent /\ UNCHANGED <<unread, wasted, older, produced, pending, lost, seen>>
    BY <1>9 DEF Count, Sent, config, load
  <2>6. counter' + Total(local') = counter + Total(local) + 1
    <3>1. local[w] \in Nat
      BY <1>1
    <3>2. CASE local' = [local EXCEPT ![w] = local[w] + 1] /\ counter' = counter
      <4>0. local[w] + 1 \in Nat
        BY <3>1
      <4>1. Total(local') = Total(local) - local[w] + (local[w] + 1)
        BY <4>0, <3>2, <1>1, TotalUpdate
      <4> QED
        BY <4>1, <3>1, <3>2, <1>0 DEF Countable, Types
    <3>3. CASE local' = [local EXCEPT ![w] = 0] /\ counter' = counter + local[w] + 1
      <4>1. Total(local') = Total(local) - local[w] + 0
        BY <3>3, <1>1, TotalUpdate
      <4> QED
        BY <4>1, <3>1, <3>3, <1>0 DEF Countable, Types
    <3> QED
      BY <1>9, <3>2, <3>3 DEF Count, LocalAfterPublish
  <2>7. counter' + Total(local') + Cardinality(Uncounted') - Sent' =
          counter + Total(local) + Cardinality(Uncounted) - Sent
    BY <2>4, <2>5, <2>6, <1>0 DEF Countable, Types
  <2>8. Sent' + Cardinality(Holding') + unread' + wasted' =
          Sent + Cardinality(Holding) + unread + wasted
    BY <2>4, <2>5
  <2> QED
    BY <2>5, <2>7, <2>8, Weighed
<1>10. CASE FlushReturns(w)
  <2>1. pc[w] = "flush" /\ pc' = [pc EXCEPT ![w] = "ended"]
    BY <1>10 DEF FlushReturns
  <2> QED
    BY <1>10, <2>1, Quiet DEF HoldingPcs, UncountedPcs, FlushReturns
<1>11. CASE Deliver(w)
  <2>0. UNCHANGED <<pc, local, unread, wasted, counter, older, produced, pending, lost, seen>>
    BY <1>11 DEF Deliver, config, load
  <2>1. \/ output' = output + 1 /\ dropped' = dropped
        \/ output' = output /\ dropped' = dropped + 1
    BY <1>11 DEF Deliver
  <2>2. queue[w] \in Nat /\ queue[w] > 0 /\ queue' = [queue EXCEPT ![w] = queue[w] - 1]
    BY <1>11, <1>1 DEF Deliver
  <2>3. queue[w] - 1 \in Nat
    BY <2>2
  <2>4. Total(queue') = Total(queue) - queue[w] + (queue[w] - 1)
    BY <2>2, <2>3, <1>1, TotalUpdate
  <2>5. Total(queue') = Total(queue) - 1 /\ output \in Nat /\ dropped \in Nat
    BY <2>2, <2>4, <1>0 DEF Countable, Types
  <2>6. Sent' = Sent
    BY <2>1, <2>5, <1>0 DEF Sent, Countable
  <2>7. Holding' = Holding /\ Uncounted' = Uncounted
    BY <2>0 DEF Holding, Uncounted
  <2> QED
    BY <2>0, <2>6, <2>7, Weighed
<1>12. CASE Setup(w) \/ CloseReturns(w)
  <2>1. PICK b \in {"test", "poll", "died"} : pc' = [pc EXCEPT ![w] = b]
    BY <1>12 DEF Setup, CloseReturns
  <2>2. pc[w] \in {"setup", "closing"} /\ UNCHANGED <<config, load, unread, work>>
    BY <1>12 DEF Setup, CloseReturns
  <2> QED
    BY <2>1, <2>2, Quiet DEF HoldingPcs, UncountedPcs
<1>13. CASE SetupFails(w)
  <2>1. pc[w] = "setup" /\ UNCHANGED <<config, load, unread, work>>
    BY <1>13 DEF SetupFails
  <2>2. CASE pc' = pc
    BY <2>1, <2>2, SamePlaces
  <2>3. CASE \E b \in {"gone", "died"} : pc' = [pc EXCEPT ![w] = b]
    <3> PICK b \in {"gone", "died"} : pc' = [pc EXCEPT ![w] = b]
      BY <2>3
    <3> QED
      BY <2>1, Quiet DEF HoldingPcs, UncountedPcs
  <2> QED
    BY <1>13, <2>2, <2>3 DEF SetupFails
<1>14. CASE Malformed(w) /\ pc' = pc
  <2>1. wasted' = wasted
    <3>1. \A b \in {"died", "poll", "test"} : pc[w] # b
      BY <1>14 DEF Malformed
    <3>2. \A b : pc' = [pc EXCEPT ![w] = b] => pc[w] = b
      BY <1>14 DEF Types
    <3> QED
      BY <1>14, <3>1, <3>2 DEF Malformed
  <2> QED
    BY <1>14, <2>1, SamePlaces DEF Malformed, work
<1>15. CASE \/ Malformed(w) /\ pc' # pc
            \/ SendRejected(w) /\ impl = "python"
            \/ Throws(w) /\ pc[w] = "send"
  <2>1. PICK b \in {"died", "poll", "test", "closing"} : pc' = [pc EXCEPT ![w] = b]
    BY <1>15 DEF Malformed, SendRejected, Throws
  <2>2. pc[w] \in {"clock", "send"} /\ unread' + wasted' = unread + wasted + 1
    <3>1. unread \in Nat /\ wasted \in Nat
      BY DEF Types
    <3>2. CASE Malformed(w) /\ pc' # pc
      <4>1. pc[w] = "clock" /\ unread' = unread /\ wasted' = wasted + 1
        BY <3>2 DEF Malformed
      <4> QED
        BY <3>1, <4>1
    <3>3. CASE SendRejected(w) /\ impl = "python"
      <4>1. pc[w] = "send" /\ unread' = unread /\ wasted' = wasted + 1
        BY <3>3 DEF SendRejected
      <4> QED
        BY <3>1, <4>1
    <3>4. CASE Throws(w) /\ pc[w] = "send"
      <4>1. PICK batch \in 1 .. unread + 1 :
                 unread' = unread + 1 - batch /\ wasted' = wasted + batch
        BY <3>4 DEF Throws
      <4> QED
        BY <3>1, <3>4, <4>1
    <3> QED
      BY <1>15, <3>2, <3>3, <3>4
  <2>3. UNCHANGED <<config, load, local, queue, output, dropped, counter>>
    BY <1>15 DEF Malformed, SendRejected, Throws
  <2> QED
    BY <2>1, <2>2, <2>3, Wasted
<1>16. CASE Throws(w) /\ pc[w] = "poll"
  <2>1. wasted' = wasted
    BY <1>16 DEF Throws, Types
  <2>2. UNCHANGED <<config, load, unread, work>> /\ pc' = [pc EXCEPT ![w] = "closing"]
    BY <1>16, <2>1 DEF Throws, work
  <2>3. /\ pc[w] \in HoldingPcs <=> "closing" \in HoldingPcs
        /\ pc[w] \notin UncountedPcs /\ "closing" \notin UncountedPcs
    BY <1>16 DEF HoldingPcs, UncountedPcs
  <2> QED
    BY <2>2, <2>3, Quiet
<1> QED
  BY <1>2, <1>3, <1>4, <1>5, <1>6, <1>7, <1>8, <1>9, <1>10, <1>11, <1>12, <1>13, <1>14, <1>15,
     <1>16 DEF WorkerStep, Work, Fails, Throws

\* A step of main or of the producer of the load.
LEMMA Undisturbed ==
    ASSUME Types, Types', Balanced, UNCHANGED <<seen, work>>,
           Holding' = Holding, Uncounted' = Uncounted, Backlog' - unread' = Backlog - unread
    PROVE  Balanced'
<1>1. Countable /\ Countable'
  BY Numbers, PTL
<1>2. /\ Sent' = Sent /\ Total(local') = Total(local) /\ counter' = counter /\ seen' = seen
      /\ wasted' = wasted
  BY DEF Sent, work
<1>3. unread \in Nat /\ unread' \in Nat /\ wasted \in Nat
  BY DEF Types
<1>4. Conserved'
  <2>1. Sent + Cardinality(Holding) + unread + seen + wasted = Backlog
    BY DEF Balanced, Conserved
  <2>2. PICK h \in Nat, s \in Nat, e \in Nat, d \in Nat, b \in Int, c \in Int, m \in Nat,
             n \in Nat :
             /\ h = Cardinality(Holding) /\ s = Sent /\ e = seen /\ d = wasted
             /\ b = Backlog /\ c = Backlog' /\ m = unread /\ n = unread'
    BY <1>1, <1>3 DEF Countable
  <2>3. s + h + m + e + d = b /\ c - n = b - m
    BY <2>1, <2>2
  <2>4. s + h + n + e + d = c
    BY <2>3
  <2> QED
    BY <1>2, <2>2, <2>4 DEF Conserved
<1>5. CountedOnce'
  BY <1>2 DEF Balanced, CountedOnce, Uncounted
<1> QED
  BY <1>4, <1>5 DEF Balanced

LEMMA BalancedMain ==
    ASSUME Types, Types', Balanced, Idle, LoadPhase \/ LoadDeliver \/ StartClock \/ Report
    PROVE  Balanced'
<1> USE DEF config, load, Fault, NoFault
<1>1. older \in Int /\ produced \in Int /\ pending \in Int /\ lost \in Int /\ unread \in Int
  BY BenchmarkType DEF Types
<1>2. ASSUME UNCHANGED <<pc, seen, work>>, Backlog' - unread' = Backlog - unread
      PROVE  Balanced'
  <2>1. Holding' = Holding /\ Uncounted' = Uncounted
    BY <1>2 DEF Holding, Uncounted
  <2> QED
    BY <2>1, <1>2, Undisturbed
<1>3. CASE LoadSend
  <2>1. Backlog' - unread' = Backlog - unread
    BY <1>1, <1>3 DEF LoadSend, Backlog
  <2> QED
    BY <1>2, <1>3, <2>1 DEF LoadSend
<1>4. CASE LoadRejected
  <2>1. Backlog' - unread' = Backlog - unread
    BY <1>1, <1>4 DEF LoadRejected, Backlog
  <2> QED
    BY <1>2, <1>4, <2>1 DEF LoadRejected
<1>5. CASE LoadDeliver
  <2>1. Backlog' - unread' = Backlog - unread
    BY <1>1, <1>5 DEF LoadDeliver, Backlog
  <2> QED
    BY <1>2, <1>5, <2>1 DEF LoadDeliver
<1>6. CASE LoadEnds
  <2>1. Backlog' - unread' = Backlog - unread
    BY <1>1, <1>6 DEF LoadEnds, Backlog
  <2> QED
    BY <1>2, <1>6, <2>1 DEF LoadEnds
<1>7. CASE LoadFlush
  <2>1. Backlog' - unread' = Backlog - unread
    BY <1>1, <1>7 DEF LoadFlush, Backlog
  <2> QED
    BY <1>2, <1>7, <2>1 DEF LoadFlush
<1>8. CASE StartWorkers
  <2>1. \A w \in Workers : pc[w] = "new" /\ pc'[w] = "setup"
    BY <1>8 DEF StartWorkers, Idle
  <2>2. Holding = {} /\ Holding' = {} /\ Uncounted = {} /\ Uncounted' = {}
    BY <2>1 DEF Holding, Uncounted
  <2>3. Backlog' - unread' = Backlog - unread
    BY <1>8 DEF StartWorkers, Backlog
  <2> QED
    BY <1>8, <2>2, <2>3, Undisturbed DEF StartWorkers
<1>9. CASE StartClock
  BY <1>2, <1>9 DEF StartClock, Backlog
<1>10. CASE Report
  BY <1>2, <1>10 DEF Report, Backlog
<1> QED
  BY <1>3, <1>4, <1>5, <1>6, <1>7, <1>8, <1>9, <1>10 DEF LoadPhase

LEMMA BalancedInit == Init => Balanced
<1> SUFFICES ASSUME Init PROVE Balanced
  OBVIOUS
<1>1. Holding = {} /\ Uncounted = {}
  BY DEF Init, Holding, Uncounted
<1>2. Total(queue) = 0 /\ Total(local) = 0
  BY TotalZero DEF Init
<1>3. Cardinality({}) = 0
  BY FS_EmptySet
<1>4. older \in Nat /\ seen \in Nat /\ unread = older - seen
  BY BenchmarkType DEF Init
<1>5. Sent = 0 /\ Backlog = older
  BY <1>2, <1>4 DEF Init, Sent, Backlog
<1>6. Conserved
  BY <1>1, <1>3, <1>4, <1>5 DEF Conserved, Init
<1>7. CountedOnce
  BY <1>1, <1>2, <1>3, <1>5 DEF Init, CountedOnce, Uncounted
<1> QED
  BY <1>6, <1>7 DEF Balanced

LEMMA BalancedStep == Types /\ Types' /\ Balanced /\ Idle /\ [Next]_vars => Balanced'
<1> SUFFICES ASSUME Types, Types', Balanced, Idle, [Next]_vars PROVE Balanced'
  OBVIOUS
<1>1. CASE UNCHANGED vars
  <2>1. UNCHANGED <<config, main, load, pc, unread, work>>
    BY <1>1 DEF vars
  <2>2. Holding' = Holding /\ Uncounted' = Uncounted /\ Sent' = Sent /\ Backlog' = Backlog
    BY <2>1 DEF Holding, Uncounted, Sent, Backlog, config, load, work
  <2> QED
    BY <2>1, <2>2 DEF Balanced, Conserved, CountedOnce, Uncounted, config, work
<1> QED
  BY <1>1, BalancedMain, BalancedWorker DEF Next, Terminated, WorkerStep

-----------------------------------------------------------------------------
(* The load, and main before it has started the workers.                   *)

LEMMA LoadsInit == Init => Loads
<1> SUFFICES ASSUME Init PROVE Loads
  OBVIOUS
<1>1. (main = "load" /\ loads) \/ (main = "loaded" /\ ~loads)
  BY DEF Init
<1> QED
  BY <1>1 DEF Init, Loads, Loaded

LEMMA LoadsStep == Types /\ Loads /\ [Next]_vars => Loads'
<1> SUFFICES ASSUME Types, Loads, [Next]_vars PROVE Loads'
  OBVIOUS
<1> USE DEF config, load, Loaded
<1>1. ASSUME UNCHANGED <<config, load>>, main' = main \/ main' = "died",
             faults' = faults \/ faults' = faults + 1
      PROVE  Loads'
  BY <1>1 DEF Types, Loads
<1>2. CASE LoadSend
  BY <1>2 DEF LoadSend, Types, Loads
<1>3. CASE LoadRejected
  <2>1. CASE main' = "died" /\ NoFault /\ UNCHANGED <<produced, lost>>
    BY <1>3, <2>1 DEF LoadRejected, NoFault, Loads
  <2>2. CASE /\ (IgnoresFullQueue /\ NoFault) \/ (impl = "java" /\ Fault)
             /\ produced' = produced + 1 /\ lost' = lost + 1 /\ UNCHANGED main
    BY <1>3, <2>2 DEF LoadRejected, IgnoresFullQueue, Fault, NoFault, Types, Loads
  <2> QED
    BY <1>3, <2>1, <2>2 DEF LoadRejected
<1>4. CASE LoadDeliver
  BY <1>4 DEF LoadDeliver, Fault, NoFault, Types, Loads
<1>5. CASE LoadEnds
  BY <1>5 DEF LoadEnds, Loads
<1>6. CASE LoadFlush
  BY <1>6 DEF LoadFlush, Fault, NoFault, Types, Loads
<1>7. CASE StartWorkers
  BY <1>7 DEF StartWorkers, Loads
<1>8. ASSUME NEW w \in Workers, WorkerStep(w)
      PROVE  Loads'
  <2>1. /\ UNCHANGED <<config, load>> /\ (main' = main \/ main' = "died")
        /\ faults' = faults \/ faults' = faults + 1
    BY <1>8, StepKeeps
  <2> QED
    BY <1>1, <2>1
<1>9. CASE StartClock
  BY <1>9 DEF StartClock, Loads
<1>10. CASE Report
  BY <1>10 DEF Report, Loads
<1>11. CASE UNCHANGED vars
  BY <1>11, <1>1 DEF vars
<1> QED
  BY <1>2, <1>3, <1>4, <1>5, <1>6, <1>7, <1>8, <1>9, <1>10, <1>11
     DEF Next, LoadPhase, Terminated, WorkerStep

LEMMA IdleStep == Types /\ Idle /\ [Next]_vars => Idle'
<1> SUFFICES ASSUME Types, Idle, [Next]_vars PROVE Idle'
  OBVIOUS
<1> USE DEF config, load, clock
<1>1. CASE UNCHANGED <<pc, trigger>> /\
           (main' \in {"load", "flush", "loaded"} => main \in {"load", "flush", "loaded"})
  BY <1>1 DEF Idle
<1>2. CASE LoadPhase /\ ~StartWorkers
  BY <1>1, <1>2 DEF LoadPhase, LoadSend, LoadRejected, LoadEnds, LoadFlush
<1>3. CASE LoadDeliver
  BY <1>1, <1>3 DEF LoadDeliver
<1>4. CASE StartWorkers
  BY <1>4 DEF StartWorkers, Idle
<1>5. ASSUME NEW w \in Workers, WorkerStep(w)
      PROVE  Idle'
  <2>1. main' = main \/ main' = "died"
    BY <1>5, StepKeeps
  <2>2. CASE Deliver(w)
    BY <1>1, <2>2 DEF Deliver
  <2>3. CASE pc[w] # "new"
    BY <2>1, <2>3 DEF Idle
  <2> QED
    BY <1>5, <2>2, <2>3 DEF WorkerStep, Work, Fails, Setup, SetupFails, Test, PollRecord,
              PollNothing, SetTrigger, Malformed, Stamp, Send, SendRejected, Throws, Count,
              FlushReturns, CloseReturns
<1>6. CASE StartClock \/ Report
  BY <1>6 DEF StartClock, Report, Idle
<1>7. CASE UNCHANGED vars
  BY <1>1, <1>7 DEF vars
<1> QED
  BY <1>2, <1>3, <1>4, <1>5, <1>6, <1>7 DEF Next, LoadPhase, Terminated, WorkerStep

LEMMA UntouchedStep == Types /\ Untouched /\ [Next]_vars => Untouched'
<1> SUFFICES ASSUME Types, Untouched, [Next]_vars, ~trigger' PROVE Untouched'
  BY DEF Untouched
<1> USE DEF work, clock
<1>1. CASE LoadPhase \/ LoadDeliver \/ StartClock \/ Report \/ UNCHANGED vars
  <2>1. CASE StartWorkers
    <3>1. UNCHANGED <<trigger, output, dropped, queue>> /\ \A w \in Workers : pc'[w] = "setup"
      BY <2>1 DEF StartWorkers
    <3> QED
      BY <3>1 DEF Untouched
  <2>2. CASE ~StartWorkers
    <3>1. UNCHANGED <<trigger, output, dropped, queue, pc>>
      BY <1>1, <2>2 DEF LoadPhase, LoadSend, LoadRejected, LoadDeliver, LoadEnds, LoadFlush,
                        StartClock, Report, vars
    <3> QED
      BY <3>1 DEF Untouched
  <2> QED
    BY <2>1, <2>2
<1>2. ASSUME NEW w \in Workers, WorkerStep(w)
      PROVE  Untouched'
  <2>1. CASE SetTrigger(w) \/ Malformed(w)
    BY <2>1 DEF SetTrigger, Malformed, Triggers
  <2>2. CASE ~(SetTrigger(w) \/ Malformed(w))
    <3>1. trigger' = trigger
      BY <1>2, <2>2 DEF WorkerStep, Work, Fails, Setup, SetupFails, Test, PollRecord,
              PollNothing, Stamp, Send, SendRejected, Throws, Count, FlushReturns, CloseReturns,
              Deliver
    <3>2. /\ output = 0 /\ dropped = 0 /\ queue[w] = 0
          /\ pc[w] \notin {"stamp", "send", "count"}
          /\ \A v \in Workers : queue[v] = 0 /\ pc[v] \notin {"stamp", "send", "count"}
      BY <3>1 DEF Untouched
    <3>3. UNCHANGED <<output, dropped, queue>> /\ pc'[w] \notin {"stamp", "send", "count"}
      <4>1. CASE Setup(w) \/ SetupFails(w) \/ Test(w) \/ PollRecord(w) \/ PollNothing(w)
        BY <3>2, <4>1 DEF Setup, SetupFails, Test, PollRecord, PollNothing, Types
      <4>2. CASE Throws(w) \/ FlushReturns(w) \/ CloseReturns(w)
        BY <3>2, <4>2 DEF Throws, FlushReturns, CloseReturns, Types
      <4>3. ~(Stamp(w) \/ Send(w) \/ SendRejected(w) \/ Count(w) \/ Deliver(w))
        BY <3>2 DEF Stamp, Send, SendRejected, Count, Deliver
      <4> QED
        BY <1>2, <2>2, <4>1, <4>2, <4>3 DEF WorkerStep, Work, Fails
    <3>4. \A v \in Workers \ {w} : pc'[v] = pc[v]
      BY <1>2, StepKeeps
    <3> QED
      BY <3>2, <3>3, <3>4 DEF Untouched
  <2> QED
    BY <2>1, <2>2
<1> QED
  BY <1>1, <1>2 DEF Next, Terminated, WorkerStep

-----------------------------------------------------------------------------
(* How workers leave, and how main does.                                   *)

LEMMA LeavingsInit == Init => Leavings
BY DEF Init, Leavings, Left

\* Steps that start no worker and end none.
LEMMA StillLeft ==
    ASSUME Types, Types', Leavings, NEW w \in Workers, pc'[w] = pc[w], queue'[w] = queue[w],
           impl' = impl, counter' = counter, faults' = faults \/ faults' = faults + 1
    PROVE  Left(w)'
BY DEF Types, Leavings, Left, Reached

\* What a step of worker w does to the others.
LEMMA OthersLeft ==
    ASSUME Types, Types', Leavings, NEW w \in Workers, NEW v \in Workers, v # w, WorkerStep(w)
    PROVE  Left(v)'
<1>1. pc'[v] = pc[v] /\ queue'[v] = queue[v]
  BY StepKeeps
<1>2. impl' = impl /\ (faults' = faults \/ faults' = faults + 1)
  BY StepKeeps DEF config
<1>3. CASE counter' = counter
  BY <1>1, <1>2, <1>3, StillLeft
<1>4. CASE counter' = counter + local[w] + 1
  <2>1. local[w] \in Nat /\ counter \in Nat /\ TotalRecords \in Nat
    BY BenchmarkType DEF Types
  <2>2. Reached => Reached'
    BY <1>4, <2>1 DEF Reached
  <2> QED
    BY <1>1, <1>2, <2>2 DEF Types, Leavings, Left
<1> QED
  BY <1>3, <1>4, StepKeeps

\* What it does to w itself.
LEMMA WorkerLeft ==
    ASSUME Types, Types', Leavings, NEW w \in Workers, WorkerStep(w)
    PROVE  Left(w)'
<1> USE DEF config, work
<1>0. impl' = impl /\ counter \in Nat /\ TotalRecords \in Nat
  BY BenchmarkType, StepKeeps DEF Types
<1>1. CASE Test(w)
  BY <1>1 DEF Test, Types, Left, Reached
<1>2. CASE PollNothing(w)
  BY <1>2 DEF PollNothing, Types, Left, Reached
<1>3. CASE PollRecord(w) \/ SetTrigger(w) \/ Stamp(w) \/ Send(w) \/ Setup(w)
  <2>1. pc'[w] \in {"clock", "stamp", "send", "count", "test", "poll"}
    BY <1>3 DEF PollRecord, SetTrigger, AfterTrigger, Stamp, Send, Setup, Types
  <2> QED
    BY <2>1 DEF Left
<1>4. CASE SendRejected(w)
  <2>1. pc'[w] = "count" \/ (pc'[w] = "died" /\ impl = "python")
    BY <1>4 DEF SendRejected, Types
  <2> QED
    BY <2>1, <1>0 DEF Left
<1>5. CASE Count(w)
  <2>1. pc'[w] \in {"test", "poll"} \/ (pc'[w] = "flush" /\ Reached')
    BY <1>5 DEF Count, Types
  <2> QED
    BY <2>1 DEF Left
<1>6. CASE FlushReturns(w)
  <2>1. Reached /\ counter' = counter
    BY <1>6 DEF FlushReturns, Leavings, Left
  <2>2. Reached' /\ pc'[w] = "ended"
    BY <1>6, <2>1 DEF FlushReturns, Reached, Types
  <2>3. queue'[w] # 0 => impl = "rust" \/ (impl \in {"go", "c"} /\ faults' > 0)
    BY <1>6 DEF FlushReturns, Flushed, Fault, Types
  <2> QED
    BY <2>2, <2>3, <1>0 DEF Left
<1>7. CASE Deliver(w)
  <2>1. pc'[w] = pc[w] /\ pc[w] \notin {"ended", "died"} /\ counter' = counter
    BY <1>7 DEF Deliver
  <2> QED
    BY <2>1, <1>0 DEF Leavings, Left, Reached
<1>8. CASE SetupFails(w)
  <2>1. \/ pc'[w] = "setup" \/ pc'[w] = "gone"
        \/ pc'[w] = "died" /\ impl \in {"rust", "python"}
    BY <1>8, BenchmarkType DEF SetupFails, Types
  <2> QED
    BY <2>1, <1>0 DEF Left
<1>9. CASE Malformed(w)
  <2>1. pc'[w] \in {"clock", "poll", "test"} \/ (pc'[w] = "died" /\ impl \in {"rust", "python"})
    BY <1>9 DEF Malformed, BadRecord, Types
  <2> QED
    BY <2>1, <1>0 DEF Left
<1>10. CASE Throws(w)
  <2>1. pc'[w] = "closing" /\ impl = "java"
    BY <1>10 DEF Throws, Types
  <2> QED
    BY <2>1, <1>0 DEF Left
<1>11. CASE CloseReturns(w)
  <2>1. pc'[w] = "died" /\ impl = "java" /\ queue'[w] = 0
    BY <1>11 DEF CloseReturns, Flushed, Leavings, Left, Types
  <2> QED
    BY <2>1, <1>0 DEF Left
<1> QED
  BY <1>1, <1>2, <1>3, <1>4, <1>5, <1>6, <1>7, <1>8, <1>9, <1>10, <1>11
     DEF WorkerStep, Work, Fails

LEMMA LeavingsStep == Types /\ Types' /\ Leavings /\ [Next]_vars => Leavings'
<1> SUFFICES ASSUME Types, Types', Leavings, [Next]_vars PROVE Leavings'
  OBVIOUS
<1> USE DEF config, work, Fault, NoFault
<1>1. ASSUME NEW w \in Workers PROVE Left(w)'
  <2>1. CASE LoadPhase \/ LoadDeliver \/ StartClock \/ Report \/ UNCHANGED vars
    <3>1. CASE UNCHANGED <<pc, queue, impl, counter>> /\
               (faults' = faults \/ faults' = faults + 1)
      BY <3>1, StillLeft
    <3>2. CASE StartWorkers
      <4>1. pc'[w] = "setup"
        BY <3>2 DEF StartWorkers
      <4> QED
        BY <4>1 DEF Left
    <3> QED
      BY <2>1, <3>1, <3>2 DEF LoadPhase, LoadSend, LoadRejected, LoadDeliver, LoadEnds,
                              LoadFlush, StartClock, Report, vars
  <2>2. CASE \E v \in Workers : WorkerStep(v)
    BY <2>2, OthersLeft, WorkerLeft
  <2> QED
    BY <2>1, <2>2 DEF Next, Terminated, WorkerStep
<1>2. main' = "reported" => MainDone'
  <2>1. CASE LoadPhase \/ StartClock
    BY <2>1 DEF LoadPhase, LoadSend, LoadRejected, LoadEnds, LoadFlush, StartWorkers, StartClock
  <2>2. CASE LoadDeliver
    BY <2>2 DEF LoadDeliver, Exited
  <2>3. CASE \E v \in Workers : WorkerStep(v)
    BY <2>3, StepKeeps DEF Exited
  <2>4. CASE Report
    BY <2>4 DEF Report, MainDone, Reached, AllEnded
  <2>5. CASE UNCHANGED vars
    BY <2>5 DEF vars, MainDone, Reached, AllEnded, Leavings
  <2> QED
    BY <2>1, <2>2, <2>3, <2>4, <2>5 DEF Next, Terminated, WorkerStep
<1> QED
  BY <1>1, <1>2 DEF Leavings

-----------------------------------------------------------------------------
(* The clock.                                                              *)

LEMMA ClocksStep == Types /\ Idle /\ Clocks /\ [Next]_vars => Clocks'
<1> SUFFICES ASSUME Types, Idle, Clocks, [Next]_vars PROVE Clocks'
  OBVIOUS
<1> USE DEF config, clock
<1>1. CASE (LoadPhase /\ ~StartWorkers) \/ LoadDeliver \/ Report \/ UNCHANGED vars
  BY <1>1 DEF LoadPhase, LoadSend, LoadRejected, LoadDeliver, LoadEnds, LoadFlush, Report,
              vars, Clocks
<1>2. CASE StartWorkers
  BY <1>2 DEF StartWorkers, Idle, Clocks
<1>3. CASE StartClock
  BY <1>3 DEF StartClock, Clocks
<1>4. ASSUME NEW w \in Workers, WorkerStep(w)
      PROVE  Clocks'
  <2>1. /\ main' = main \/ main' = "died"
        /\ impl' = impl /\ (started => started')
    BY <1>4, StepKeeps
  <2>2. CASE Stamp(w)
    BY <2>2 DEF Stamp, Clocks
  <2>3. CASE SetTrigger(w)
    <3>1. impl = "java" => started'
      BY <2>3 DEF SetTrigger, Triggers
    <3>2. ASSUME impl = "c" PROVE started' \/ \E v \in Workers : pc'[v] = "stamp"
      <4>1. CASE trigger
        <5>1. \A v \in Workers : pc[v] = "stamp" => pc'[v] = "stamp"
          BY <2>3 DEF SetTrigger, Types
        <5> QED
          BY <3>2, <4>1, <5>1, <2>1 DEF Clocks
      <4>2. CASE ~trigger
        <5>1. pc'[w] = "stamp"
          BY <2>3, <3>2, <4>2 DEF SetTrigger, AfterTrigger, Types
        <5> QED
          BY <5>1
      <4> QED
        BY <4>1, <4>2
    <3> QED
      BY <2>1, <3>1, <3>2 DEF Clocks
  <2>4. CASE Malformed(w)
    <3>1. impl # "c" /\ (impl = "java" => started')
      BY <2>4 DEF Malformed, BadRecord, Triggers
    <3> QED
      BY <2>1, <3>1 DEF Clocks
  <2>5. CASE ~(Stamp(w) \/ SetTrigger(w) \/ Malformed(w))
    <3>1. trigger' = trigger
      BY <1>4, <2>5 DEF WorkerStep, Work, Fails, Setup, SetupFails, Test, PollRecord,
              PollNothing, Send, SendRejected, Throws, Count, FlushReturns, CloseReturns, Deliver
    <3>2. pc[w] = "stamp" => pc'[w] = "stamp"
      BY <1>4, <2>5 DEF WorkerStep, Work, Fails, Setup, SetupFails, Test, PollRecord,
              PollNothing, Send, SendRejected, Throws, Count, FlushReturns, CloseReturns, Deliver
    <3>3. \A v \in Workers : pc[v] = "stamp" => pc'[v] = "stamp"
      BY <1>4, <3>2, StepKeeps
    <3> QED
      BY <2>1, <3>1, <3>3 DEF Clocks
  <2> QED
    BY <2>2, <2>3, <2>4, <2>5
<1> QED
  BY <1>1, <1>2, <1>3, <1>4 DEF Next, Terminated, WorkerStep

-----------------------------------------------------------------------------
(* The invariant, and what follows from it.                                *)

LEMMA Inductive == Spec => []IInv
<1>1. Init => IInv
  <2>1. Init => Idle /\ Untouched /\ Clocks
    BY DEF Init, Idle, Untouched, Clocks
  <2> QED
    BY <2>1, TypesInit, BalancedInit, LoadsInit, LeavingsInit DEF IInv, Balanced
<1>2. IInv /\ [Next]_vars => IInv'
  <2> SUFFICES ASSUME IInv, [Next]_vars PROVE IInv'
    OBVIOUS
  <2>1. Types'
    BY TypesStep DEF IInv
  <2>2. Idle' /\ Untouched'
    BY IdleStep, UntouchedStep DEF IInv
  <2>3. Balanced'
    BY <2>1, BalancedStep DEF IInv, Balanced
  <2>4. Loads'
    BY LoadsStep DEF IInv
  <2>5. Leavings'
    BY <2>1, LeavingsStep DEF IInv
  <2>6. Clocks'
    BY ClocksStep DEF IInv
  <2> QED
    BY <2>1, <2>2, <2>3, <2>4, <2>5, <2>6 DEF IInv, Balanced
<1> QED
  BY <1>1, <1>2, PTL DEF Spec

\* Every variable has its type: whatever queues overflow, flushes time out and deliveries fail,
\* no counter leaves its range, and none of unread records, results and counts exceeds the
\* records in the topic.
THEOREM TypeCorrect == Spec => []TypeOK
<1>1. IInv => TypeOK
  <2> SUFFICES ASSUME IInv PROVE TypeOK
    OBVIOUS
  <2>1. Types /\ Countable /\ Conserved /\ CountedOnce
    BY Numbers DEF IInv
  <2>2. PICK t \in Nat, h \in Nat, l \in Nat, u \in Nat, b \in Int :
             /\ t = Total(queue) /\ h = Cardinality(Holding) /\ l = Total(local)
             /\ u = Cardinality(Uncounted) /\ b = Backlog
    BY <2>1 DEF Countable
  <2>3. /\ unread \in Nat /\ output \in Nat /\ dropped \in Nat /\ wasted \in Nat
        /\ counter \in Nat /\ seen \in Nat
    BY <2>1 DEF Types, Countable
  <2>4. t + output + dropped + h + unread + seen + wasted = b
    BY <2>1, <2>2 DEF Conserved, Sent
  <2>5. counter + l + u = t + output + dropped
    BY <2>1, <2>2 DEF CountedOnce, Uncounted, Sent
  <2>6. /\ unread \in 0 .. b - seen /\ output \in 0 .. b /\ dropped \in 0 .. b
        /\ wasted \in 0 .. b /\ counter \in 0 .. b
    BY <2>2, <2>3, <2>4, <2>5
  <2> QED
    BY <2>1, <2>2, <2>6 DEF Types, TypeOK
<1> QED
  BY <1>1, Inductive, PTL

\* go's, python's and java's workers start on all records of the load, however late the producer
\* delivers them: main of these benchmarks waits for room in the queue or stops, and flush() waits
\* for the rest.
THEOREM LoadCompleteTheorem == Spec => []LoadComplete
<1>1. IInv => LoadComplete
  <2> SUFFICES ASSUME IInv PROVE LoadComplete
    OBVIOUS
  <2>1. older \in Nat /\ TotalRecords \in Nat
    BY BenchmarkType DEF IInv, Types
  <2> QED
    BY <2>1 DEF IInv, Loads, LoadComplete, Backlog
<1> QED
  BY <1>1, Inductive, PTL

\* The shared counter and the local counters together hold each result sent once, for any number
\* of concurrent workers and any batch.
THEOREM CountedOnceTheorem == Spec => []CountedOnce
<1>1. IInv => CountedOnce
  BY DEF IInv
<1> QED
  BY <1>1, Inductive, PTL

\* When a benchmark reports, TOTAL_RECORDS results have been sent, unless every worker of rust or
\* java has failed, which their mains do not look at; and no worker of java, of C if no flush timed
\* out, and of python if it has not failed, has left a result in the queue of its producer.
THEOREM AccountedTheorem == Spec => []AccountedAtReport
<1>1. IInv => AccountedAtReport
  <2> SUFFICES ASSUME IInv, main = "reported" PROVE AccountedAtReport
    BY DEF AccountedAtReport
  <2>1. Types /\ Countable /\ CountedOnce /\ Leavings
    BY Numbers DEF IInv
  <2>2. impl # "go" => \A w \in Workers : pc[w] \in {"ended", "died"}
    BY <2>1 DEF Leavings, MainDone, AllEnded
  <2>3. ASSUME ~(impl \in {"rust", "java"} /\ \A w \in Workers : pc[w] = "died")
        PROVE  Sent >= TotalRecords
    <3>1. Reached
      <4>1. CASE impl \in {"go", "c", "python"}
        BY <2>1, <4>1 DEF Leavings, MainDone
      <4>2. CASE impl \notin {"go", "c", "python"}
        <5>1. impl \in {"rust", "java"}
          BY <2>1, <4>2, BenchmarkType DEF Types
        <5>2. PICK w \in Workers : pc[w] = "ended"
          BY <2>2, <2>3, <5>1
        <5> QED
          BY <2>1, <5>2 DEF Leavings, Left
      <4> QED
        BY <4>1, <4>2
    <3>2. counter + Total(local) + Cardinality(Uncounted) = Sent /\ counter \in Nat
      BY <2>1 DEF CountedOnce, Uncounted, Types
    <3>3. counter >= TotalRecords /\ TotalRecords \in Nat
      BY <3>1, BenchmarkType DEF Reached
    <3> QED
      BY <2>1, <3>2, <3>3 DEF Countable
  <2>4. ASSUME impl \in {"java", "python"} \/ (impl = "c" /\ faults = 0), NEW w \in Workers
        PROVE  queue[w] = 0 \/ (impl = "python" /\ pc[w] = "died")
    BY <2>1, <2>2, <2>4 DEF Leavings, Left, Types
  <2> QED
    BY <2>3, <2>4 DEF AccountedAtReport
<1> QED
  BY <1>1, Inductive, PTL

\* A benchmark that reports on anything sent has a start time, whatever worker came first: in C
\* the worker that has set the flag of the first record has also stamped it before main can join
\* all workers, and main of rust and go reports only after it has read the clock itself.
THEOREM TimedAtReportTheorem == Spec => []TimedAtReport
<1>1. IInv => TimedAtReport
  <2> SUFFICES ASSUME IInv, main = "reported", Sent > 0 PROVE started
    BY DEF TimedAtReport
  <2>1. Types /\ Untouched /\ Leavings /\ Clocks
    BY DEF IInv
  <2>2. trigger
    <3> SUFFICES ASSUME ~trigger PROVE FALSE
      OBVIOUS
    <3>1. queue = [w \in Workers |-> 0] /\ output = 0 /\ dropped = 0
      BY <2>1 DEF Untouched, Types
    <3> QED
      BY <3>1, TotalZero DEF Sent
  <2>3. impl = "c" => \A w \in Workers : pc[w] # "stamp"
    BY <2>1 DEF Leavings, MainDone, AllEnded
  <2>4. impl \in {"rust", "go", "c", "python", "java"}
    BY <2>1, BenchmarkType DEF Types
  <2> QED
    BY <2>1, <2>2, <2>3, <2>4 DEF Clocks
<1> QED
  BY <1>1, Inductive, PTL

=============================================================================
