------------------------ MODULE KrafkaLoader_proofs -------------------------
(***************************************************************************)
(* Proofs about KrafkaLoader for any partitions, number of records, window *)
(* and number of failures: the sequence numbers of a partition reach the   *)
(* broker without a gap, so that it refuses nothing and stores each record *)
(* once, in the order of the pushes.                                       *)
(***************************************************************************)
EXTENDS KrafkaLoader, FiniteSetTheorems, SequenceTheorems, TLAPS

-----------------------------------------------------------------------------
(* The inductive invariant.                                                *)

Types ==
    /\ step \in {"delete", "create", "leaders", "load", "full", "drain", "flush",
                 "phase2", "panicked"}
    /\ topics \subseteq Topics /\ deleting \subseteq topics
    /\ pstate \in [Topics -> [Partitions -> {"unknown", "known", "led"}]]
    /\ described \subseteq Topics
    /\ made \in 0 .. Total
    /\ fut \in [Records -> {"none", "pushed", "sequenced", "queued", "resolved", "done"}]
    /\ slot \in [Records -> {<<>>} \cup (Partitions \X Nat)]
    /\ nextSeq \in [Partitions -> Nat] /\ expected \in [Partitions -> Nat]
    /\ queue \in [Partitions -> Seq(Records)] /\ wire \in [Partitions -> Seq(Records)]
    /\ log \in [Partitions -> Seq(Records \cup {Old})]
    /\ refused \subseteq Records /\ errs \subseteq Records /\ lost \in 0 .. MaxLost

\* Until create_topics has succeeded nothing is generated; from then on both topics are there to
\* stay, and records of an earlier run are gone.
NoOld(p) == \A a \in 1 .. Len(log[p]) : log[p][a] # Old

Fresh ==
    /\ "input" \notin topics => \A p \in Partitions : NoOld(p)
    /\ Loading \/ made > 0 \/ step = "leaders" =>
         topics = Topics /\ deleting = {} /\ \A p \in Partitions : NoOld(p)
    /\ Loading => AllReady(described)
    /\ step \in {"delete", "create", "leaders"} => made = 0
    /\ step \in {"drain", "flush", "phase2"} => made = Total

\* A send that has been polled.
Past(i) == fut[i] \in {"sequenced", "queued", "resolved", "done"}
HasSlot(i) == slot[i] # <<>>

\* Sends are polled in the order of the pushes, one after the other.
Polled ==
    /\ \A i \in Records : fut[i] = "none" <=> i > made
    /\ \A i, j \in Records : i < j /\ Past(j) => Past(i)
    /\ \A i, j \in Records : fut[i] = "sequenced" /\ fut[j] = "sequenced" => i = j

\* The sequence numbers of a partition follow that order.
Numbered ==
    /\ \A i \in Records : HasSlot(i) <=> Past(i) /\ i \notin errs
    /\ \A i \in errs : fut[i] \in {"resolved", "done"}
    /\ \A i \in Records : HasSlot(i) => slot[i][2] < nextSeq[slot[i][1]] /\ slot[i][2] < i
    /\ \A i, j \in Records :
         HasSlot(i) /\ HasSlot(j) /\ slot[i][1] = slot[j][1] /\ i < j => slot[i][2] < slot[j][2]
    /\ \A i \in Records, p \in Partitions : ~Past(i) => nextSeq[p] < i
    /\ \A i \in Records : fut[i] = "sequenced" => slot[i][2] = nextSeq[slot[i][1]] - 1

\* The number that was taken last is not in a batch yet.
Behind(p) == IF \E i \in Records : fut[i] = "sequenced" /\ slot[i][1] = p THEN 1 ELSE 0

\* The sequence number at the head of what is under way to the broker.
Base(p) == nextSeq[p] - Behind(p) - Len(queue[p]) - Len(wire[p])

\* Requests and batches hold the numbers from there on without a gap.
InWire(p, k) ==
    /\ fut[wire[p][k]] \in IF is_durable THEN {"queued"} ELSE {"resolved", "done"}
    /\ slot[wire[p][k]] = <<p, Base(p) + k - 1>>
InQueue(p, k) ==
    /\ fut[queue[p][k]] = "queued"
    /\ slot[queue[p][k]] = <<p, Base(p) + Len(wire[p]) + k - 1>>

Pipelined ==
    \A p \in Partitions :
        /\ \A k \in 1 .. Len(wire[p]) : InWire(p, k)
        /\ \A k \in 1 .. Len(queue[p]) : InQueue(p, k)

\* The log of a partition holds records with lower numbers, in their order; in durable mode all
\* of them, and the one at the head if its acknowledgement was lost.
Handled(p) == IF is_durable THEN expected[p] ELSE Base(p)

Stored(p) ==
    /\ \A a \in 1 .. Len(log[p]) : log[p][a] # Old =>
         slot[log[p][a]] # <<>> /\ slot[log[p][a]][1] = p /\ slot[log[p][a]][2] < Handled(p)
    /\ \A a, b \in 1 .. Len(log[p]) : a < b /\ log[p][a] # Old /\ log[p][b] # Old =>
         slot[log[p][a]][2] < slot[log[p][b]][2]

Logged == \A p \in Partitions : Stored(p)

Prompt(p) == expected[p] = Base(p) \/ (expected[p] = Base(p) + 1 /\ wire[p] # <<>>)
Complete(p) ==
    /\ Len(log[p]) = expected[p]
    /\ \A a \in 1 .. Len(log[p]) : slot[log[p][a]][2] = a - 1
Settled(p) ==
    \A i \in Records : HasSlot(i) /\ slot[i][1] = p /\ fut[i] \in {"resolved", "done"} =>
        slot[i][2] < expected[p]

Acknowledged ==
    is_durable => \A p \in Partitions :
        /\ Prompt(p) /\ Settled(p) /\ (NoOld(p) => Complete(p))
        /\ made = 0 => expected[p] = 0

\* The window, and its room while the loop generates records.
Windowed ==
    /\ Cardinality(InFlight) <= Window
    /\ step \notin {"full", "drain", "flush", "phase2", "panicked"} =>
         Cardinality(InFlight) < Window
    /\ step \in {"flush", "phase2"} => InFlight = {}

Inductive ==
    /\ Types /\ Fresh /\ Polled /\ Numbered /\ Pipelined /\ Logged /\ Acknowledged /\ Windowed
    /\ InSequence

-----------------------------------------------------------------------------
(* Small facts.                                                            *)

LEMMA Limits ==
  Total \in Nat /\ Window \in Nat /\ Window > 0 /\ MaxLost \in Nat /\ MaxErrs \in Nat
BY LoadType

LEMMA SlotValue ==
  ASSUME Types, NEW i \in Records, HasSlot(i)
  PROVE  /\ slot[i] \in Partitions \X Nat
         /\ slot[i][1] \in Partitions /\ slot[i][2] \in Nat
         /\ slot[i] = <<slot[i][1], slot[i][2]>>
<1>1. slot[i] \in Partitions \X Nat
  BY DEF Types, HasSlot
<1> QED
  BY <1>1

LEMMA Lengths ==
  ASSUME Types, NEW p \in Partitions
  PROVE  /\ Len(queue[p]) \in Nat /\ Len(wire[p]) \in Nat /\ Len(log[p]) \in Nat
         /\ Behind(p) \in {0, 1} /\ Base(p) \in Int /\ nextSeq[p] \in Nat
         /\ expected[p] \in Nat
         /\ queue[p] \in Seq(Records) /\ wire[p] \in Seq(Records)
         /\ log[p] \in Seq(Records \cup {Old})
         /\ \A k \in 1 .. Len(queue[p]) : queue[p][k] \in Records
         /\ \A k \in 1 .. Len(wire[p]) : wire[p][k] \in Records
         /\ \A a \in 1 .. Len(log[p]) : log[p][a] \in Records \cup {Old}
<1>1. /\ queue[p] \in Seq(Records) /\ wire[p] \in Seq(Records)
      /\ log[p] \in Seq(Records \cup {Old})
      /\ nextSeq[p] \in Nat /\ expected[p] \in Nat
  BY DEF Types
<1>2. Len(queue[p]) \in Nat /\ Len(wire[p]) \in Nat /\ Len(log[p]) \in Nat
  BY <1>1, LenProperties
<1>3. /\ \A k \in 1 .. Len(queue[p]) : queue[p][k] \in Records
      /\ \A k \in 1 .. Len(wire[p]) : wire[p][k] \in Records
      /\ \A a \in 1 .. Len(log[p]) : log[p][a] \in Records \cup {Old}
  BY <1>1, ElementOfSeq
<1>4. Behind(p) \in {0, 1} /\ Base(p) \in Int
  BY <1>1, <1>2 DEF Behind, Base
<1> QED
  BY <1>1, <1>2, <1>3, <1>4

\* The head and the tail of a sequence, by their indices.
LEMMA HeadAndTail ==
  ASSUME NEW S, NEW q \in Seq(S), q # <<>>
  PROVE  /\ Len(q) \in Nat /\ Len(q) > 0 /\ Head(q) = q[1] /\ Head(q) \in S
         /\ Tail(q) \in Seq(S) /\ Len(Tail(q)) = Len(q) - 1
         /\ \A k \in 1 .. Len(q) - 1 : Tail(q)[k] = q[k + 1]
<1>1. Len(q) \in Nat /\ Len(q) # 0
  BY LenProperties, EmptySeq
<1>2. /\ Head(q) \in S /\ Tail(q) \in Seq(S) /\ Len(Tail(q)) = Len(q) - 1
      /\ \A k \in 1 .. Len(Tail(q)) : Tail(q)[k] = q[k + 1]
  BY HeadTailProperties
<1> QED
  BY <1>1, <1>2

LEMMA Appended ==
  ASSUME NEW S, NEW q \in Seq(S), NEW x \in S
  PROVE  /\ Len(q) \in Nat /\ Append(q, x) \in Seq(S) /\ Len(Append(q, x)) = Len(q) + 1
         /\ \A k \in 1 .. Len(q) : Append(q, x)[k] = q[k]
         /\ Append(q, x)[Len(q) + 1] = x
BY AppendProperties, LenProperties

LEMMA WireHead ==
  ASSUME Types, Pipelined, NEW p \in Partitions, wire[p] # <<>>
  PROVE  /\ Head(wire[p]) = wire[p][1] /\ Head(wire[p]) \in Records
         /\ slot[Head(wire[p])] = <<p, Base(p)>> /\ HasSlot(Head(wire[p]))
         /\ slot[Head(wire[p])][1] = p /\ slot[Head(wire[p])][2] = Base(p)
         /\ Base(p) \in Nat
         /\ fut[Head(wire[p])] \in IF is_durable THEN {"queued"} ELSE {"resolved", "done"}
<1> DEFINE i == Head(wire[p])
<1>1. i = wire[p][1] /\ i \in Records /\ Len(wire[p]) > 0 /\ Len(wire[p]) \in Nat
  BY HeadAndTail, Lengths
<1>2. 1 \in 1 .. Len(wire[p]) /\ Base(p) \in Int
  BY <1>1, Lengths
<1>3. slot[i] = <<p, Base(p) + 1 - 1>>
      /\ fut[i] \in IF is_durable THEN {"queued"} ELSE {"resolved", "done"}
  BY <1>1, <1>2 DEF Pipelined, InWire
<1>4. slot[i] = <<p, Base(p)>> /\ slot[i] # <<>>
  BY <1>2, <1>3
<1>5. slot[i] \in Partitions \X Nat
  BY <1>1, <1>4 DEF Types
<1> QED
  BY <1>1, <1>3, <1>4, <1>5 DEF HasSlot

-----------------------------------------------------------------------------
(* The kinds of steps.                                                     *)

\* The variables of the sends, their numbers, batches and requests, and the log.
sendVars == <<fut, slot, nextSeq, queue, wire, expected, refused, errs>>

\* Steps of the admin calls and of the loading task that leave the sends alone.
Control ==
    \/ DeleteTopics \/ CreateTopics \/ LeadersReady \/ EndLoad \/ EndDrain \/ Flush \/ FlushFails
    \/ \E t \in Topics, p \in Partitions : Elect(t, p)

LEMMA Kinds ==
  ASSUME [Next]_vars
  PROVE  \/ Control \/ Push
         \/ \E i \in Records : TakeSequence(i) \/ SendFails(i) \/ Enqueue(i) \/ TakeResolved(i)
         \/ \E t \in Topics : Deleted(t)
         \/ \E p \in Partitions : Transmit(p) \/ Handle(p) \/ LoseRequest(p)
         \/ UNCHANGED vars
BY DEF Next, Load, Control, Terminated

LEMMA ControlFrame ==
  ASSUME Control
  PROVE  UNCHANGED <<is_durable, made, fut, producerVars, brokerVars, errs>>
BY DEF Control, DeleteTopics, CreateTopics, LeadersReady, EndLoad, EndDrain, Flush, FlushFails,
  Elect

-----------------------------------------------------------------------------
(* Initial states.                                                         *)

LEMMA InitInductive == Init => Inductive
<1> SUFFICES ASSUME Init PROVE Inductive
  OBVIOUS
<1>0. /\ step = "delete" /\ topics \in SUBSET Topics /\ deleting = {} /\ made = 0
      /\ pstate = [t \in Topics |-> [p \in Partitions |->
                     IF t \in topics THEN "led" ELSE "unknown"]]
      /\ fut = [i \in Records |-> "none"] /\ slot = [i \in Records |-> <<>>]
      /\ nextSeq = [p \in Partitions |-> 0] /\ expected = [p \in Partitions |-> 0]
      /\ queue = [p \in Partitions |-> <<>>] /\ wire = [p \in Partitions |-> <<>>]
      /\ log = [p \in Partitions |-> IF "input" \in topics THEN <<Old>> ELSE <<>>]
      /\ refused = {} /\ lost = 0 /\ errs = {} /\ described = {}
  BY Zenon DEF Init
<1> USE <1>0, Limits
<1>1. \A p \in Partitions :
        /\ queue[p] = <<>> /\ wire[p] = <<>> /\ nextSeq[p] = 0 /\ expected[p] = 0
        /\ Len(queue[p]) = 0 /\ Len(wire[p]) = 0
        /\ log[p] = IF "input" \in topics THEN <<Old>> ELSE <<>>
  OBVIOUS
<1>2. Types
  <2>1. log \in [Partitions -> Seq(Records \cup {Old})]
    <3>1. <<>> \in Seq(Records \cup {Old}) /\ <<Old>> \in Seq(Records \cup {Old})
      OBVIOUS
    <3> QED
      BY <3>1
  <2>2. pstate \in [Topics -> [Partitions -> {"unknown", "known", "led"}]]
    <3>1. \A t \in Topics : [p \in Partitions |-> IF t \in topics THEN "led" ELSE "unknown"]
                               \in [Partitions -> {"unknown", "known", "led"}]
      OBVIOUS
    <3> QED
      BY <3>1, Zenon
  <2>3. slot \in [Records -> {<<>>} \cup (Partitions \X Nat)]
    OBVIOUS
  <2> QED
    BY <2>1, <2>2, <2>3 DEF Types
<1>3. Fresh
  BY <1>1 DEF Fresh, Loading, NoOld
<1>4. Polled /\ Numbered
  BY DEF Polled, Numbered, Past, HasSlot, Records
<1>5. \A p \in Partitions : Behind(p) = 0 /\ Base(p) = 0
  BY <1>1 DEF Behind, Base
<1>6. Pipelined
  BY <1>1 DEF Pipelined
<1>7. Logged
  BY <1>1 DEF Logged, Stored, Old
<1>8. Acknowledged
  BY <1>1, <1>5 DEF Acknowledged, Prompt, Settled, Complete, HasSlot, NoOld, Old
<1>9. Windowed
  <2>1. InFlight = {}
    BY DEF InFlight
  <2> QED
    BY <2>1, FS_EmptySet DEF Windowed
<1> QED
  BY <1>2, <1>3, <1>4, <1>6, <1>7, <1>8, <1>9 DEF Inductive, InSequence

-----------------------------------------------------------------------------
(* Types.                                                                  *)

LEMMA TypesStep ==
  ASSUME Types, Numbered, Pipelined, [Next]_vars
  PROVE  Types'
<1> USE Limits
<1>1. CASE Control
  <2>1. UNCHANGED <<made, fut, producerVars, brokerVars, errs>>
    BY <1>1, ControlFrame
  <2>2. /\ step' \in {"delete", "create", "leaders", "load", "full", "drain", "flush",
                      "phase2", "panicked"}
        /\ topics' \subseteq Topics /\ deleting' \subseteq topics'
    BY <1>1 DEF Types, Control, DeleteTopics, CreateTopics, LeadersReady, EndLoad, EndDrain,
      Flush, FlushFails, Elect, AfterCreateError, adminVars
  <2>3. pstate' \in [Topics -> [Partitions -> {"unknown", "known", "led"}]]
    <3>1. ASSUME NEW t \in Topics, NEW p \in Partitions, Elect(t, p)
          PROVE  pstate' \in [Topics -> [Partitions -> {"unknown", "known", "led"}]]
      <4>1. PICK v \in {"known", "led"} : pstate' = [pstate EXCEPT ![t][p] = v]
        BY <3>1 DEF Elect
      <4>2. pstate[t] \in [Partitions -> {"unknown", "known", "led"}]
        BY DEF Types
      <4>3. [pstate[t] EXCEPT ![p] = v] \in [Partitions -> {"unknown", "known", "led"}]
        BY <4>2
      <4>4. pstate' = [pstate EXCEPT ![t] = [pstate[t] EXCEPT ![p] = v]]
        BY <4>1
      <4> QED
        BY <4>3, <4>4 DEF Types
    <3>2. (\A t \in Topics, p \in Partitions : ~Elect(t, p)) => pstate' = pstate
      BY <1>1 DEF Control, DeleteTopics, CreateTopics, LeadersReady, EndLoad, EndDrain, Flush,
        FlushFails, adminVars
    <3> QED
      BY <3>1, <3>2, Zenon DEF Types
  <2>4. described' \subseteq Topics
    <3>1. CASE LeadersReady
      BY <3>1 DEF LeadersReady, Answers
    <3>2. ~LeadersReady => described' = described
      BY <1>1 DEF Control, DeleteTopics, CreateTopics, EndLoad, EndDrain, Flush, FlushFails,
        Elect, adminVars
    <3> QED
      BY <3>1, <3>2 DEF Types
  <2> QED
    BY <2>1, <2>2, <2>3, <2>4 DEF Types, producerVars, brokerVars
<1>2. CASE Push
  <2>1. /\ made' = made + 1 /\ made < Total /\ step' \in {"full", "load"}
        /\ fut' = [fut EXCEPT ![made + 1] = "pushed"]
        /\ UNCHANGED <<adminVars, producerVars, brokerVars, errs>>
    BY <1>2 DEF Push
  <2>2. fut' \in [Records -> {"none", "pushed", "sequenced", "queued", "resolved", "done"}]
    BY <2>1 DEF Types
  <2>3. made' \in 0 .. Total
    BY <2>1 DEF Types
  <2> QED
    BY <2>1, <2>2, <2>3 DEF Types, adminVars, producerVars, brokerVars
<1>3. ASSUME NEW i \in Records, TakeSequence(i) PROVE Types'
  <2>1. PICK p \in Partitions :
          /\ slot' = [slot EXCEPT ![i] = <<p, nextSeq[p]>>]
          /\ nextSeq' = [nextSeq EXCEPT ![p] = @ + 1]
    BY <1>3 DEF TakeSequence
  <2>2. nextSeq' \in [Partitions -> Nat]
    BY <2>1 DEF Types
  <2>3. slot' \in [Records -> {<<>>} \cup (Partitions \X Nat)]
    BY <2>1 DEF Types
  <2> QED
    BY <1>3, <2>2, <2>3 DEF TakeSequence, Types, adminVars, brokerVars
<1>4. ASSUME NEW i \in Records, SendFails(i) PROVE Types'
  BY <1>4 DEF SendFails, Types, adminVars, producerVars, brokerVars
<1>5. ASSUME NEW i \in Records, Enqueue(i) PROVE Types'
  <2>1. queue' \in [Partitions -> Seq(Records)]
    <3>1. queue \in [Partitions -> Seq(Records)]
      BY DEF Types
    <3>2. \A q \in Partitions : Append(queue[q], i) \in Seq(Records)
      BY <3>1, Appended
    <3>3. queue' = [queue EXCEPT ![slot[i][1]] = Append(queue[slot[i][1]], i)]
      BY <1>5 DEF Enqueue
    <3>4. queue' = [q \in Partitions |-> IF q = slot[i][1] THEN Append(queue[q], i) ELSE queue[q]]
      BY <3>1, <3>3
    <3> QED
      BY <3>1, <3>2, <3>4
  <2> QED
    BY <1>5, <2>1 DEF Enqueue, Types, adminVars, brokerVars
<1>6. ASSUME NEW i \in Records, TakeResolved(i) PROVE Types'
  BY <1>6 DEF TakeResolved, Types, adminVars, producerVars, brokerVars
<1>7. ASSUME NEW t \in Topics, Deleted(t) PROVE Types'
  <2>1. log' \in [Partitions -> Seq(Records \cup {Old})]
    BY <1>7 DEF Deleted, Types
  <2>2. pstate' \in [Topics -> [Partitions -> {"unknown", "known", "led"}]]
    BY <1>7 DEF Deleted, Types
  <2> QED
    BY <1>7, <2>1, <2>2 DEF Deleted, Types, producerVars
<1>8. ASSUME NEW p \in Partitions, Transmit(p) PROVE Types'
  <2>1. /\ queue[p] # <<>> /\ Head(queue[p]) \in Records /\ Tail(queue[p]) \in Seq(Records)
        /\ Append(wire[p], Head(queue[p])) \in Seq(Records)
    BY <1>8, Lengths, HeadAndTail, Appended DEF Transmit
  <2>2. /\ queue' \in [Partitions -> Seq(Records)] /\ wire' \in [Partitions -> Seq(Records)]
    BY <1>8, <2>1 DEF Transmit, Types
  <2>3. fut' \in [Records -> {"none", "pushed", "sequenced", "queued", "resolved", "done"}]
    BY <1>8, <2>1 DEF Transmit, Types
  <2> QED
    BY <1>8, <2>2, <2>3 DEF Transmit, Types, adminVars, brokerVars
<1>9. ASSUME NEW p \in Partitions, Handle(p) PROVE Types'
  <2> DEFINE i == Head(wire[p])
  <2>1. /\ wire[p] # <<>> /\ i \in Records /\ Tail(wire[p]) \in Seq(Records)
        /\ Append(log[p], i) \in Seq(Records \cup {Old}) /\ slot[i][2] \in Nat
    BY <1>9, Lengths, WireHead, HeadAndTail, Appended DEF Handle
  <2>2. /\ wire' = wire \/ wire' = [wire EXCEPT ![p] = Tail(@)]
        /\ fut' = fut \/ fut' = [fut EXCEPT ![i] = "resolved"]
        /\ log' = log \/ log' = [log EXCEPT ![p] = Append(@, i)]
        /\ expected' = expected \/ expected' = [expected EXCEPT ![p] = slot[i][2] + 1]
        /\ refused' = refused \/ refused' = refused \cup {i}
        /\ lost' = lost \/ (lost < MaxLost /\ lost' = lost + 1)
        /\ UNCHANGED <<step, adminVars, made, slot, nextSeq, queue, errs>>
    BY <1>9, Zenon DEF Handle, Answered
  <2> HIDE DEF i
  <2>3. wire' \in [Partitions -> Seq(Records)]
    BY <2>1, <2>2 DEF Types
  <2>4. log' \in [Partitions -> Seq(Records \cup {Old})]
    BY <2>1, <2>2 DEF Types
  <2>5. fut' \in [Records -> {"none", "pushed", "sequenced", "queued", "resolved", "done"}]
    BY <2>1, <2>2 DEF Types
  <2>6. expected' \in [Partitions -> Nat]
    <3>1. slot[i][2] + 1 \in Nat
      BY <2>1
    <3>2. expected \in [Partitions -> Nat]
      BY DEF Types
    <3>3. [expected EXCEPT ![p] = slot[i][2] + 1] \in [Partitions -> Nat]
      BY <3>1, <3>2
    <3> QED
      BY <2>2, <3>2, <3>3, Zenon
  <2>7. refused' \subseteq Records /\ lost' \in 0 .. MaxLost
    BY <2>1, <2>2 DEF Types
  <2> QED
    BY <2>2, <2>3, <2>4, <2>5, <2>6, <2>7 DEF Types, adminVars
<1>10. ASSUME NEW p \in Partitions, LoseRequest(p) PROVE Types'
  <2>1. Tail(wire[p]) \in Seq(Records)
    BY <1>10, Lengths, HeadAndTail DEF LoseRequest
  <2> QED
    BY <1>10, <2>1 DEF LoseRequest, Types, adminVars
<1>11. CASE UNCHANGED vars
  BY <1>11 DEF vars, Types, adminVars, producerVars, brokerVars
<1> QED
  BY <1>1, <1>2, <1>3, <1>4, <1>5, <1>6, <1>7, <1>8, <1>9, <1>10, <1>11, Kinds

-----------------------------------------------------------------------------
(* The topics.                                                             *)

\* What is appended to a log is a record of this run.
LEMMA NoOldStep ==
  ASSUME Types, Pipelined, [Next]_vars, NEW p \in Partitions, NoOld(p)
  PROVE  NoOld(p)'
<1>1. CASE log' = log
  BY <1>1 DEF NoOld
<1>2. ASSUME NEW t \in Topics, Deleted(t) PROVE NoOld(p)'
  <2>1. log'[p] = log[p] \/ log'[p] = <<>>
    BY <1>2 DEF Deleted, Types
  <2> QED
    BY <2>1 DEF NoOld
<1>3. ASSUME NEW q \in Partitions, Handle(q), log' # log PROVE NoOld(p)'
  <2>1. /\ wire[q] # <<>> /\ log' = [log EXCEPT ![q] = Append(@, Head(wire[q]))]
    BY <1>3, Zenon DEF Handle
  <2>2. Head(wire[q]) \in Records
    BY <2>1, WireHead
  <2>3. CASE p # q
    BY <2>1, <2>3 DEF NoOld, Types
  <2>4. CASE p = q
    <3>1. log'[p] = Append(log[p], Head(wire[q])) /\ log[p] \in Seq(Records \cup {Old})
      BY <2>1, <2>4 DEF Types
    <3>2. /\ Len(log'[p]) = Len(log[p]) + 1 /\ Len(log[p]) \in Nat
          /\ \A k \in 1 .. Len(log[p]) : log'[p][k] = log[p][k]
          /\ log'[p][Len(log[p]) + 1] = Head(wire[q])
      BY <2>2, <3>1, Appended
    <3> QED
      BY <2>2, <3>2 DEF NoOld, Records, Old
  <2> QED
    BY <2>3, <2>4
<1>4. log' = log \/ (\E t \in Topics : Deleted(t)) \/ (\E q \in Partitions : Handle(q))
  BY Kinds, ControlFrame DEF brokerVars, vars, Push, TakeSequence, SendFails, Enqueue,
    TakeResolved, Transmit, LoseRequest
<1> QED
  BY <1>1, <1>2, <1>3, <1>4

LEMMA FreshStep ==
  ASSUME Types, Fresh, Pipelined, [Next]_vars
  PROVE  Fresh'
<1>0. \A p \in Partitions : NoOld(p) => NoOld(p)'
  BY NoOldStep
<1> USE <1>0, Limits DEF Fresh, Loading, Types
<1>1. CASE \E t \in Topics : Deleted(t)
  <2>1. PICK t \in Topics : Deleted(t)
    BY <1>1
  <2>2. /\ t \in deleting /\ topics' = topics \ {t} /\ UNCHANGED <<step, made>>
        /\ t = "input" => log' = [p \in Partitions |-> <<>>]
    BY <2>1 DEF Deleted
  <2>3. "input" \notin topics' => \A p \in Partitions : NoOld(p)'
    <3>1. CASE t = "input"
      <4>1. \A p \in Partitions : Len(log'[p]) = 0
        BY <2>2, <3>1
      <4> QED
        BY <4>1 DEF NoOld
    <3>2. CASE t # "input"
      <4>1. "input" \notin topics' => "input" \notin topics
        BY <2>2, <3>2
      <4> QED
        BY <1>0, <4>1
    <3> QED
      BY <3>1, <3>2
  <2> QED
    BY <2>2, <2>3
<1>2. CASE DeleteTopics
  BY <1>2 DEF DeleteTopics
<1>3. CASE CreateTopics
  BY <1>3 DEF CreateTopics, AfterCreateError, Topics
<1>4. CASE LeadersReady
  BY <1>4 DEF LeadersReady, AllReady, adminVars
<1>5. CASE EndLoad \/ EndDrain \/ Flush \/ FlushFails
  BY <1>5 DEF EndLoad, EndDrain, Flush, FlushFails, AllReady, adminVars
<1>6. ASSUME NEW t \in Topics, NEW p \in Partitions, Elect(t, p) PROVE Fresh'
  <2>1. UNCHANGED <<step, topics, deleting, described, made>>
    BY <1>6 DEF Elect
  <2>2. AllReady(described) => pstate' = pstate \/ t \notin described
    BY <1>6 DEF Elect, AllReady
  <2>3. \A q \in Partitions, u \in Topics \ {t} : pstate'[u][q] = pstate[u][q]
    BY <1>6 DEF Elect
  <2>4. ASSUME AllReady(described), NEW u \in described', NEW q \in Partitions
        PROVE  pstate'[u][q] = "led"
    <3>1. u \in described /\ u \in Topics /\ pstate[u][q] = "led"
      BY <2>1, <2>4 DEF AllReady
    <3> QED
      BY <2>2, <2>3, <2>4, <3>1
  <2>5. AllReady(described) => AllReady(described)'
    BY <2>4 DEF AllReady
  <2> QED
    BY <2>1, <2>5
<1>7. CASE Push
  BY <1>7 DEF Push, AllReady, adminVars
<1>8. ASSUME NEW i \in Records, TakeResolved(i) PROVE Fresh'
  BY <1>8 DEF TakeResolved, Awaiting, AllReady, adminVars
<1>9. CASE UNCHANGED <<step, adminVars, made>>
  BY <1>9 DEF AllReady, adminVars
<1>10. ASSUME NEW i \in Records, TakeSequence(i) \/ SendFails(i) \/ Enqueue(i)
       PROVE  UNCHANGED <<step, adminVars, made>>
  BY <1>10 DEF TakeSequence, SendFails, Enqueue
<1>11. ASSUME NEW p \in Partitions, Transmit(p) \/ Handle(p) \/ LoseRequest(p)
       PROVE  UNCHANGED <<step, adminVars, made>>
  BY <1>11 DEF Transmit, Handle, LoseRequest
<1>12. UNCHANGED vars => UNCHANGED <<step, adminVars, made>>
  BY DEF vars
<1> QED
  BY <1>1, <1>2, <1>3, <1>4, <1>5, <1>6, <1>7, <1>8, <1>9, <1>10, <1>11, <1>12, Kinds, Zenon
     DEF Control

-----------------------------------------------------------------------------
(* The sends and their sequence numbers.                                   *)

\* A send that has been polled moves on.
Moved(i, v) ==
    /\ Past(i) /\ v \in {"queued", "resolved", "done"} /\ (i \in errs => v # "queued")
    /\ fut' = [fut EXCEPT ![i] = v]
    /\ UNCHANGED <<made, slot, nextSeq, errs>>

LEMMA QueueHead ==
  ASSUME Types, Pipelined, NEW p \in Partitions, queue[p] # <<>>
  PROVE  /\ Head(queue[p]) = queue[p][1] /\ Head(queue[p]) \in Records
         /\ fut[Head(queue[p])] = "queued"
         /\ slot[Head(queue[p])] = <<p, Base(p) + Len(wire[p])>>
<1>1. /\ Head(queue[p]) = queue[p][1] /\ Head(queue[p]) \in Records
      /\ Len(queue[p]) > 0 /\ Len(queue[p]) \in Nat
  BY HeadAndTail, Lengths
<1>2. 1 \in 1 .. Len(queue[p]) /\ Base(p) \in Int /\ Len(wire[p]) \in Nat
  BY <1>1, Lengths
<1>3. /\ fut[queue[p][1]] = "queued"
      /\ slot[queue[p][1]] = <<p, Base(p) + Len(wire[p]) + 1 - 1>>
  BY <1>2 DEF Pipelined, InQueue
<1> QED
  BY <1>1, <1>2, <1>3

LEMMA Moves ==
  ASSUME Types, Numbered, Pipelined, [Next]_vars
  PROVE  \/ Push
         \/ \E i \in Records : TakeSequence(i) \/ SendFails(i)
         \/ \E i \in Records, v \in {"queued", "resolved", "done"} : Moved(i, v)
         \/ UNCHANGED <<made, fut, slot, nextSeq, errs>>
<1>1. ASSUME NEW i \in Records, Enqueue(i) PROVE Moved(i, "queued")
  BY <1>1 DEF Enqueue, Moved, Past, Numbered
<1>2. ASSUME NEW i \in Records, TakeResolved(i) PROVE Moved(i, "done")
  BY <1>2 DEF TakeResolved, Moved, Past, producerVars
<1>3. ASSUME NEW p \in Partitions, Transmit(p)
      PROVE  UNCHANGED <<made, fut, slot, nextSeq, errs>> \/ Moved(Head(queue[p]), "resolved")
  <2>1. /\ UNCHANGED <<made, slot, nextSeq, errs>> /\ queue[p] # <<>>
        /\ fut' = fut \/ fut' = [fut EXCEPT ![Head(queue[p])] = "resolved"]
    BY <1>3, Zenon DEF Transmit
  <2> QED
    BY <2>1, QueueHead DEF Moved, Past
<1>4. ASSUME NEW p \in Partitions, Handle(p)
      PROVE  UNCHANGED <<made, fut, slot, nextSeq, errs>> \/ Moved(Head(wire[p]), "resolved")
  <2>1. /\ UNCHANGED <<made, slot, nextSeq, errs>> /\ wire[p] # <<>>
        /\ fut' = fut \/ fut' = [fut EXCEPT ![Head(wire[p])] = "resolved"]
    BY <1>4, Zenon DEF Handle, Answered
  <2>2. fut[Head(wire[p])] \in {"queued", "resolved", "done"}
    BY <2>1, WireHead
  <2> QED
    BY <2>1, <2>2 DEF Moved, Past
<1>5. ASSUME NEW p \in Partitions, LoseRequest(p)
      PROVE  UNCHANGED <<made, fut, slot, nextSeq, errs>>
  BY <1>5 DEF LoseRequest
<1>6. ASSUME NEW t \in Topics, Deleted(t)
      PROVE  UNCHANGED <<made, fut, slot, nextSeq, errs>>
  BY <1>6 DEF Deleted, producerVars
<1>7. Control \/ UNCHANGED vars => UNCHANGED <<made, fut, slot, nextSeq, errs>>
  BY ControlFrame DEF vars, producerVars
<1>8. ASSUME NEW p \in Partitions, Transmit(p) \/ Handle(p)
      PROVE  \/ UNCHANGED <<made, fut, slot, nextSeq, errs>>
             \/ \E i \in Records : Moved(i, "resolved")
  <2>1. CASE Transmit(p)
    BY <1>3, <2>1, QueueHead DEF Transmit
  <2>2. CASE Handle(p)
    BY <1>4, <2>2, WireHead DEF Handle
  <2> QED
    BY <1>8, <2>1, <2>2
<1> QED
  BY <1>1, <1>2, <1>5, <1>6, <1>7, <1>8, Kinds

LEMMA PushedSend ==
  ASSUME Types, Push
  PROVE  /\ made' = made + 1 /\ made < Total /\ made \in Nat
         /\ fut' = [j \in Records |-> IF j = made + 1 THEN "pushed" ELSE fut[j]]
         /\ UNCHANGED <<slot, nextSeq, errs>>
<1>1. /\ made' = made + 1 /\ made < Total /\ UNCHANGED <<slot, nextSeq, errs>>
      /\ fut' = [fut EXCEPT ![made + 1] = "pushed"]
  BY DEF Push, producerVars
<1>2. made \in Nat
  BY Limits DEF Types
<1>3. fut = [j \in Records |-> fut[j]]
  BY Zenon DEF Types
<1>4. fut' = [j \in Records |-> IF j = made + 1 THEN "pushed" ELSE fut[j]]
  BY <1>1, <1>3
<1> QED
  BY <1>1, <1>2, <1>4

LEMMA SequencedSend ==
  ASSUME Types, NEW i \in Records, TakeSequence(i)
  PROVE  \E p \in Partitions :
           /\ slot' = [j \in Records |-> IF j = i THEN <<p, nextSeq[p]>> ELSE slot[j]]
           /\ nextSeq' = [q \in Partitions |-> IF q = p THEN nextSeq[p] + 1 ELSE nextSeq[q]]
<1>1. PICK p \in Partitions :
        /\ slot' = [slot EXCEPT ![i] = <<p, nextSeq[p]>>]
        /\ nextSeq' = [nextSeq EXCEPT ![p] = @ + 1]
  BY DEF TakeSequence
<1>2. slot' = [j \in Records |-> IF j = i THEN <<p, nextSeq[p]>> ELSE slot[j]]
  BY <1>1, Zenon DEF Types
<1>3. nextSeq' = [q \in Partitions |-> IF q = p THEN nextSeq[p] + 1 ELSE nextSeq[q]]
  BY <1>1, Zenon DEF Types
<1> QED
  BY <1>2, <1>3

LEMMA PolledStep ==
  ASSUME Types, Polled, Numbered, Pipelined, [Next]_vars
  PROVE  Polled'
<1> USE DEF Polled, Past
<1>1. CASE Push
  <2>1. /\ made' = made + 1 /\ made < Total /\ made \in Nat
        /\ fut' = [j \in Records |-> IF j = made + 1 THEN "pushed" ELSE fut[j]]
    BY <1>1, PushedSend
  <2> QED
    BY <2>1 DEF Records
<1>2. ASSUME NEW i \in Records, TakeSequence(i) \/ SendFails(i) PROVE Polled'
  <2>1. PICK v \in {"sequenced", "resolved"} :
          fut' = [j \in Records |-> IF j = i THEN v ELSE fut[j]]
    BY <1>2 DEF TakeSequence, SendFails, Types
  <2>2. /\ fut[i] = "pushed" /\ \A j \in Records : fut[j] = "pushed" => i <= j
        /\ \A j \in Records : fut[j] # "sequenced"
        /\ made' = made
    BY <1>2 DEF TakeSequence, SendFails, NextToPoll, SingleTask
  <2>3. ASSUME NEW j \in Records, NEW k \in Records, j < k, Past(k)' PROVE Past(j)'
    <3>1. CASE k = i
      <4>1. fut[j] # "none" /\ fut[j] # "pushed"
        BY <2>2, <2>3, <3>1 DEF Types, Records
      <4> QED
        BY <2>1, <4>1 DEF Types
    <3>2. CASE k # i
      BY <2>1, <2>3, <3>2
    <3> QED
      BY <3>1, <3>2
  <2>4. \A j \in Records : fut'[j] = "none" <=> j > made'
    BY <2>1, <2>2
  <2>5. \A j, k \in Records : fut'[j] = "sequenced" /\ fut'[k] = "sequenced" => j = k
    BY <2>1, <2>2
  <2> QED
    BY <2>3, <2>4, <2>5
<1>3. ASSUME NEW i \in Records, NEW v \in {"queued", "resolved", "done"}, Moved(i, v)
      PROVE  Polled'
  <2>1. /\ fut' = [j \in Records |-> IF j = i THEN v ELSE fut[j]] /\ made' = made
        /\ fut[i] \in {"sequenced", "queued", "resolved", "done"}
    BY <1>3 DEF Moved, Types
  <2> QED
    BY <2>1
<1>4. CASE UNCHANGED <<made, fut, slot, nextSeq, errs>>
  BY <1>4
<1> QED
  BY <1>1, <1>2, <1>3, <1>4, Moves

LEMMA NumberedStep ==
  ASSUME Types, Polled, Numbered, Pipelined, [Next]_vars
  PROVE  Numbered'
<1> USE DEF Numbered, Past, HasSlot
<1>1. CASE Push
  <2>1. /\ UNCHANGED <<slot, nextSeq, errs>> /\ made < Total /\ made \in Nat
        /\ fut' = [j \in Records |-> IF j = made + 1 THEN "pushed" ELSE fut[j]]
    BY <1>1, PushedSend
  <2>2. made + 1 \in Records /\ fut[made + 1] = "none"
    BY <2>1, Limits DEF Polled, Records
  <2>3. errs \subseteq Records
    BY DEF Types
  <2> QED
    BY <2>1, <2>2, <2>3
<1>2. ASSUME NEW i \in Records, TakeSequence(i) PROVE Numbered'
  <2>1. PICK p \in Partitions :
          /\ slot' = [j \in Records |-> IF j = i THEN <<p, nextSeq[p]>> ELSE slot[j]]
          /\ nextSeq' = [q \in Partitions |-> IF q = p THEN nextSeq[p] + 1 ELSE nextSeq[q]]
    BY <1>2, SequencedSend
  <2>2. /\ fut' = [j \in Records |-> IF j = i THEN "sequenced" ELSE fut[j]]
        /\ fut[i] = "pushed" /\ UNCHANGED errs
        /\ \A j \in Records : fut[j] # "sequenced"
    BY <1>2 DEF TakeSequence, NextToPoll, SingleTask, Types
  <2>3. /\ slot'[i][1] = p /\ slot'[i][2] = nextSeq[p] /\ slot'[i] # <<>>
        /\ nextSeq'[p] = nextSeq[p] + 1 /\ nextSeq[p] \in Nat /\ nextSeq[p] < i
        /\ \A q \in Partitions : nextSeq'[q] >= nextSeq[q] /\ nextSeq[q] \in Nat
    <3>1. slot'[i] = <<p, nextSeq[p]>> /\ nextSeq'[p] = nextSeq[p] + 1
      BY <2>1
    <3>2. \A q \in Partitions : nextSeq[q] \in Nat
      BY DEF Types
    <3>3. \A q \in Partitions : nextSeq'[q] >= nextSeq[q]
      BY <2>1, <3>2
    <3>4. nextSeq[p] < i
      BY <2>2
    <3>5. slot'[i] # <<>> /\ slot'[i][1] = p /\ slot'[i][2] = nextSeq[p]
      BY <3>1
    <3> QED
      BY <3>1, <3>2, <3>3, <3>4, <3>5
  <2>4. \A j \in Records : j # i => slot'[j] = slot[j] /\ fut'[j] = fut[j]
    BY <2>1, <2>2
  <2>5. \A j \in Records : slot[j] # <<>> =>
          j < i /\ slot[j][1] \in Partitions /\ slot[j][2] \in Nat
    <3> SUFFICES ASSUME NEW j \in Records, slot[j] # <<>>
                 PROVE  j < i /\ slot[j][1] \in Partitions /\ slot[j][2] \in Nat
      OBVIOUS
    <3>1. slot[j][1] \in Partitions /\ slot[j][2] \in Nat
      BY SlotValue
    <3>2. ~(i < j) /\ i # j
      BY <2>2 DEF Polled
    <3> QED
      BY <3>1, <3>2 DEF Records
  <2>6. i \notin errs /\ errs \subseteq Records
    BY <2>2 DEF Types
  <2>a. \A j \in Records : HasSlot(j)' <=> Past(j)' /\ j \notin errs'
    BY <2>2, <2>3, <2>4, <2>6
  <2>b. \A j \in errs' : fut'[j] \in {"resolved", "done"}
    BY <2>2, <2>6
  <2>c. \A j \in Records : HasSlot(j)' => slot'[j][2] < nextSeq'[slot'[j][1]] /\ slot'[j][2] < j
    <3> SUFFICES ASSUME NEW j \in Records, HasSlot(j)'
                 PROVE  slot'[j][2] < nextSeq'[slot'[j][1]] /\ slot'[j][2] < j
      OBVIOUS
    <3>1. CASE j = i
      BY <2>3, <3>1
    <3>2. CASE j # i
      <4>1. slot'[j] = slot[j] /\ slot[j] # <<>>
        BY <2>4, <3>2
      <4>2. slot[j][2] < nextSeq[slot[j][1]] /\ slot[j][2] < j
        BY <4>1
      <4>3. nextSeq'[slot[j][1]] >= nextSeq[slot[j][1]]
            /\ nextSeq[slot[j][1]] \in Nat /\ nextSeq'[slot[j][1]] \in Nat
        BY <2>1, <2>3, <2>5, <4>1
      <4> QED
        BY <2>5, <4>1, <4>2, <4>3
    <3> QED
      BY <3>1, <3>2
  <2>d. ASSUME NEW j \in Records, NEW k \in Records, HasSlot(j)', HasSlot(k)',
               slot'[j][1] = slot'[k][1], j < k
        PROVE  slot'[j][2] < slot'[k][2]
    <3>1. CASE k = i
      <4>1. j # i /\ slot[j] # <<>> /\ slot'[j] = slot[j]
        BY <2>d, <2>4, <3>1 DEF Records
      <4>2. slot[j][2] < nextSeq[slot[j][1]] /\ slot[j][1] = p
        BY <2>d, <2>3, <3>1, <4>1
      <4> QED
        BY <2>3, <3>1, <4>1, <4>2
    <3>2. CASE k # i
      <4>1. j # i
        BY <2>d, <2>4, <2>5, <3>2 DEF Records
      <4> QED
        BY <2>d, <2>4, <3>2, <4>1
    <3> QED
      BY <3>1, <3>2
  <2>e. ASSUME NEW j \in Records, NEW q \in Partitions, ~Past(j)' PROVE nextSeq'[q] < j
    <3>1. j # i /\ ~Past(j)
      BY <2>2, <2>4, <2>e
    <3>2. i < j
      <4>1. fut[j] \in {"none", "pushed"}
        BY <3>1 DEF Types
      <4>2. CASE fut[j] = "pushed"
        BY <1>2, <3>1, <4>2 DEF TakeSequence, NextToPoll, Records
      <4>3. CASE fut[j] = "none"
        <5>1. j > made /\ ~(i > made) /\ made \in Nat
          BY <2>2, <4>3 DEF Polled, Types
        <5> QED
          BY <5>1 DEF Records
      <4> QED
        BY <4>1, <4>2, <4>3
    <3>3. nextSeq[q] < j /\ nextSeq[p] < i
      BY <2>2, <3>1
    <3> QED
      BY <2>1, <2>3, <3>2, <3>3 DEF Records
  <2>f. \A j \in Records : fut'[j] = "sequenced" => slot'[j][2] = nextSeq'[slot'[j][1]] - 1
    BY <2>2, <2>3, <2>4
  <2> QED
    BY <2>a, <2>b, <2>c, <2>d, <2>e, <2>f
<1>3. ASSUME NEW i \in Records, SendFails(i) PROVE Numbered'
  <2>1. /\ fut' = [j \in Records |-> IF j = i THEN "resolved" ELSE fut[j]]
        /\ fut[i] = "pushed" /\ errs' = errs \cup {i} /\ UNCHANGED <<slot, nextSeq>>
    BY <1>3 DEF SendFails, NextToPoll, Types, producerVars
  <2>2. errs \subseteq Records /\ slot[i] = <<>>
    BY <2>1 DEF Types
  <2> QED
    BY <2>1, <2>2
<1>4. ASSUME NEW i \in Records, NEW v \in {"queued", "resolved", "done"}, Moved(i, v)
      PROVE  Numbered'
  <2>1. /\ fut' = [j \in Records |-> IF j = i THEN v ELSE fut[j]]
        /\ fut[i] \in {"sequenced", "queued", "resolved", "done"} /\ (i \in errs => v # "queued")
        /\ UNCHANGED <<slot, nextSeq, errs>> /\ errs \subseteq Records
    BY <1>4 DEF Moved, Types
  <2> QED
    BY <2>1
<1>5. CASE UNCHANGED <<made, fut, slot, nextSeq, errs>>
  BY <1>5
<1> QED
  BY <1>1, <1>2, <1>3, <1>4, <1>5, Moves

-----------------------------------------------------------------------------
(* Batches and requests.                                                   *)

LEMMA SameBehind ==
  ASSUME NEW p \in Partitions,
         \A i \in Records : (fut'[i] = "sequenced" /\ slot'[i][1] = p)
                              <=> (fut[i] = "sequenced" /\ slot[i][1] = p)
  PROVE  Behind(p)' = Behind(p)
<1>1. (\E i \in Records : fut'[i] = "sequenced" /\ slot'[i][1] = p)
        <=> (\E i \in Records : fut[i] = "sequenced" /\ slot[i][1] = p)
  OBVIOUS
<1> QED
  BY <1>1, Zenon DEF Behind

\* A partition whose batch and requests a step leaves alone.
LEMMA SamePipe ==
  ASSUME Types, NEW p \in Partitions, is_durable' = is_durable,
         \A k \in 1 .. Len(wire[p]) : InWire(p, k),
         \A k \in 1 .. Len(queue[p]) : InQueue(p, k),
         wire'[p] = wire[p], queue'[p] = queue[p], Base(p)' = Base(p),
         \A i \in Records : fut[i] \in {"queued", "resolved", "done"} /\ slot[i][1] = p
            => /\ slot'[i] = slot[i]
               /\ fut'[i] = fut[i] \/ (fut[i] = "resolved" /\ fut'[i] = "done")
  PROVE  /\ \A k \in 1 .. Len(wire'[p]) : InWire(p, k)'
         /\ \A k \in 1 .. Len(queue'[p]) : InQueue(p, k)'
<1>0. /\ \A k \in 1 .. Len(queue[p]) : queue[p][k] \in Records
      /\ \A k \in 1 .. Len(wire[p]) : wire[p][k] \in Records
  BY Lengths
<1>1. ASSUME NEW k \in 1 .. Len(wire[p]) PROVE InWire(p, k)'
  <2> DEFINE i == wire[p][k]
  <2>1. /\ fut[i] \in {"queued", "resolved", "done"} /\ slot[i] = <<p, Base(p) + k - 1>>
        /\ fut[i] \in IF is_durable THEN {"queued"} ELSE {"resolved", "done"}
        /\ i \in Records
    BY <1>0, <1>1 DEF InWire
  <2>2. slot[i][1] = p
    BY <2>1
  <2>3. slot'[i] = slot[i] /\ (fut'[i] = fut[i] \/ (fut[i] = "resolved" /\ fut'[i] = "done"))
    BY <2>1, <2>2
  <2>4. fut'[i] \in IF is_durable' THEN {"queued"} ELSE {"resolved", "done"}
    BY <2>1, <2>3
  <2> QED
    BY <2>1, <2>3, <2>4 DEF InWire
<1>2. ASSUME NEW k \in 1 .. Len(queue[p]) PROVE InQueue(p, k)'
  <2> DEFINE i == queue[p][k]
  <2>1. /\ fut[i] = "queued" /\ slot[i] = <<p, Base(p) + Len(wire[p]) + k - 1>>
        /\ i \in Records
    BY <1>0, <1>2 DEF InQueue
  <2>2. slot[i][1] = p
    BY <2>1
  <2>3. slot'[i] = slot[i] /\ fut'[i] = fut[i]
    BY <2>1, <2>2
  <2> QED
    BY <2>1, <2>3 DEF InQueue
<1> QED
  BY <1>1, <1>2

LEMMA BaseStays ==
  ASSUME NEW p \in Partitions,
         nextSeq'[p] = nextSeq[p], wire'[p] = wire[p], queue'[p] = queue[p],
         \A i \in Records : (fut'[i] = "sequenced" /\ slot'[i][1] = p)
                              <=> (fut[i] = "sequenced" /\ slot[i][1] = p)
  PROVE  Base(p)' = Base(p)
BY SameBehind DEF Base

LEMMA EnqueuePipe ==
  ASSUME Types, Polled, Numbered, Pipelined, NEW i \in Records, Enqueue(i)
  PROVE  Pipelined' /\ \A q \in Partitions : Base(q)' = Base(q)
<1>0. PICK p \in Partitions : slot[i][1] = p /\ slot[i] = <<p, nextSeq[p] - 1>>
  <2>1. fut[i] = "sequenced"
    BY DEF Enqueue
  <2>2. HasSlot(i) /\ slot[i][2] = nextSeq[slot[i][1]] - 1
    BY <2>1 DEF Numbered, Past
  <2> QED
    BY <2>2, SlotValue
<1>1. /\ fut[i] = "sequenced" /\ queue' = [queue EXCEPT ![p] = Append(@, i)]
      /\ fut' = [fut EXCEPT ![i] = "queued"]
      /\ UNCHANGED <<is_durable, slot, nextSeq, wire>>
  BY <1>0 DEF Enqueue
<1>2. slot[i] = <<p, nextSeq[p] - 1>> /\ slot[i][1] = p
  BY <1>0
<1>3. \A j \in Records : fut'[j] = "sequenced" <=> fut[j] = "sequenced" /\ j # i
  BY <1>1 DEF Types
<1>4. \A j \in Records : j # i => fut'[j] = fut[j]
  BY <1>1 DEF Types
<1>5. ASSUME NEW q \in Partitions, q # p
      PROVE  /\ \A k \in 1 .. Len(wire'[q]) : InWire(q, k)'
             /\ \A k \in 1 .. Len(queue'[q]) : InQueue(q, k)'
             /\ Base(q)' = Base(q)
  <2>1. wire'[q] = wire[q] /\ queue'[q] = queue[q] /\ nextSeq'[q] = nextSeq[q]
    BY <1>1, <1>5 DEF Types
  <2>2. slot[i][1] # q
    BY <1>2, <1>5
  <2>3. Base(q)' = Base(q)
    BY <1>1, <1>3, <2>1, <2>2, BaseStays
  <2> QED
    BY <1>1, <1>4, <2>1, <2>2, <2>3, SamePipe DEF Pipelined
<1>6. /\ \A k \in 1 .. Len(wire'[p]) : InWire(p, k)'
      /\ \A k \in 1 .. Len(queue'[p]) : InQueue(p, k)'
      /\ Base(p)' = Base(p)
  <2>0. PICK L \in Nat, M \in Nat : L = Len(wire[p]) /\ M = Len(queue[p])
    BY Lengths
  <2>1. /\ nextSeq[p] \in Nat /\ queue[p] \in Seq(Records)
        /\ \A k \in 1 .. M : queue[p][k] \in Records
        /\ \A k \in 1 .. L : wire[p][k] \in Records
    BY <2>0, Lengths
  <2>2. /\ wire'[p] = wire[p] /\ queue'[p] = Append(queue[p], i) /\ nextSeq'[p] = nextSeq[p]
    BY <1>1, <1>2 DEF Types
  <2>3. /\ Len(queue'[p]) = M + 1 /\ queue'[p][M + 1] = i
        /\ \A k \in 1 .. M : queue'[p][k] = queue[p][k]
    BY <2>0, <2>1, <2>2, Appended
  <2>4. Behind(p) = 1 /\ Behind(p)' = 0
    <3>1. fut[i] = "sequenced" /\ slot[i][1] = p
      BY <1>1, <1>2
    <3>2. \A j \in Records : fut[j] = "sequenced" => j = i
      BY <1>1 DEF Polled
    <3>3. \A j \in Records : fut'[j] # "sequenced"
      BY <1>3, <3>2
    <3> QED
      BY <3>1, <3>3 DEF Behind
  <2>5. Base(p)' = Base(p) /\ Base(p) = nextSeq[p] - 1 - M - L
    <3>1. Base(p) = nextSeq[p] - 1 - M - L
      BY <2>0, <2>4, Zenon DEF Base
    <3>2. Base(p)' = nextSeq[p] - 0 - (M + 1) - L
      BY <2>0, <2>2, <2>3, <2>4, Zenon DEF Base
    <3>3. PICK n \in Nat : n = nextSeq[p]
      BY <2>1
    <3>4. n - 0 - (M + 1) - L = n - 1 - M - L
      BY <2>0
    <3> QED
      BY <3>1, <3>2, <3>3, <3>4
  <2>6. ASSUME NEW k \in 1 .. L PROVE InWire(p, k)'
    <3>1. InWire(p, k) /\ wire[p][k] # i
      BY <1>1, <1>2, <2>0, <2>6 DEF Pipelined, InWire
    <3> QED
      BY <1>1, <1>4, <2>0, <2>1, <2>2, <2>5, <3>1 DEF InWire
  <2>7. ASSUME NEW k \in 1 .. M PROVE InQueue(p, k)'
    <3>1. InQueue(p, k) /\ queue[p][k] # i
      BY <1>1, <1>2, <2>0, <2>7 DEF Pipelined, InQueue
    <3> QED
      BY <1>1, <1>4, <2>0, <2>1, <2>2, <2>3, <2>5, <3>1 DEF InQueue
  <2>8. InQueue(p, M + 1)'
    <3>1. Base(p) + L + (M + 1) - 1 = nextSeq[p] - 1
      BY <2>0, <2>1, <2>5
    <3>2. fut'[i] = "queued"
      BY <1>1 DEF Types
    <3> QED
      BY <1>1, <1>2, <2>0, <2>2, <2>3, <2>5, <3>1, <3>2 DEF InQueue
  <2> QED
    BY <2>0, <2>1, <2>2, <2>3, <2>5, <2>6, <2>7, <2>8
<1> QED
  BY <1>5, <1>6 DEF Pipelined

LEMMA TransmitPipe ==
  ASSUME Types, Pipelined, NEW p \in Partitions, Transmit(p)
  PROVE  Pipelined' /\ \A q \in Partitions : Base(q)' = Base(q)
<1>0. PICK h \in Records, L \in Nat, M \in Nat :
        h = Head(queue[p]) /\ L = Len(wire[p]) /\ M = Len(queue[p])
  BY QueueHead, Lengths DEF Transmit
<1>1. /\ queue[p] # <<>> /\ queue' = [queue EXCEPT ![p] = Tail(@)]
      /\ wire' = [wire EXCEPT ![p] = Append(@, h)]
      /\ UNCHANGED <<is_durable, slot, nextSeq>>
      /\ fut' = IF is_durable THEN fut ELSE [fut EXCEPT ![h] = "resolved"]
  BY <1>0 DEF Transmit
<1>2. /\ h = queue[p][1] /\ h \in Records /\ fut[h] = "queued"
      /\ slot[h] = <<p, Base(p) + L>> /\ slot[h][1] = p
  <2>1. /\ h = queue[p][1] /\ fut[h] = "queued" /\ slot[h] = <<p, Base(p) + L>>
    BY <1>0, <1>1, QueueHead
  <2> QED
    BY <2>1
<1>3. /\ M > 0 /\ Base(p) \in Int /\ nextSeq[p] \in Nat
      /\ queue[p] \in Seq(Records) /\ wire[p] \in Seq(Records)
      /\ \A k \in 1 .. M : queue[p][k] \in Records
      /\ \A k \in 1 .. L : wire[p][k] \in Records
  BY <1>0, <1>1, Lengths, HeadAndTail
<1>4. /\ wire'[p] = Append(wire[p], h) /\ Len(wire'[p]) = L + 1 /\ wire'[p][L + 1] = h
      /\ \A k \in 1 .. L : wire'[p][k] = wire[p][k]
      /\ queue'[p] = Tail(queue[p]) /\ Len(queue'[p]) = M - 1
      /\ \A k \in 1 .. M - 1 : queue'[p][k] = queue[p][k + 1]
  <2>1. wire'[p] = Append(wire[p], h) /\ queue'[p] = Tail(queue[p])
    BY <1>1 DEF Types
  <2> QED
    <3>1. /\ Len(wire'[p]) = L + 1 /\ wire'[p][L + 1] = h
          /\ \A k \in 1 .. L : wire'[p][k] = wire[p][k]
      BY <1>0, <1>3, <2>1, Appended
    <3>2. Len(queue'[p]) = M - 1 /\ \A k \in 1 .. M - 1 : queue'[p][k] = queue[p][k + 1]
      BY <1>0, <1>1, <1>3, <2>1, HeadAndTail
    <3> QED
      BY <2>1, <3>1, <3>2
<1>5. /\ \A j \in Records : j # h => fut'[j] = fut[j]
      /\ fut'[h] = IF is_durable THEN "queued" ELSE "resolved"
  BY <1>1, <1>2 DEF Types
<1>6. \A j \in Records : fut'[j] = "sequenced" <=> fut[j] = "sequenced"
  BY <1>2, <1>5
<1>7. ASSUME NEW q \in Partitions, q # p
      PROVE  /\ \A k \in 1 .. Len(wire'[q]) : InWire(q, k)'
             /\ \A k \in 1 .. Len(queue'[q]) : InQueue(q, k)'
             /\ Base(q)' = Base(q)
  <2>1. wire'[q] = wire[q] /\ queue'[q] = queue[q] /\ nextSeq'[q] = nextSeq[q]
    BY <1>1, <1>7 DEF Types
  <2>2. slot[h][1] # q
    BY <1>2, <1>7
  <2>3. Base(q)' = Base(q)
    BY <1>1, <1>6, <2>1, BaseStays
  <2> QED
    BY <1>1, <1>5, <2>1, <2>2, <2>3, SamePipe DEF Pipelined
<1>8. /\ \A k \in 1 .. Len(wire'[p]) : InWire(p, k)'
      /\ \A k \in 1 .. Len(queue'[p]) : InQueue(p, k)'
      /\ Base(p)' = Base(p)
  <2>1. Base(p)' = Base(p)
    <3>1. Behind(p)' = Behind(p)
      BY <1>1, <1>6, SameBehind
    <3>2. PICK b \in {0, 1} : b = Behind(p)
      BY Lengths
    <3>3. Base(p) = nextSeq[p] - b - M - L
      BY <1>0, <3>2, Zenon DEF Base
    <3>4. nextSeq'[p] = nextSeq[p]
      BY <1>1
    <3>5. Base(p)' = nextSeq[p] - b - (M - 1) - (L + 1)
      BY <1>0, <1>4, <3>1, <3>2, <3>4, Zenon DEF Base
    <3> QED
      <4>1. b \in Int /\ nextSeq[p] \in Int /\ M \in Int /\ L \in Int
        BY <1>0, <1>3, <3>2
      <4> QED
        BY <4>1, <3>3, <3>5
  <2>2. ASSUME NEW k \in 1 .. L PROVE InWire(p, k)'
    <3>1. InWire(p, k)
      BY <1>0, <2>2 DEF Pipelined
    <3>2. wire[p][k] # h
      <4>1. CASE is_durable
        <5>1. slot[wire[p][k]] = <<p, Base(p) + k - 1>>
          BY <3>1 DEF InWire
        <5> QED
          BY <1>2, <1>3, <2>2, <5>1
      <4>2. CASE ~is_durable
        BY <1>2, <3>1, <4>2 DEF InWire
      <4> QED
        BY <4>1, <4>2
    <3> QED
      BY <1>0, <1>1, <1>3, <1>4, <1>5, <2>1, <3>1, <3>2 DEF InWire
  <2>3. InWire(p, L + 1)'
    <3>1. Base(p) + (L + 1) - 1 = Base(p) + L
      BY <1>3
    <3> QED
      BY <1>1, <1>2, <1>4, <1>5, <2>1, <3>1 DEF InWire
  <2>4. ASSUME NEW k \in 1 .. M - 1 PROVE InQueue(p, k)'
    <3>1. k + 1 \in 1 .. M
      BY <1>3, <2>4
    <3>2. /\ fut[queue[p][k + 1]] = "queued" /\ queue[p][k + 1] \in Records
          /\ slot[queue[p][k + 1]] = <<p, Base(p) + L + (k + 1) - 1>>
      BY <1>0, <1>3, <3>1 DEF Pipelined, InQueue
    <3>3. Base(p) + L + (k + 1) - 1 = Base(p) + (L + 1) + k - 1
          /\ Base(p) + L + (k + 1) - 1 # Base(p) + L
      BY <1>3, <2>4
    <3>4. queue[p][k + 1] # h
      BY <1>2, <3>2, <3>3
    <3> QED
      BY <1>0, <1>1, <1>4, <1>5, <2>1, <2>4, <3>2, <3>3, <3>4 DEF InQueue
  <2> QED
    BY <1>0, <1>3, <1>4, <2>1, <2>2, <2>3, <2>4
<1> QED
  BY <1>7, <1>8 DEF Pipelined

\* The request at the head is gone, answered or lost.
Popped(p) ==
    /\ wire[p] # <<>> /\ wire' = [wire EXCEPT ![p] = Tail(@)]
    /\ UNCHANGED <<is_durable, slot, nextSeq, queue>>
    /\ fut' = IF is_durable THEN [fut EXCEPT ![Head(wire[p])] = "resolved"] ELSE fut

LEMMA PoppedPipe ==
  ASSUME Types, Pipelined, NEW p \in Partitions, Popped(p)
  PROVE  Pipelined' /\ Base(p)' = Base(p) + 1 /\ \A q \in Partitions \ {p} : Base(q)' = Base(q)
<1>0. PICK h \in Records, L \in Nat, M \in Nat :
        h = Head(wire[p]) /\ L = Len(wire[p]) /\ M = Len(queue[p])
  BY WireHead, Lengths DEF Popped
<1>1. /\ wire[p] # <<>> /\ wire' = [wire EXCEPT ![p] = Tail(@)]
      /\ UNCHANGED <<is_durable, slot, nextSeq, queue>>
      /\ fut' = fut \/ fut' = [fut EXCEPT ![h] = "resolved"]
  BY <1>0, Zenon DEF Popped
<1>2. /\ h = wire[p][1] /\ h \in Records /\ fut[h] \in {"queued", "resolved", "done"}
      /\ slot[h] = <<p, Base(p)>> /\ slot[h][1] = p
  BY <1>0, <1>1, WireHead
<1>3. /\ L > 0 /\ Base(p) \in Int /\ nextSeq[p] \in Nat
      /\ queue[p] \in Seq(Records) /\ wire[p] \in Seq(Records)
      /\ \A k \in 1 .. M : queue[p][k] \in Records
      /\ \A k \in 1 .. L : wire[p][k] \in Records
  BY <1>0, <1>1, Lengths, HeadAndTail
<1>4. /\ Len(wire'[p]) = L - 1 /\ \A k \in 1 .. L - 1 : wire'[p][k] = wire[p][k + 1]
  <2>1. wire'[p] = Tail(wire[p])
    BY <1>1 DEF Types
  <2>2. Len(wire[p]) = L /\ wire[p] \in Seq(Records) /\ wire[p] # <<>>
    BY <1>0, <1>1, <1>3
  <2>3. /\ Len(Tail(wire[p])) = Len(wire[p]) - 1
        /\ \A k \in 1 .. Len(wire[p]) - 1 : Tail(wire[p])[k] = wire[p][k + 1]
    BY <2>2, HeadAndTail
  <2> QED
    BY <2>1, <2>2, <2>3
<1>5. /\ \A j \in Records : j # h => fut'[j] = fut[j]
      /\ fut'[h] # "sequenced"
  BY <1>1, <1>2 DEF Types
<1>6. \A j \in Records : fut'[j] = "sequenced" <=> fut[j] = "sequenced"
  BY <1>2, <1>5
<1>7. ASSUME NEW q \in Partitions, q # p
      PROVE  /\ \A k \in 1 .. Len(wire'[q]) : InWire(q, k)'
             /\ \A k \in 1 .. Len(queue'[q]) : InQueue(q, k)'
             /\ Base(q)' = Base(q)
  <2>1. wire'[q] = wire[q] /\ queue'[q] = queue[q] /\ nextSeq'[q] = nextSeq[q]
    BY <1>1, <1>7 DEF Types
  <2>2. slot[h][1] # q
    BY <1>2, <1>7
  <2>3. Base(q)' = Base(q)
    BY <1>1, <1>6, <2>1, BaseStays
  <2> QED
    BY <1>1, <1>5, <2>1, <2>2, <2>3, SamePipe DEF Pipelined
<1>8. Base(p)' = Base(p) + 1
  <2>1. Behind(p)' = Behind(p)
    BY <1>1, <1>6, SameBehind
  <2>2. PICK b \in {0, 1} : b = Behind(p)
    BY Lengths
  <2>3. Base(p) = nextSeq[p] - b - M - L
    BY <1>0, <2>2, Zenon DEF Base
  <2>4. nextSeq'[p] = nextSeq[p] /\ queue'[p] = queue[p]
    BY <1>1
  <2>5. Base(p)' = nextSeq[p] - b - M - (L - 1)
    BY <1>0, <1>4, <2>1, <2>2, <2>4, Zenon DEF Base
  <2>6. b \in Int /\ nextSeq[p] \in Int /\ M \in Int /\ L \in Int
    BY <1>0, <1>3, <2>2
  <2> QED
    BY <2>3, <2>5, <2>6
<1>9. ASSUME NEW k \in 1 .. L - 1 PROVE InWire(p, k)'
  <2>1. k + 1 \in 1 .. L
    BY <1>3, <1>9
  <2>2. /\ fut[wire[p][k + 1]] \in IF is_durable THEN {"queued"} ELSE {"resolved", "done"}
        /\ slot[wire[p][k + 1]] = <<p, Base(p) + (k + 1) - 1>> /\ wire[p][k + 1] \in Records
    BY <1>0, <1>3, <2>1 DEF Pipelined, InWire
  <2>3. Base(p) + (k + 1) - 1 = (Base(p) + 1) + k - 1 /\ Base(p) + (k + 1) - 1 # Base(p)
    BY <1>3, <1>9
  <2>4. wire[p][k + 1] # h
    BY <1>2, <2>2, <2>3
  <2> QED
    BY <1>1, <1>4, <1>5, <1>8, <1>9, <2>2, <2>3, <2>4 DEF InWire
<1>10. ASSUME NEW k \in 1 .. M PROVE InQueue(p, k)'
  <2>1. /\ fut[queue[p][k]] = "queued" /\ queue[p][k] \in Records
        /\ slot[queue[p][k]] = <<p, Base(p) + L + k - 1>>
    BY <1>0, <1>3, <1>10 DEF Pipelined, InQueue
  <2>2. Base(p) + L + k - 1 = (Base(p) + 1) + (L - 1) + k - 1 /\ Base(p) + L + k - 1 # Base(p)
    BY <1>3, <1>10
  <2>3. queue[p][k] # h
    BY <1>2, <2>1, <2>2
  <2> QED
    BY <1>0, <1>1, <1>3, <1>4, <1>5, <1>8, <1>10, <2>1, <2>2, <2>3 DEF InQueue
<1> QED
  BY <1>0, <1>1, <1>4, <1>7, <1>8, <1>9, <1>10 DEF Pipelined

\* Steps that leave numbers, batches and requests alone, and with them the sends there.
QuietPipe ==
    /\ UNCHANGED <<is_durable, slot, nextSeq, queue, wire>>
    /\ \A i \in Records :
         \/ fut'[i] = fut[i]
         \/ fut[i] \in {"none", "pushed"} /\ fut'[i] # "sequenced"
         \/ fut[i] = "resolved" /\ fut'[i] = "done"

LEMMA QuietPiped ==
  ASSUME Types, Pipelined, QuietPipe
  PROVE  Pipelined' /\ \A p \in Partitions : Base(p)' = Base(p)
<1> SUFFICES ASSUME NEW p \in Partitions
             PROVE  /\ \A k \in 1 .. Len(wire'[p]) : InWire(p, k)'
                    /\ \A k \in 1 .. Len(queue'[p]) : InQueue(p, k)'
                    /\ Base(p)' = Base(p)
  BY DEF Pipelined
<1>1. /\ is_durable' = is_durable /\ slot' = slot
      /\ nextSeq'[p] = nextSeq[p] /\ wire'[p] = wire[p] /\ queue'[p] = queue[p]
  BY DEF QuietPipe
<1>2. \A i \in Records : fut'[i] = "sequenced" <=> fut[i] = "sequenced"
  BY DEF QuietPipe
<1>3. Base(p)' = Base(p)
  BY <1>1, <1>2, BaseStays
<1>4. \A i \in Records : fut[i] \in {"queued", "resolved", "done"} =>
        fut'[i] = fut[i] \/ (fut[i] = "resolved" /\ fut'[i] = "done")
  BY DEF QuietPipe
<1> QED
  BY <1>1, <1>3, <1>4, SamePipe DEF Pipelined

LEMMA SequencedPipe ==
  ASSUME Types, Numbered, Pipelined, NEW i \in Records, TakeSequence(i)
  PROVE  Pipelined' /\ \A q \in Partitions : Base(q)' = Base(q)
<1>1. PICK p \in Partitions :
        /\ slot' = [j \in Records |-> IF j = i THEN <<p, nextSeq[p]>> ELSE slot[j]]
        /\ nextSeq' = [q \in Partitions |-> IF q = p THEN nextSeq[p] + 1 ELSE nextSeq[q]]
  BY SequencedSend
<1>2. /\ fut' = [j \in Records |-> IF j = i THEN "sequenced" ELSE fut[j]]
      /\ UNCHANGED <<is_durable, queue, wire>>
      /\ fut[i] = "pushed" /\ \A j \in Records : fut[j] # "sequenced"
  BY DEF TakeSequence, NextToPoll, SingleTask, Types
<1>3. slot'[i] = <<p, nextSeq[p]>> /\ slot'[i][1] = p /\ fut'[i] = "sequenced"
  BY <1>1, <1>2
<1>4. \A j \in Records : j # i => slot'[j] = slot[j] /\ fut'[j] = fut[j]
  BY <1>1, <1>2
<1>5. ASSUME NEW q \in Partitions PROVE Base(q)' = Base(q)
  <2>1. CASE q = p
    <3>0. PICK n \in Nat, L \in Nat, M \in Nat :
            n = nextSeq[p] /\ L = Len(wire[p]) /\ M = Len(queue[p])
      BY Lengths
    <3>1. Behind(p) = 0 /\ Behind(p)' = 1
      BY <1>2, <1>3 DEF Behind
    <3>2. nextSeq'[p] = n + 1
      BY <1>1, <3>0
    <3>3. Base(p) = n - 0 - M - L
      BY <3>0, <3>1, Zenon DEF Base
    <3>4. Base(p)' = (n + 1) - 1 - M - L
      BY <1>2, <3>0, <3>1, <3>2, Zenon DEF Base
    <3>5. n - 0 - M - L = (n + 1) - 1 - M - L
      OBVIOUS
    <3> QED
      BY <2>1, <3>3, <3>4, <3>5
  <2>2. CASE q # p
    <3>1. nextSeq'[q] = nextSeq[q] /\ wire'[q] = wire[q] /\ queue'[q] = queue[q]
      BY <1>1, <1>2, <2>2
    <3>2. \A j \in Records : ~(fut'[j] = "sequenced" /\ slot'[j][1] = q)
      BY <1>2, <1>3, <1>4, <2>2
    <3> QED
      BY <1>2, <3>1, <3>2, BaseStays
  <2> QED
    BY <2>1, <2>2
<1>6. \A j \in Records : fut[j] \in {"queued", "resolved", "done"} =>
        slot'[j] = slot[j] /\ fut'[j] = fut[j]
  BY <1>2, <1>4
<1>7. ASSUME NEW q \in Partitions
      PROVE  /\ \A k \in 1 .. Len(wire'[q]) : InWire(q, k)'
             /\ \A k \in 1 .. Len(queue'[q]) : InQueue(q, k)'
  BY <1>2, <1>5, <1>6, SamePipe DEF Pipelined
<1> QED
  BY <1>5, <1>7 DEF Pipelined

\* Either the request at the head of a partition is gone, or nothing moves up.
LEMMA PipedStep ==
  ASSUME Types, Polled, Numbered, Pipelined, [Next]_vars
  PROVE  /\ Pipelined'
         /\ \/ \A q \in Partitions : Base(q)' = Base(q)
            \/ \E p \in Partitions : Popped(p) /\ (Handle(p) \/ LoseRequest(p))
<1>1. ASSUME QuietPipe PROVE Pipelined' /\ \A q \in Partitions : Base(q)' = Base(q)
  BY <1>1, QuietPiped
<1>2. Control \/ UNCHANGED vars => QuietPipe
  BY ControlFrame DEF QuietPipe, producerVars, vars
<1>3. ASSUME NEW t \in Topics, Deleted(t) PROVE QuietPipe
  BY <1>3 DEF Deleted, QuietPipe, producerVars
<1>4. ASSUME Push PROVE QuietPipe
  <2>1. /\ made' = made + 1 /\ made < Total /\ made \in Nat
        /\ fut' = [j \in Records |-> IF j = made + 1 THEN "pushed" ELSE fut[j]]
    BY <1>4, PushedSend
  <2>2. fut[made + 1] = "none"
    BY <2>1, Limits DEF Polled, Records
  <2>3. UNCHANGED <<is_durable, slot, nextSeq, queue, wire>>
    BY <1>4 DEF Push, producerVars
  <2> QED
    BY <2>1, <2>2, <2>3 DEF QuietPipe
<1>5. ASSUME NEW i \in Records, SendFails(i) \/ TakeResolved(i) PROVE QuietPipe
  <2>1. UNCHANGED <<is_durable, slot, nextSeq, queue, wire>>
    BY <1>5 DEF SendFails, TakeResolved, producerVars
  <2>2. \/ fut[i] = "pushed" /\ fut' = [fut EXCEPT ![i] = "resolved"]
        \/ fut[i] = "resolved" /\ fut' = [fut EXCEPT ![i] = "done"]
    BY <1>5 DEF SendFails, TakeResolved, NextToPoll
  <2> QED
    BY <2>1, <2>2 DEF QuietPipe, Types
<1>6. ASSUME NEW p \in Partitions, LoseRequest(p) PROVE Popped(p)
  <2>1. /\ ~is_durable /\ wire[p] # <<>> /\ wire' = [wire EXCEPT ![p] = Tail(@)]
        /\ UNCHANGED <<is_durable, fut, slot, nextSeq, queue>>
    BY <1>6 DEF LoseRequest
  <2> QED
    BY <2>1 DEF Popped
<1>7. ASSUME NEW p \in Partitions, Handle(p) PROVE Popped(p) \/ QuietPipe
  <2>1. UNCHANGED <<is_durable, slot, nextSeq, queue>> /\ wire[p] # <<>>
    BY <1>7, Zenon DEF Handle
  <2>2. Answered(p) \/ UNCHANGED <<wire, fut>>
    BY <1>7, Zenon DEF Handle
  <2>3. CASE Answered(p)
    <3>1. wire' = [wire EXCEPT ![p] = Tail(@)]
      BY <2>3, Zenon DEF Answered
    <3>2. fut' = IF is_durable THEN [fut EXCEPT ![Head(wire[p])] = "resolved"] ELSE fut
      BY <2>3, Zenon DEF Answered
    <3> QED
      BY <2>1, <3>1, <3>2, Zenon DEF Popped
  <2>4. CASE UNCHANGED <<wire, fut>>
    BY <2>1, <2>4 DEF QuietPipe
  <2> QED
    BY <2>2, <2>3, <2>4
<1>8. ASSUME NEW i \in Records, TakeSequence(i) \/ Enqueue(i)
      PROVE  Pipelined' /\ \A q \in Partitions : Base(q)' = Base(q)
  BY <1>8, SequencedPipe, EnqueuePipe
<1>9. ASSUME NEW p \in Partitions, Transmit(p)
      PROVE  Pipelined' /\ \A q \in Partitions : Base(q)' = Base(q)
  BY <1>9, TransmitPipe
<1>10. ASSUME NEW p \in Partitions, Popped(p) PROVE Pipelined'
  BY <1>10, PoppedPipe
<1> QED
  BY <1>1, <1>2, <1>3, <1>4, <1>5, <1>6, <1>7, <1>8, <1>9, <1>10, Kinds, Zenon

-----------------------------------------------------------------------------
(* The log and the numbers the broker expects.                             *)

LEMMA SlotsKept ==
  ASSUME Types, Numbered, Pipelined, [Next]_vars
  PROVE  \A i \in Records : HasSlot(i) => slot'[i] = slot[i]
<1>1. ASSUME NEW i \in Records, TakeSequence(i)
      PROVE  \A j \in Records : HasSlot(j) => slot'[j] = slot[j]
  <2>1. \A j \in Records : j # i => slot'[j] = slot[j]
    BY <1>1, SequencedSend
  <2>2. ~HasSlot(i)
    BY <1>1 DEF TakeSequence, NextToPoll, Numbered, Past
  <2> QED
    BY <2>1, <2>2
<1>2. ASSUME NEW i \in Records, SendFails(i) PROVE slot' = slot
  BY <1>2 DEF SendFails, producerVars
<1>3. Push => slot' = slot
  BY DEF Push, producerVars
<1>4. ASSUME NEW i \in Records, NEW v \in {"queued", "resolved", "done"}, Moved(i, v)
      PROVE  slot' = slot
  BY <1>4 DEF Moved
<1> QED
  BY <1>1, <1>2, <1>3, <1>4, Moves

\* Only the broker's answers and the deletion of the topic change the log.
LEMMA LogFrame ==
  ASSUME [Next]_vars
  PROVE  \/ \E p \in Partitions : Handle(p)
         \/ UNCHANGED <<is_durable, log, expected, refused>>
         \/ /\ deleting # {} /\ UNCHANGED <<is_durable, made, fut, slot, expected, refused>>
            /\ log' = [p \in Partitions |-> <<>>]
<1>1. Control \/ Push \/ UNCHANGED vars => UNCHANGED <<is_durable, log, expected, refused>>
  BY ControlFrame DEF Push, brokerVars, vars
<1>2. ASSUME NEW i \in Records,
             TakeSequence(i) \/ SendFails(i) \/ Enqueue(i) \/ TakeResolved(i)
      PROVE  UNCHANGED <<is_durable, log, expected, refused>>
  BY <1>2 DEF TakeSequence, SendFails, Enqueue, TakeResolved, brokerVars
<1>3. ASSUME NEW t \in Topics, Deleted(t)
      PROVE  \/ UNCHANGED <<is_durable, log, expected, refused>>
             \/ /\ deleting # {} /\ UNCHANGED <<is_durable, made, fut, slot, expected, refused>>
                /\ log' = [p \in Partitions |-> <<>>]
  BY <1>3 DEF Deleted, producerVars
<1>4. ASSUME NEW p \in Partitions, Transmit(p) \/ LoseRequest(p)
      PROVE  UNCHANGED <<is_durable, log, expected, refused>>
  BY <1>4 DEF Transmit, LoseRequest, brokerVars
<1> QED
  BY <1>1, <1>2, <1>3, <1>4, Kinds

\* What the broker does with the request at the head of a partition.
AppendedHead(p) ==
    /\ is_durable => expected[p] = Base(p)
    /\ log' = [log EXCEPT ![p] = Append(@, Head(wire[p]))]
    /\ expected' = [expected EXCEPT ![p] = Base(p) + 1]
    /\ Popped(p) \/ (is_durable /\ UNCHANGED <<wire, fut>>)
    /\ refused' = refused

RepeatedHead(p) ==
    /\ is_durable /\ expected[p] # Base(p) /\ Popped(p)
    /\ UNCHANGED <<log, expected>>
    /\ ~(Base(p) > expected[p]) => refused' = refused

LEMMA HandleCases ==
  ASSUME Types, Pipelined, NEW p \in Partitions, Handle(p)
  PROVE  /\ AppendedHead(p) \/ RepeatedHead(p)
         /\ wire[p] # <<>> /\ UNCHANGED <<is_durable, made, slot, nextSeq, queue>>
<1>1. wire[p] # <<>> /\ UNCHANGED <<is_durable, made, slot, nextSeq, queue>>
  BY Zenon DEF Handle
<1>2. slot[Head(wire[p])][2] = Base(p)
  BY <1>1, WireHead
<1>3. Answered(p) => Popped(p)
  <2>1. Answered(p) => /\ wire' = [wire EXCEPT ![p] = Tail(@)]
                       /\ fut' = IF is_durable THEN [fut EXCEPT ![Head(wire[p])] = "resolved"]
                                 ELSE fut
    BY Zenon DEF Answered
  <2> QED
    BY <1>1, <2>1, Zenon DEF Popped
<1>4. CASE ~is_durable \/ slot[Head(wire[p])][2] = expected[p]
  <2>1. /\ log' = [log EXCEPT ![p] = Append(@, Head(wire[p]))]
        /\ expected' = [expected EXCEPT ![p] = slot[Head(wire[p])][2] + 1]
        /\ Answered(p) \/ (is_durable /\ UNCHANGED <<wire, fut>>)
        /\ refused' = refused
    BY <1>4, Zenon DEF Handle, Idempotent
  <2>2. is_durable => expected[p] = Base(p)
    BY <1>2, <1>4, Zenon
  <2>3. expected' = [expected EXCEPT ![p] = Base(p) + 1]
    BY <1>2, <2>1, Zenon
  <2>4. AppendedHead(p)
    BY <1>3, <2>1, <2>2, <2>3, Zenon DEF AppendedHead
  <2> QED
    BY <1>1, <2>4, Zenon
<1>5. CASE is_durable /\ slot[Head(wire[p])][2] # expected[p]
  <2>1. /\ UNCHANGED <<log, expected>> /\ Answered(p)
        /\ refused' = IF slot[Head(wire[p])][2] > expected[p]
                      THEN refused \cup {Head(wire[p])} ELSE refused
    BY <1>5, Zenon DEF Handle, Idempotent
  <2>2. ~(Base(p) > expected[p]) => refused' = refused
    BY <1>2, <2>1, Zenon
  <2>3. RepeatedHead(p)
    BY <1>2, <1>3, <1>5, <2>1, <2>2, Zenon DEF RepeatedHead
  <2> QED
    BY <1>1, <2>3, Zenon
<1> QED
  BY <1>4, <1>5, Zenon

\* The numbers the log may hold only grow.
LEMMA HandledGrows ==
  ASSUME Types, Polled, Numbered, Pipelined, [Next]_vars, NEW p \in Partitions,
         is_durable' = is_durable, expected'[p] >= expected[p] \/ ~is_durable
  PROVE  Handled(p)' >= Handled(p) /\ Handled(p) \in Int /\ Handled(p)' \in Int
<1>1. Base(p)' \in Int /\ Base(p)' >= Base(p) /\ Base(p) \in Int
  <2>1. Base(p) \in Int
    BY Lengths
  <2>2. ASSUME NEW q \in Partitions, Popped(q) PROVE Base(p)' \in {Base(p), Base(p) + 1}
    BY <2>2, PoppedPipe
  <2>3. Base(p)' \in {Base(p), Base(p) + 1}
    BY <2>2, PipedStep
  <2> QED
    BY <2>1, <2>3
<1>2. expected[p] \in Int /\ expected'[p] \in Int
  <2>1. Types'
    BY TypesStep
  <2> QED
    BY <2>1 DEF Types
<1>3. CASE is_durable
  <2>1. Handled(p) = expected[p] /\ Handled(p)' = expected'[p]
    BY <1>3 DEF Handled
  <2> QED
    BY <1>2, <1>3, <2>1
<1>4. CASE ~is_durable
  <2>1. Handled(p) = Base(p) /\ Handled(p)' = Base(p)'
    BY <1>4, Zenon DEF Handled
  <2> QED
    BY <1>1, <2>1
<1> QED
  BY <1>3, <1>4

\* A partition whose log a step leaves alone.
LEMMA SameLog ==
  ASSUME Types, Polled, Numbered, Pipelined, Logged, [Next]_vars, NEW p \in Partitions,
         is_durable' = is_durable, expected'[p] >= expected[p] \/ ~is_durable,
         log'[p] = log[p]
  PROVE  Stored(p)'
<1>1. ASSUME NEW a \in 1 .. Len(log[p]), log[p][a] # Old
      PROVE  /\ HasSlot(log[p][a]) /\ slot'[log[p][a]] = slot[log[p][a]]
             /\ slot[log[p][a]][1] = p /\ slot[log[p][a]][2] < Handled(p)
             /\ slot[log[p][a]][2] \in Nat
  <2>1. log[p][a] \in Records
    BY <1>1, Lengths
  <2>2. /\ HasSlot(log[p][a]) /\ slot[log[p][a]][1] = p /\ slot[log[p][a]][2] < Handled(p)
    BY <1>1 DEF Logged, Stored, HasSlot
  <2> QED
    BY <2>1, <2>2, SlotsKept, SlotValue
<1>2. Handled(p)' >= Handled(p) /\ Handled(p) \in Int /\ Handled(p)' \in Int
  BY HandledGrows
<1>3. ASSUME NEW a \in 1 .. Len(log[p]), log[p][a] # Old
      PROVE  /\ slot'[log[p][a]] # <<>> /\ slot'[log[p][a]][1] = p
             /\ slot'[log[p][a]][2] < Handled(p)'
  BY <1>1, <1>2, <1>3 DEF HasSlot
<1>4. ASSUME NEW a \in 1 .. Len(log[p]), NEW b \in 1 .. Len(log[p]),
             a < b, log[p][a] # Old, log[p][b] # Old
      PROVE  slot'[log[p][a]][2] < slot'[log[p][b]][2]
  <2>1. slot[log[p][a]][2] < slot[log[p][b]][2]
    BY <1>4 DEF Logged, Stored, HasSlot
  <2> QED
    BY <1>1, <1>4, <2>1
<1> QED
  BY <1>3, <1>4 DEF Stored

LEMMA LoggedStep ==
  ASSUME Types, Polled, Numbered, Pipelined, Logged, [Next]_vars
  PROVE  Logged'
<1>1. CASE UNCHANGED <<is_durable, log, expected, refused>>
  <2> SUFFICES ASSUME NEW p \in Partitions PROVE Stored(p)'
    BY DEF Logged
  <2>1. is_durable' = is_durable /\ expected'[p] = expected[p] /\ log'[p] = log[p]
    BY <1>1
  <2>2. expected'[p] >= expected[p]
    BY <2>1, Lengths
  <2> QED
    BY <2>1, <2>2, SameLog
<1>2. CASE log' = [p \in Partitions |-> <<>>]
  BY <1>2 DEF Logged, Stored
<1>3. ASSUME NEW p \in Partitions, Handle(p) PROVE Logged'
  <2>1. /\ wire[p] # <<>> /\ UNCHANGED <<is_durable, made, slot, nextSeq, queue>>
        /\ AppendedHead(p) \/ RepeatedHead(p)
    BY <1>3, HandleCases
  <2>2. CASE RepeatedHead(p)
    <3>1. is_durable' = is_durable /\ expected' = expected /\ log' = log
      BY <2>1, <2>2 DEF RepeatedHead
    <3>2. \A q \in Partitions : expected'[q] >= expected[q]
      BY <3>1, Lengths
    <3>3. \A q \in Partitions : Stored(q)'
      BY <3>1, <3>2, SameLog
    <3> QED
      BY <3>3 DEF Logged
  <2>3. CASE AppendedHead(p)
    <3>0. PICK h \in Records, n \in Nat, m \in Nat :
            h = Head(wire[p]) /\ n = Base(p) /\ m = Len(log[p])
      BY <2>1, WireHead, Lengths
    <3>1. /\ slot[h] = <<p, n>> /\ slot[h][1] = p /\ slot[h][2] = n /\ slot[h] # <<>>
      BY <2>1, <3>0, WireHead DEF HasSlot
    <3>2. /\ log' = [log EXCEPT ![p] = Append(@, h)] /\ expected' = [expected EXCEPT ![p] = n + 1]
          /\ is_durable => expected[p] = n
      BY <2>3, <3>0, Zenon DEF AppendedHead
    <3>3. \A q \in Partitions : expected'[q] >= expected[q] \/ ~is_durable
      <4> SUFFICES ASSUME NEW q \in Partitions PROVE expected'[q] >= expected[q] \/ ~is_durable
        OBVIOUS
      <4>1. CASE q = p
        <5>1. expected'[p] = n + 1 /\ (is_durable => expected[p] = n)
          BY <3>2 DEF Types
        <5>2. CASE is_durable
          BY <4>1, <5>1, <5>2
        <5>3. CASE ~is_durable
          BY <5>3
        <5> QED
          BY <5>2, <5>3
      <4>2. CASE q # p
        <5>1. expected'[q] = expected[q] /\ expected[q] \in Nat
          BY <3>2, <4>2 DEF Types
        <5> QED
          BY <5>1
      <4> QED
        BY <4>1, <4>2
    <3>4. ASSUME NEW q \in Partitions, q # p PROVE Stored(q)'
      <4>1. log'[q] = log[q]
        BY <3>2, <3>4 DEF Types
      <4> QED
        BY <2>1, <3>3, <4>1, SameLog
    <3>5. /\ Handled(p)' = n + 1 /\ Handled(p) = n
      <4>1. CASE is_durable
        <5>1. is_durable' /\ expected'[p] = n + 1 /\ expected[p] = n
          BY <2>1, <3>2, <4>1 DEF Types
        <5> QED
          BY <4>1, <5>1, Zenon DEF Handled
      <4>2. CASE ~is_durable
        <5>1. Popped(p) /\ ~is_durable'
          BY <2>1, <2>3, <4>2, Zenon DEF AppendedHead
        <5>2. Base(p)' = n + 1
          BY <3>0, <5>1, PoppedPipe
        <5> QED
          BY <3>0, <4>2, <5>1, <5>2, Zenon DEF Handled
      <4> QED
        BY <4>1, <4>2
    <3>6. /\ Len(log'[p]) = m + 1 /\ log'[p][m + 1] = h
          /\ \A a \in 1 .. m : log'[p][a] = log[p][a] /\ log[p][a] \in Records \cup {Old}
      <4>1. log[p] \in Seq(Records \cup {Old}) /\ h \in Records \cup {Old}
            /\ \A a \in 1 .. Len(log[p]) : log[p][a] \in Records \cup {Old}
        BY Lengths
      <4>2. log'[p] = Append(log[p], h)
        BY <3>2 DEF Types
      <4> QED
        BY <3>0, <4>1, <4>2, Appended
    <3>7. ASSUME NEW a \in 1 .. m, log[p][a] # Old
          PROVE  /\ slot[log[p][a]] # <<>> /\ slot[log[p][a]][1] = p
                 /\ slot[log[p][a]][2] < n /\ slot[log[p][a]][2] \in Nat
      <4>1. /\ slot[log[p][a]] # <<>> /\ slot[log[p][a]][1] = p /\ slot[log[p][a]][2] < n
        BY <3>0, <3>5, <3>7 DEF Logged, Stored
      <4>2. log[p][a] \in Records
        BY <3>6, <3>7
      <4> QED
        BY <4>1, <4>2, SlotValue DEF HasSlot
    <3>8. ASSUME NEW a \in 1 .. m + 1, log'[p][a] # Old
          PROVE  /\ slot[log'[p][a]] # <<>> /\ slot[log'[p][a]][1] = p
                 /\ slot[log'[p][a]][2] < n + 1
      <4>1. CASE a = m + 1
        <5>1. log'[p][a] = h
          BY <3>6, <4>1
        <5>2. n < n + 1
          OBVIOUS
        <5> QED
          BY <3>1, <5>1, <5>2
      <4>2. CASE a \in 1 .. m
        BY <3>6, <3>7, <3>8, <4>2
      <4> QED
        BY <4>1, <4>2
    <3>9. ASSUME NEW a \in 1 .. m + 1, NEW b \in 1 .. m + 1, a < b,
                 log'[p][a] # Old, log'[p][b] # Old
          PROVE  slot[log'[p][a]][2] < slot[log'[p][b]][2]
      <4>1. a \in 1 .. m
        BY <3>9
      <4>2. CASE b = m + 1
        BY <3>1, <3>6, <3>7, <3>9, <4>1, <4>2
      <4>3. CASE b \in 1 .. m
        BY <3>0, <3>6, <3>9, <4>1, <4>3 DEF Logged, Stored
      <4> QED
        BY <4>2, <4>3
    <3>10. Stored(p)'
      <4>1. slot' = slot /\ Len(log'[p]) = m + 1 /\ Handled(p)' = n + 1
        BY <2>1, <3>5, <3>6
      <4> QED
        BY <3>8, <3>9, <4>1 DEF Stored
    <3> QED
      BY <3>4, <3>10 DEF Logged
  <2> QED
    BY <2>1, <2>2, <2>3
<1> QED
  BY <1>1, <1>2, <1>3, LogFrame

-----------------------------------------------------------------------------
(* Durable mode: what was acknowledged is in the log.                      *)

LEMMA MadeGrows ==
  ASSUME Types, Numbered, Pipelined, [Next]_vars
  PROVE  made' = 0 => made = 0
<1>1. Push => made' = made + 1 /\ made \in Nat
  BY PushedSend
<1>2. ASSUME NEW i \in Records, TakeSequence(i) \/ SendFails(i) PROVE made' = made
  BY <1>2 DEF TakeSequence, SendFails
<1>3. ASSUME NEW i \in Records, NEW v \in {"queued", "resolved", "done"}, Moved(i, v)
      PROVE  made' = made
  BY <1>3 DEF Moved
<1> QED
  BY <1>1, <1>2, <1>3, Moves

\* Until the broker answers, nothing moves up and no more sends are settled.
LEMMA Unanswered ==
  ASSUME Types, Polled, Numbered, Pipelined, [Next]_vars, is_durable,
         \A p \in Partitions : ~Handle(p)
  PROVE  /\ \A p \in Partitions :
              Base(p)' = Base(p) /\ (wire[p] # <<>> => wire'[p] # <<>>)
         /\ \A i \in Records : slot'[i] # <<>> /\ fut'[i] \in {"resolved", "done"} =>
              slot'[i] = slot[i] /\ fut[i] \in {"resolved", "done"}
<1>1. \A p \in Partitions : Base(p)' = Base(p)
  <2>1. \A p \in Partitions : ~LoseRequest(p)
    BY DEF LoseRequest
  <2> QED
    BY <2>1, PipedStep
<1>2. ASSUME UNCHANGED <<fut, slot, wire>>
      PROVE  /\ \A p \in Partitions : wire[p] # <<>> => wire'[p] # <<>>
             /\ \A i \in Records : slot'[i] # <<>> /\ fut'[i] \in {"resolved", "done"} =>
                  slot'[i] = slot[i] /\ fut[i] \in {"resolved", "done"}
  BY <1>2
<1>3. Control \/ UNCHANGED vars => UNCHANGED <<fut, slot, wire>>
  BY ControlFrame DEF producerVars, vars
<1>4. ASSUME NEW t \in Topics, Deleted(t) PROVE UNCHANGED <<fut, slot, wire>>
  BY <1>4 DEF Deleted, producerVars
<1>5. ASSUME NEW i \in Records,
             TakeSequence(i) \/ SendFails(i) \/ Enqueue(i) \/ TakeResolved(i)
      PROVE  /\ wire' = wire
             /\ \A j \in Records : slot'[j] # <<>> /\ fut'[j] \in {"resolved", "done"} =>
                  slot'[j] = slot[j] /\ fut[j] \in {"resolved", "done"}
  <2>1. wire' = wire
    BY <1>5 DEF TakeSequence, SendFails, Enqueue, TakeResolved, producerVars
  <2>2. CASE TakeSequence(i)
    <3>1. \A j \in Records : j # i => slot'[j] = slot[j]
      BY <2>2, SequencedSend
    <3>2. fut' = [fut EXCEPT ![i] = "sequenced"]
      BY <2>2 DEF TakeSequence
    <3> QED
      BY <2>1, <3>1, <3>2 DEF Types
  <2>3. CASE SendFails(i)
    <3>1. slot' = slot /\ fut' = [fut EXCEPT ![i] = "resolved"] /\ fut[i] = "pushed"
      BY <2>3 DEF SendFails, producerVars, NextToPoll
    <3>2. slot[i] = <<>>
      BY <3>1 DEF Numbered, Past, HasSlot
    <3> QED
      BY <2>1, <3>1, <3>2 DEF Types
  <2>4. CASE Enqueue(i)
    BY <2>1, <2>4 DEF Enqueue, Types
  <2>5. CASE TakeResolved(i)
    BY <2>1, <2>5 DEF TakeResolved, producerVars, Types
  <2> QED
    BY <1>5, <2>2, <2>3, <2>4, <2>5
<1>6. ASSUME Push
      PROVE  /\ wire' = wire
             /\ \A j \in Records : slot'[j] # <<>> /\ fut'[j] \in {"resolved", "done"} =>
                  slot'[j] = slot[j] /\ fut[j] \in {"resolved", "done"}
  <2>1. wire' = wire /\ slot' = slot
    BY <1>6 DEF Push, producerVars
  <2>2. fut' = [j \in Records |-> IF j = made + 1 THEN "pushed" ELSE fut[j]]
    BY <1>6, PushedSend
  <2> QED
    BY <2>1, <2>2
<1>7. ASSUME NEW p \in Partitions, Transmit(p)
      PROVE  /\ \A q \in Partitions : wire[q] # <<>> => wire'[q] # <<>>
             /\ fut' = fut /\ slot' = slot
  <2>1. /\ slot' = slot /\ wire' = [wire EXCEPT ![p] = Append(@, Head(queue[p]))]
        /\ queue[p] # <<>>
        /\ fut' = IF is_durable THEN fut ELSE [fut EXCEPT ![Head(queue[p])] = "resolved"]
    BY <1>7 DEF Transmit
  <2>2. fut' = fut
    BY <2>1, Zenon
  <2>3. wire'[p] # <<>>
    <3>1. wire'[p] = Append(wire[p], Head(queue[p]))
      BY <2>1 DEF Types
    <3>2. wire[p] \in Seq(Records) /\ Head(queue[p]) \in Records
      BY <2>1, Lengths, QueueHead
    <3>3. Len(wire[p]) \in Nat /\ Len(wire'[p]) = Len(wire[p]) + 1
      BY <3>1, <3>2, Appended
    <3>4. Len(<<>>) = 0
      OBVIOUS
    <3> QED
      BY <3>3, <3>4
  <2>4. \A q \in Partitions : q # p => wire'[q] = wire[q]
    BY <2>1 DEF Types
  <2> QED
    BY <2>1, <2>2, <2>3, <2>4
<1>8. \A p \in Partitions : ~LoseRequest(p)
  BY DEF LoseRequest
<1> QED
  BY <1>1, <1>2, <1>3, <1>4, <1>5, <1>6, <1>7, <1>8, Kinds

LEMMA SameComplete ==
  ASSUME Types, Numbered, Pipelined, Logged, [Next]_vars, NEW p \in Partitions,
         log'[p] = log[p], expected'[p] = expected[p], NoOld(p) => Complete(p)
  PROVE  (NoOld(p) => Complete(p))'
<1> SUFFICES ASSUME NoOld(p)' PROVE Complete(p)'
  OBVIOUS
<1>1. NoOld(p)
  BY DEF NoOld
<1>2. ASSUME NEW a \in 1 .. Len(log[p]) PROVE slot'[log[p][a]] = slot[log[p][a]]
  <2>1. log[p][a] \in Records
    BY <1>1, Lengths DEF NoOld
  <2>2. slot[log[p][a]] # <<>>
    BY <1>1, <1>2 DEF Logged, Stored, NoOld
  <2> QED
    BY <2>1, <2>2, SlotsKept DEF HasSlot
<1> QED
  BY <1>1, <1>2 DEF Complete

\* The effect of an answer on the head of a partition, in durable mode.
LEMMA AnsweredHead ==
  ASSUME Types, Pipelined, is_durable, NEW p \in Partitions, Handle(p), Prompt(p)
  PROVE  /\ is_durable' /\ refused' = refused /\ Prompt(p)'
         /\ \/ expected'[p] = Base(p) + 1 /\ expected[p] = Base(p) /\ AppendedHead(p)
            \/ expected'[p] = expected[p] /\ expected[p] = Base(p) + 1 /\ log' = log
         /\ \A q \in Partitions \ {p} :
              /\ Base(q)' = Base(q) /\ wire'[q] = wire[q] /\ expected'[q] = expected[q]
              /\ log'[q] = log[q]
         /\ slot' = slot /\ made' = made
         /\ \A i \in Records : i # Head(wire[p]) => fut'[i] = fut[i]
<1>1. /\ wire[p] # <<>> /\ UNCHANGED <<is_durable, made, slot, nextSeq, queue>>
      /\ AppendedHead(p) \/ RepeatedHead(p)
  BY HandleCases
<1>2. Base(p) \in Int
  BY Lengths
<1>3. ASSUME Popped(p)
      PROVE  /\ Base(p)' = Base(p) + 1
             /\ \A q \in Partitions \ {p} : Base(q)' = Base(q) /\ wire'[q] = wire[q]
             /\ \A i \in Records : i # Head(wire[p]) => fut'[i] = fut[i]
  <2>1. /\ Base(p)' = Base(p) + 1 /\ \A q \in Partitions \ {p} : Base(q)' = Base(q)
    BY <1>3, PoppedPipe
  <2>2. /\ wire' = [wire EXCEPT ![p] = Tail(@)]
        /\ fut' = [fut EXCEPT ![Head(wire[p])] = "resolved"]
    BY <1>3 DEF Popped
  <2> QED
    BY <2>1, <2>2 DEF Types
<1>4. ASSUME UNCHANGED <<wire, fut>>
      PROVE  /\ \A q \in Partitions : Base(q)' = Base(q)
             /\ \A q \in Partitions \ {p} : wire'[q] = wire[q]
             /\ \A i \in Records : i # Head(wire[p]) => fut'[i] = fut[i]
  <2>1. QuietPipe
    BY <1>1, <1>4 DEF QuietPipe
  <2> QED
    BY <1>4, <2>1, QuietPiped
<1>5. CASE AppendedHead(p)
  <2>1. /\ expected[p] = Base(p) /\ refused' = refused
        /\ expected' = [expected EXCEPT ![p] = Base(p) + 1]
        /\ log' = [log EXCEPT ![p] = Append(@, Head(wire[p]))]
        /\ Popped(p) \/ UNCHANGED <<wire, fut>>
    BY <1>5 DEF AppendedHead
  <2>2. expected'[p] = Base(p) + 1
    BY <2>1 DEF Types
  <2>3. \A q \in Partitions \ {p} : expected'[q] = expected[q] /\ log'[q] = log[q]
    BY <2>1 DEF Types
  <2>4. Prompt(p)'
    <3>1. CASE Popped(p)
      BY <1>3, <2>2, <3>1 DEF Prompt
    <3>2. CASE UNCHANGED <<wire, fut>>
      <4>1. Base(p)' = Base(p) /\ wire'[p] # <<>>
        BY <1>1, <1>4, <3>2
      <4> QED
        BY <2>2, <4>1 DEF Prompt
    <3> QED
      BY <2>1, <3>1, <3>2
  <2> QED
    BY <1>1, <1>3, <1>4, <1>5, <2>1, <2>2, <2>3, <2>4
<1>6. CASE RepeatedHead(p)
  <2>1. /\ expected[p] # Base(p) /\ Popped(p) /\ UNCHANGED <<log, expected>>
        /\ ~(Base(p) > expected[p]) => refused' = refused
    BY <1>6 DEF RepeatedHead
  <2>2. expected[p] = Base(p) + 1
    BY <2>1 DEF Prompt
  <2>3. refused' = refused
    BY <1>2, <2>1, <2>2
  <2>4. expected'[p] = Base(p)'
    BY <1>3, <2>1, <2>2
  <2> QED
    BY <1>1, <1>3, <2>1, <2>2, <2>3, <2>4 DEF Prompt
<1> QED
  BY <1>1, <1>5, <1>6

LEMMA AcknowledgedStep ==
  ASSUME Types, Fresh, Polled, Numbered, Pipelined, Logged, Acknowledged, [Next]_vars
  PROVE  Acknowledged'
<1>1. CASE ~is_durable
  <2>1. is_durable' = is_durable
    BY LogFrame, HandleCases
  <2> QED
    BY <1>1, <2>1, Zenon DEF Acknowledged
<1>2. ASSUME is_durable, NEW p \in Partitions, Handle(p) PROVE Acknowledged'
  <2> SUFFICES ASSUME NEW q \in Partitions
               PROVE  /\ Prompt(q)' /\ Settled(q)' /\ (NoOld(q) => Complete(q))'
                      /\ made' = 0 => expected'[q] = 0
    BY DEF Acknowledged
  <2>1. /\ Prompt(q) /\ Settled(q) /\ (NoOld(q) => Complete(q)) /\ (made = 0 => expected[q] = 0)
        /\ Prompt(p)
    BY <1>2 DEF Acknowledged
  <2>2. /\ Prompt(p)' /\ slot' = slot /\ made' = made
        /\ \/ expected'[p] = Base(p) + 1 /\ expected[p] = Base(p) /\ AppendedHead(p)
           \/ expected'[p] = expected[p] /\ expected[p] = Base(p) + 1 /\ log' = log
        /\ q # p => /\ Base(q)' = Base(q) /\ wire'[q] = wire[q] /\ expected'[q] = expected[q]
                    /\ log'[q] = log[q]
        /\ \A i \in Records : i # Head(wire[p]) => fut'[i] = fut[i]
    BY <1>2, <2>1, AnsweredHead
  <2>3. /\ wire[p] # <<>> /\ Head(wire[p]) \in Records /\ slot[Head(wire[p])] # <<>>
        /\ slot[Head(wire[p])][1] = p /\ slot[Head(wire[p])][2] = Base(p) /\ Base(p) \in Nat
        /\ fut[Head(wire[p])] = "queued"
    BY <1>2, HandleCases, WireHead DEF HasSlot
  <2>4. Prompt(q)'
    BY <2>1, <2>2 DEF Prompt
  <2>5. Settled(q)'
    <3> SUFFICES ASSUME NEW i \in Records, slot'[i] # <<>>, slot'[i][1] = q,
                        fut'[i] \in {"resolved", "done"}
                 PROVE  slot'[i][2] < expected'[q]
      BY DEF Settled, HasSlot
    <3>1. CASE i = Head(wire[p])
      <4>1. q = p /\ slot'[i][2] = Base(p) /\ expected'[p] = Base(p) + 1
        BY <2>2, <2>3, <3>1
      <4> QED
        BY <2>3, <4>1
    <3>2. CASE i # Head(wire[p])
      <4>1. slot[i][2] < expected[q]
        BY <2>1, <2>2, <3>2 DEF Settled, HasSlot
      <4>2. slot[i][2] \in Nat /\ expected[q] \in Nat
        BY <2>2, SlotValue, Lengths DEF HasSlot
      <4>3. expected'[q] \in {expected[q], expected[q] + 1}
        BY <2>2
      <4> QED
        BY <2>2, <4>1, <4>2, <4>3
    <3> QED
      BY <3>1, <3>2
  <2>6. (NoOld(q) => Complete(q))'
    <3>1. CASE log'[q] = log[q] /\ expected'[q] = expected[q]
      BY <2>1, <3>1, SameComplete
    <3>2. CASE q = p /\ expected'[p] = Base(p) + 1 /\ expected[p] = Base(p) /\ AppendedHead(p)
      <4>0. PICK h \in Records, m \in Nat : h = Head(wire[p]) /\ m = Len(log[p])
        BY <2>3, Lengths
      <4>1. log' = [log EXCEPT ![p] = Append(@, h)]
        BY <3>2, <4>0 DEF AppendedHead
      <4>2. log'[p] = Append(log[p], h)
        BY <4>1 DEF Types
      <4>3. /\ Len(log'[p]) = m + 1 /\ log'[p][m + 1] = h
            /\ \A a \in 1 .. m : log'[p][a] = log[p][a]
        <5>1. log[p] \in Seq(Records \cup {Old}) /\ h \in Records \cup {Old}
          BY Lengths
        <5> QED
          BY <4>0, <4>2, <5>1, Appended
      <4>4. ASSUME NoOld(p)' PROVE Complete(p)'
        <5>1. NoOld(p)
          <6>1. ASSUME NEW a \in 1 .. Len(log[p]) PROVE log[p][a] # Old
            <7>1. a \in 1 .. m /\ a \in 1 .. m + 1
              BY <4>0, <6>1
            <7> QED
              BY <4>3, <4>4, <7>1 DEF NoOld
          <6> QED
            BY <6>1 DEF NoOld
        <5>2. m = Base(p) /\ \A a \in 1 .. m : slot[log[p][a]][2] = a - 1
          BY <2>1, <3>2, <4>0, <5>1 DEF Complete
        <5>3. Len(log'[p]) = expected'[p]
          BY <3>2, <4>3, <5>2
        <5>4. ASSUME NEW a \in 1 .. m + 1 PROVE slot[log'[p][a]][2] = a - 1
          <6>1. CASE a = m + 1
            <7>1. log'[p][a] = h /\ slot[h][2] = m
              BY <2>3, <4>0, <4>3, <5>2, <6>1
            <7>2. m = a - 1
              BY <6>1
            <7> QED
              BY <7>1, <7>2
          <6>2. CASE a \in 1 .. m
            BY <4>3, <5>2, <6>2
          <6> QED
            BY <6>1, <6>2
        <5> QED
          BY <2>2, <4>3, <5>3, <5>4 DEF Complete
      <4> QED
        BY <3>2, <4>4
    <3> QED
      BY <2>2, <3>1, <3>2
  <2>7. made' = 0 => expected'[q] = 0
    <3>1. made # 0
      <4>1. Head(wire[p]) \in 1 .. Total /\ ~(Head(wire[p]) > made)
        BY <2>3 DEF Polled, Records
      <4> QED
        BY <4>1, Limits
    <3> QED
      BY <2>2, <3>1
  <2> QED
    BY <2>4, <2>5, <2>6, <2>7
<1>3. CASE is_durable /\ \A p \in Partitions : ~Handle(p)
  <2>1. /\ is_durable' = is_durable /\ expected' = expected
        /\ log' = log \/ (deleting # {} /\ log' = [p \in Partitions |-> <<>>])
    BY <1>3, LogFrame
  <2> SUFFICES ASSUME NEW q \in Partitions
               PROVE  /\ Prompt(q)' /\ Settled(q)' /\ (NoOld(q) => Complete(q))'
                      /\ made' = 0 => expected'[q] = 0
    BY DEF Acknowledged
  <2>2. /\ Prompt(q) /\ Settled(q) /\ (NoOld(q) => Complete(q)) /\ (made = 0 => expected[q] = 0)
    BY <1>3 DEF Acknowledged
  <2>3. /\ Base(q)' = Base(q) /\ (wire[q] # <<>> => wire'[q] # <<>>)
        /\ \A i \in Records : slot'[i] # <<>> /\ fut'[i] \in {"resolved", "done"} =>
              slot'[i] = slot[i] /\ fut[i] \in {"resolved", "done"}
    BY <1>3, Unanswered
  <2>4. Prompt(q)'
    BY <2>1, <2>2, <2>3 DEF Prompt
  <2>5. Settled(q)'
    BY <2>1, <2>2, <2>3 DEF Settled, HasSlot
  <2>6. (NoOld(q) => Complete(q))'
    <3>1. CASE log' = log
      BY <2>1, <2>2, <3>1, SameComplete
    <3>2. CASE deleting # {} /\ log' = [p \in Partitions |-> <<>>]
      <4>1. made \in 0 .. Total /\ ~(made > 0)
        BY <3>2 DEF Fresh, Types
      <4>2. expected'[q] = 0
        BY <2>1, <2>2, <4>1, Limits
      <4>3. log'[q] = <<>> /\ Len(log'[q]) = 0
        BY <3>2
      <4> QED
        BY <4>2, <4>3 DEF Complete
    <3> QED
      BY <2>1, <3>1, <3>2
  <2>7. made' = 0 => expected'[q] = 0
    BY <2>1, <2>2, MadeGrows
  <2> QED
    BY <2>4, <2>5, <2>6, <2>7
<1> QED
  BY <1>1, <1>2, <1>3

LEMMA InSequenceStep ==
  ASSUME Types, Pipelined, Acknowledged, InSequence, [Next]_vars
  PROVE  InSequence'
<1>1. ASSUME NEW p \in Partitions, Handle(p) PROVE refused' = refused
  <2>1. CASE is_durable
    <3>1. Prompt(p)
      BY <2>1 DEF Acknowledged
    <3> QED
      BY <1>1, <2>1, <3>1, AnsweredHead
  <2>2. CASE ~is_durable
    BY <1>1, <2>2, HandleCases, Zenon DEF AppendedHead, RepeatedHead
  <2> QED
    BY <2>1, <2>2
<1> QED
  BY <1>1, LogFrame DEF InSequence

-----------------------------------------------------------------------------
(* The window.                                                             *)

LEMMA InFlightFinite ==
  ASSUME Types
  PROVE  IsFiniteSet(InFlight) /\ Cardinality(InFlight) \in Nat
<1>1. IsFiniteSet(1 .. Total)
  BY FS_Interval, Limits
<1>2. InFlight \subseteq 1 .. Total
  BY DEF InFlight, Records
<1> QED
  BY <1>1, <1>2, FS_Subset, FS_CardinalityType

\* Only a push adds a send to those in flight, only its result removes one.
LEMMA InFlightStays ==
  ASSUME Types, Numbered, Pipelined, [Next]_vars
  PROVE  \/ InFlight' = InFlight
         \/ Push
         \/ \E i \in Records : TakeResolved(i)
<1> DEFINE Open == {"pushed", "sequenced", "queued", "resolved"}
<1>1. ASSUME NEW i \in Records, NEW v \in Open,
             fut[i] \in Open, fut' = [fut EXCEPT ![i] = v]
      PROVE  InFlight' = InFlight
  BY <1>1 DEF InFlight, Types
<1>2. ASSUME NEW i \in Records, TakeSequence(i) \/ SendFails(i) \/ Enqueue(i)
      PROVE  InFlight' = InFlight
  <2>1. /\ fut[i] \in {"pushed", "sequenced"}
        /\ \E v \in {"sequenced", "resolved", "queued"} : fut' = [fut EXCEPT ![i] = v]
    BY <1>2 DEF TakeSequence, SendFails, Enqueue, NextToPoll
  <2> QED
    BY <1>1, <2>1
<1>3. fut' = fut => InFlight' = InFlight
  BY DEF InFlight
<1>4. ASSUME NEW p \in Partitions, Transmit(p) PROVE InFlight' = InFlight
  <2>1. queue[p] # <<>> /\ (fut' = fut \/ fut' = [fut EXCEPT ![Head(queue[p])] = "resolved"])
    BY <1>4, Zenon DEF Transmit
  <2>2. Head(queue[p]) \in Records /\ fut[Head(queue[p])] = "queued"
    BY <2>1, QueueHead
  <2> QED
    BY <1>1, <1>3, <2>1, <2>2
<1>5. ASSUME NEW p \in Partitions, Handle(p) PROVE InFlight' = InFlight
  <2>1. /\ wire[p] # <<>>
        /\ fut' = fut \/ (is_durable /\ fut' = [fut EXCEPT ![Head(wire[p])] = "resolved"])
    BY <1>5, Zenon DEF Handle, Answered
  <2>2. Head(wire[p]) \in Records /\ (is_durable => fut[Head(wire[p])] = "queued")
    <3>1. /\ Head(wire[p]) \in Records
          /\ fut[Head(wire[p])] \in IF is_durable THEN {"queued"} ELSE {"resolved", "done"}
      BY <2>1, WireHead
    <3> QED
      BY <3>1
  <2> QED
    BY <1>1, <1>3, <2>1, <2>2
<1>6. ASSUME NEW p \in Partitions, LoseRequest(p) PROVE fut' = fut
  BY <1>6 DEF LoseRequest
<1>7. ASSUME NEW t \in Topics, Deleted(t) PROVE fut' = fut
  BY <1>7 DEF Deleted
<1>8. Control \/ UNCHANGED vars => fut' = fut
  BY ControlFrame DEF vars
<1> QED
  BY <1>2, <1>3, <1>4, <1>5, <1>6, <1>7, <1>8, Kinds

LEMMA WindowedStep ==
  ASSUME Types, Polled, Numbered, Pipelined, Windowed, [Next]_vars
  PROVE  Windowed'
<1> USE Limits
<1>0. IsFiniteSet(InFlight) /\ Cardinality(InFlight) \in Nat
  BY InFlightFinite
<1>1. CASE Push
  <2>1. /\ made < Total /\ made \in Nat
        /\ fut' = [j \in Records |-> IF j = made + 1 THEN "pushed" ELSE fut[j]]
    BY <1>1, PushedSend
  <2>2. made + 1 \in Records /\ fut[made + 1] = "none" /\ made + 1 \notin InFlight
    BY <1>1, <2>1, PushedSend DEF Polled, Records, InFlight
  <2>3. InFlight' = InFlight \cup {made + 1}
    BY <2>1, <2>2 DEF InFlight
  <2>4. Cardinality(InFlight') = Cardinality(InFlight) + 1
    BY <1>0, <2>2, <2>3, FS_AddElement
  <2>5. Cardinality(InFlight) < Window
        /\ step' = IF Cardinality(InFlight') >= Window THEN "full" ELSE "load"
    BY <1>1 DEF Push, Windowed, WindowFull
  <2>6. Cardinality(InFlight') <= Window
    BY <1>0, <2>4, <2>5
  <2>7. CASE Cardinality(InFlight') >= Window
    BY <2>5, <2>6, <2>7 DEF Windowed
  <2>8. CASE ~(Cardinality(InFlight') >= Window)
    <3>1. Cardinality(InFlight') < Window /\ step' = "load"
      BY <1>0, <2>4, <2>5, <2>8
    <3> QED
      BY <2>6, <3>1 DEF Windowed
  <2> QED
    BY <2>7, <2>8
<1>2. ASSUME NEW i \in Records, TakeResolved(i) PROVE Windowed'
  <2>1. /\ fut[i] = "resolved" /\ fut' = [fut EXCEPT ![i] = "done"]
        /\ step \in {"full", "drain"} /\ step' \in {"load", "drain"}
    BY <1>2 DEF TakeResolved, Awaiting
  <2>2. InFlight' = InFlight \ {i} /\ i \in InFlight
    BY <2>1 DEF InFlight, Types
  <2>3. Cardinality(InFlight') = Cardinality(InFlight) - 1
    BY <1>0, <2>2, FS_RemoveElement
  <2>4. Cardinality(InFlight') < Window /\ Cardinality(InFlight') <= Window
    BY <1>0, <2>3 DEF Windowed
  <2> QED
    BY <2>1, <2>4 DEF Windowed
<1>3. ASSUME InFlight' = InFlight, ~Push, \A i \in Records : ~TakeResolved(i)
      PROVE  Windowed'
  <2>1. \/ step' = step
        \/ step' \in {"create", "leaders", "load"} /\ step \in {"delete", "create", "leaders"}
        \/ step' = "panicked"
        \/ step = "load" /\ step' = "drain"
        \/ step = "drain" /\ step' = "flush" /\ InFlight = {}
        \/ step = "flush" /\ step' = "phase2"
    <3>1. CASE Control
      BY <3>1 DEF Control, DeleteTopics, CreateTopics, LeadersReady, EndLoad, EndDrain, Flush,
        FlushFails, Elect, AfterCreateError, Drained
    <3>2. ASSUME NEW i \in Records, TakeSequence(i) \/ SendFails(i) \/ Enqueue(i)
          PROVE  step' = step
      BY <3>2 DEF TakeSequence, SendFails, Enqueue
    <3>3. ASSUME NEW p \in Partitions, Transmit(p) \/ Handle(p) \/ LoseRequest(p)
          PROVE  step' = step
      BY <3>3, Zenon DEF Transmit, Handle, LoseRequest
    <3>4. ASSUME NEW t \in Topics, Deleted(t) PROVE step' = step
      BY <3>4 DEF Deleted
    <3>5. UNCHANGED vars => step' = step
      BY DEF vars
    <3> QED
      BY <1>3, <3>1, <3>2, <3>3, <3>4, <3>5, Kinds
  <2>2. step' \in {"flush", "phase2"} => InFlight = {}
    BY <2>1 DEF Windowed
  <2>3. step' \notin {"full", "drain", "flush", "phase2", "panicked"} =>
          Cardinality(InFlight) < Window
    BY <2>1 DEF Windowed
  <2>4. Cardinality(InFlight) <= Window
    BY DEF Windowed
  <2> QED
    BY <1>3, <2>2, <2>3, <2>4, Zenon DEF Windowed
<1> QED
  BY <1>1, <1>2, <1>3, InFlightStays, Zenon

LEMMA InductiveStep == Inductive /\ [Next]_vars => Inductive'
<1> SUFFICES ASSUME Inductive, [Next]_vars PROVE Inductive'
  OBVIOUS
<1>1. /\ Types /\ Fresh /\ Polled /\ Numbered /\ Pipelined /\ Logged /\ Acknowledged
      /\ Windowed /\ InSequence
  BY DEF Inductive
<1>2. Types' /\ Fresh'
  BY <1>1, TypesStep, FreshStep
<1>3. Polled' /\ Numbered' /\ Pipelined'
  BY <1>1, PolledStep, NumberedStep, PipedStep
<1>4. Logged' /\ Acknowledged'
  BY <1>1, LoggedStep, AcknowledgedStep
<1>5. Windowed' /\ InSequence'
  BY <1>1, WindowedStep, InSequenceStep
<1> QED
  BY <1>2, <1>3, <1>4, <1>5 DEF Inductive

LEMMA InductiveInvariant == Spec => []Inductive
BY InitInductive, InductiveStep, PTL DEF Spec

-----------------------------------------------------------------------------
(* The properties.                                                         *)

\* Every reachable state is well typed: a record has been pushed exactly when the loop has
\* generated it, and no send is in flight when the flush begins.
THEOREM TypeCorrect == Spec => []TypeOK
<1>1. Init => is_durable \in BOOLEAN
  BY Zenon DEF Init
<1>2. Inductive /\ is_durable \in BOOLEAN /\ [Next]_vars => (is_durable \in BOOLEAN)'
  <2> SUFFICES ASSUME Inductive, is_durable \in BOOLEAN, [Next]_vars
               PROVE  is_durable' \in BOOLEAN
    OBVIOUS
  <2>1. Types /\ Pipelined
    BY DEF Inductive
  <2>2. is_durable' = is_durable
    BY <2>1, LogFrame, HandleCases
  <2> QED
    BY <2>2, Zenon
<1>3. Inductive /\ is_durable \in BOOLEAN => TypeOK
  <2> SUFFICES ASSUME Inductive, is_durable \in BOOLEAN PROVE TypeOK
    OBVIOUS
  <2>1. Types /\ (\A i \in Records : fut[i] = "none" <=> i > made)
        /\ (step \in {"flush", "phase2"} => InFlight = {})
    BY DEF Inductive, Polled, Windowed
  <2> QED
    BY <2>1, Zenon DEF Types, TypeOK
<1> QED
  BY <1>1, <1>2, <1>3, InductiveInvariant, PTL DEF Spec

\* No record is loaded into a topic that still holds records of an earlier run, though what
\* delete_topics answers is ignored, and both topics are there to stay; each that was described
\* when the wait for the leaders ended has its leaders.
THEOREM FreshAndReadyTheorem == Spec => []FreshAndReady
<1>1. Inductive => FreshAndReady
  <2> SUFFICES ASSUME Inductive, Loading
               PROVE  /\ \A p \in Partitions : Old \notin ToSet(log[p])
                      /\ topics = Topics
                      /\ \A t \in described, p \in Partitions : pstate[t][p] = "led"
    BY DEF FreshAndReady
  <2>1. topics = Topics /\ AllReady(described) /\ \A p \in Partitions : NoOld(p)
    BY DEF Inductive, Fresh
  <2>2. ASSUME NEW p \in Partitions PROVE Old \notin ToSet(log[p])
    <3>1. log[p] \in Seq(Records \cup {Old})
      BY Lengths DEF Inductive
    <3>2. DOMAIN log[p] = 1 .. Len(log[p])
      BY <3>1
    <3> QED
      BY <2>1, <3>2 DEF NoOld, ToSet
  <2> QED
    BY <2>1, <2>2 DEF AllReady
<1> QED
  BY <1>1, InductiveInvariant, PTL

\* At most WINDOW sends, and the buffers they own, are unresolved at any time.
THEOREM WindowBoundTheorem == Spec => []WindowBound
<1>1. Inductive => WindowBound
  BY DEF Inductive, Windowed, WindowBound
<1> QED
  BY <1>1, InductiveInvariant, PTL

\* The sequence number a request carries is never ahead of the one the broker expects.
THEOREM InSequenceTheorem == Spec => []InSequence
<1>1. Inductive => InSequence
  BY DEF Inductive
<1> QED
  BY <1>1, InductiveInvariant, PTL

\* Each partition stores its records in the order of the loop that generated them.
THEOREM PushOrderTheorem == Spec => []PushOrder
<1>1. Inductive => PushOrder
  <2> SUFFICES ASSUME Inductive, NEW p \in Partitions,
                      NEW i \in 1 .. Len(log[p]), NEW j \in 1 .. Len(log[p]),
                      i < j, log[p][i] # Old
               PROVE  log[p][i] <= log[p][j]
    BY DEF PushOrder
  <2>1. Types /\ Fresh /\ Polled /\ Numbered /\ Logged
    BY DEF Inductive
  <2>2. log[p][i] \in Records /\ slot[log[p][i]] # <<>> /\ slot[log[p][i]][1] = p
    BY <2>1, Lengths DEF Logged, Stored
  <2>3. log[p][j] # Old
    <3>1. fut[log[p][i]] # "none"
      BY <2>1, <2>2 DEF Numbered, HasSlot, Past
    <3>2. ~(log[p][i] > made) /\ made \in Nat
      BY <2>1, <2>2, <3>1, Limits DEF Polled, Types
    <3>3. made > 0
      BY <2>2, <3>2, Limits DEF Records
    <3> QED
      BY <2>1, <3>3 DEF Fresh, NoOld
  <2>4. log[p][j] \in Records /\ slot[log[p][j]] # <<>> /\ slot[log[p][j]][1] = p
    BY <2>1, <2>3, Lengths DEF Logged, Stored
  <2>5. slot[log[p][i]][2] < slot[log[p][j]][2]
    BY <2>1, <2>3 DEF Logged, Stored
  <2>6. slot[log[p][i]][2] \in Nat /\ slot[log[p][j]][2] \in Nat
    BY <2>1, <2>2, <2>4, SlotValue DEF HasSlot
  <2>7. log[p][j] < log[p][i] => slot[log[p][j]][2] < slot[log[p][i]][2]
    BY <2>1, <2>2, <2>4 DEF Numbered, HasSlot
  <2> QED
    BY <2>2, <2>4, <2>5, <2>6, <2>7, Limits DEF Records
<1> QED
  BY <1>1, InductiveInvariant, PTL

\* In durable mode Phase 2 starts with every record whose send did not fail once in the topic and
\* nothing of the others, however many acknowledgements were lost and requests repeated.
THEOREM LoadedOnceTheorem == Spec => []LoadedOnce
<1>1. Inductive => LoadedOnce
  <2> SUFFICES ASSUME Inductive, step = "phase2", is_durable, NEW i \in Records
               PROVE  Copies(i) = IF i \in errs THEN 0 ELSE 1
    BY DEF LoadedOnce
  <2>1. Types /\ Fresh /\ Polled /\ Numbered /\ Logged /\ Acknowledged /\ Windowed
    BY DEF Inductive
  <2> DEFINE Places == {pk \in Partitions \X (1 .. Total + MaxLost + 1) :
                          pk[2] <= Len(log[pk[1]]) /\ log[pk[1]][pk[2]] = i}
  <2>2. ASSUME NEW p \in Partitions, NEW k \in 1 .. Len(log[p]), log[p][k] = i
        PROVE  slot[i] # <<>> /\ slot[i][1] = p /\ slot[i][2] = k - 1
    <3>1. slot[i] # <<>> /\ slot[i][1] = p
      BY <2>1, <2>2 DEF Logged, Stored, Old, Records
    <3>2. Complete(p)
      BY <2>1 DEF Fresh, Loading, Acknowledged
    <3> QED
      BY <2>2, <3>1, <3>2 DEF Complete
  <2>3. ASSUME NEW pk \in Places
        PROVE  slot[i] # <<>> /\ slot[i][1] = pk[1] /\ slot[i][2] = pk[2] - 1
    <3>1. pk[1] \in Partitions /\ pk[2] \in 1 .. Len(log[pk[1]]) /\ log[pk[1]][pk[2]] = i
      <4>1. /\ pk[1] \in Partitions /\ pk[2] \in 1 .. Total + MaxLost + 1
            /\ pk[2] <= Len(log[pk[1]]) /\ log[pk[1]][pk[2]] = i
        OBVIOUS
      <4>2. Len(log[pk[1]]) \in Nat
        BY <2>1, <4>1, Lengths
      <4> QED
        BY <4>1, <4>2, Limits
    <3> QED
      BY <2>2, <3>1
  <2>4. CASE i \in errs
    <3>1. slot[i] = <<>>
      BY <2>1, <2>4 DEF Numbered, HasSlot
    <3>2. Places = {}
      BY <2>3, <3>1
    <3> QED
      BY <2>4, <3>2, FS_EmptySet DEF Copies
  <2>5. CASE i \notin errs
    <3>1. fut[i] = "done"
      <4>1. fut[i] # "none"
        BY <2>1, Limits DEF Polled, Fresh, Records
      <4>2. i \notin InFlight
        BY <2>1 DEF Windowed
      <4> QED
        BY <2>1, <4>1, <4>2 DEF InFlight, Types
    <3>2. HasSlot(i)
      BY <2>1, <2>5, <3>1 DEF Numbered, Past
    <3>3. PICK p \in Partitions, n \in Nat : slot[i][1] = p /\ slot[i][2] = n
      BY <2>1, <3>2, SlotValue
    <3>4. Complete(p) /\ Settled(p) /\ NoOld(p)
      BY <2>1 DEF Fresh, Loading, Acknowledged
    <3>5. n < Len(log[p]) /\ Len(log[p]) \in Nat
      BY <2>1, <3>1, <3>2, <3>3, <3>4, Lengths DEF Settled, Complete
    <3>6. n + 1 \in 1 .. Len(log[p])
      BY <3>5
    <3>7. log[p][n + 1] = i
      <4>1. PICK j \in Records : log[p][n + 1] = j
        BY <2>1, <3>4, <3>6, Lengths DEF NoOld
      <4>2. slot[j] # <<>> /\ slot[j][1] = p /\ slot[j][2] = n
        <5>1. slot[j] # <<>> /\ slot[j][1] = p
          BY <2>1, <3>4, <3>6, <4>1 DEF Logged, Stored, NoOld
        <5>2. slot[j][2] = (n + 1) - 1
          BY <3>4, <3>6, <4>1 DEF Complete
        <5> QED
          BY <5>1, <5>2
      <4>3. ~(i < j) /\ ~(j < i)
        BY <2>1, <3>2, <3>3, <4>2 DEF Numbered, HasSlot
      <4> QED
        BY <4>1, <4>3, Limits DEF Records
    <3>8. n + 1 \in 1 .. Total + MaxLost + 1
      <4>1. n < i
        BY <2>1, <3>2, <3>3 DEF Numbered
      <4> QED
        BY <4>1, Limits DEF Records
    <3>9. Places = {<<p, n + 1>>}
      <4>1. <<p, n + 1>> \in Places
        BY <3>5, <3>7, <3>8
      <4>2. ASSUME NEW pk \in Places PROVE pk = <<p, n + 1>>
        <5>1. pk[1] = p /\ n = pk[2] - 1 /\ pk[2] \in 1 .. Total + MaxLost + 1
          BY <2>3, <3>3
        <5>2. pk[2] = n + 1
          BY <5>1, Limits
        <5>3. pk = <<pk[1], pk[2]>>
          OBVIOUS
        <5> QED
          BY <5>1, <5>2, <5>3
      <4> QED
        BY <4>1, <4>2
    <3> QED
      BY <2>5, <3>9, FS_Singleton DEF Copies
  <2> QED
    BY <2>4, <2>5
<1> QED
  BY <1>1, InductiveInvariant, PTL
=============================================================================
