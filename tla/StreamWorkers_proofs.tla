----------------------- MODULE StreamWorkers_proofs ------------------------
(***************************************************************************)
(* Proofs about StreamWorkers for any workers, partitions, logs, polls,    *)
(* faults, rebalances and starts: which results the endless processors can *)
(* lose, and how often they can repeat one.                                *)
(***************************************************************************)
EXTENDS StreamWorkers, FiniteSetTheorems, TLAPS

-----------------------------------------------------------------------------
(* The inductive invariant.                                                *)

Types ==
    /\ app \in Apps /\ log \in Logs /\ running \in BOOLEAN
    /\ pc \in [Workers -> {"poll", "handle", "hung", "closing", "ended"}]
    /\ hand \in [Workers -> SUBSET Records] /\ buffered \in [Workers -> [Records -> Nat]]
    /\ owner \in [Partitions -> Workers \cup {NoOne}]
    /\ position \in [Partitions -> Nat] /\ committed \in [Partitions -> Nat]
    /\ output \in [Records -> Nat] /\ unclean \in [Partitions -> Nat]
    /\ discarded \subseteq Records /\ abandoned \subseteq Records
    /\ faults \in 0 .. MaxFaults /\ rebalances \in 0 .. MaxRebalances
    /\ starts \in 0 .. MaxStarts

\* What workers have in hand, and who may own a partition.
InHand(w) == hand[w] # {} <=> pc[w] \in {"handle", "hung"}
Owners(p) == owner[p] # NoOne => ~Ended(owner[p])

\* How far a partition has been read and committed.
Read(p) ==
    /\ committed[p] <= position[p] /\ position[p] <= Len(log[p])
    /\ owner[p] = NoOne => committed[p] = position[p]

Placed ==
    /\ \A w \in Workers : InHand(w)
    /\ \A p \in Partitions : Owners(p) /\ Read(p)

\* Where a record that has been read is.  In a hand of a Java client it is not committed, and
\* the partition is still the worker's, which is why no commit can pass it.
Kept(r) ==
    \/ output[r] > 0 \/ r \in discarded \/ r \in abandoned
    \/ \E w \in Workers : r \in Held(w)
    \/ \E w \in Workers :
         /\ r \in hand[w]
         /\ app = "ruby" \/ (owner[r[1]] = w /\ committed[r[1]] <= r[2])

NothingLost == \A r \in Wanted : r[2] < position[r[1]] => Kept(r)

\* The copies of a record: in the topic, in buffers (Buffering), in hands.  One stands for its
\* being before the position, each other one for a worker that its partition has lost without
\* a commit.
Handling(r) == {w \in Workers : r \in hand[w]}
Copies(r) == output[r] + Cardinality(Buffering(r)) + Cardinality(Handling(r))
Passed(r) == IF r[2] < position[r[1]] THEN 1 ELSE 0

CopiesBound == \A r \in Records : Copies(r) <= unclean[r[1]] + Passed(r)

IInv == Types /\ Placed /\ NothingLost /\ CopiesBound

-----------------------------------------------------------------------------
(* What leaving and being expelled do to the group.                        *)

LEMMA RecordType ==
    ASSUME NEW r \in Records
    PROVE  r[1] \in Partitions /\ r[2] \in Nat /\ r = <<r[1], r[2]>>
BY WorkersType DEF Records, Offsets

LEMMA LogLength ==
    ASSUME Types, NEW p \in Partitions
    PROVE  Len(log[p]) \in Nat /\ Len(log[p]) <= MaxRecords
BY WorkersType DEF Types

GroupTypes ==
    /\ owner \in [Partitions -> Workers \cup {NoOne}]
    /\ position \in [Partitions -> Nat] /\ committed \in [Partitions -> Nat]
    /\ unclean \in [Partitions -> Nat]

\* With a commit: the partitions of w are free, and committed up to their positions.
LEMMA LeavesGroup ==
    ASSUME Types, NEW w \in Workers, Leaves(w)
    PROVE  /\ GroupTypes' /\ position' = position /\ unclean' = unclean
           /\ \A p \in Partitions :
                /\ owner'[p] = IF owner[p] = w THEN NoOne ELSE owner[p]
                /\ committed'[p] = IF owner[p] = w THEN position[p] ELSE committed[p]
<1>1. position' = position /\ unclean' = unclean
  BY DEF Leaves
<1>2. owner' = [p \in Partitions |-> IF owner[p] \in {w} THEN NoOne ELSE owner[p]]
  BY DEF Leaves, Frees
<1>3. committed' = [p \in Partitions |-> IF p \in Owned(w) THEN position[p] ELSE committed[p]]
  BY DEF Leaves, Commits
<1>4. \A p \in Partitions :
        /\ owner'[p] = IF owner[p] = w THEN NoOne ELSE owner[p]
        /\ committed'[p] = IF owner[p] = w THEN position[p] ELSE committed[p]
  BY <1>2, <1>3 DEF Owned
<1>5. owner' \in [Partitions -> Workers \cup {NoOne}]
  BY <1>2 DEF Types
<1>6. committed' \in [Partitions -> Nat]
  BY <1>3 DEF Types
<1> QED
  BY <1>1, <1>4, <1>5, <1>6 DEF GroupTypes, Types

\* Without one: they are free, and will be read again from the committed offset.
LEMMA TakenGroup ==
    ASSUME Types, NEW W, W \subseteq Workers, IsTakenFrom(W)
    PROVE  /\ GroupTypes' /\ committed' = committed
           /\ \A p \in Partitions :
                /\ owner'[p] = IF owner[p] \in W THEN NoOne ELSE owner[p]
                /\ position'[p] = IF owner[p] \in W THEN committed[p] ELSE position[p]
                /\ unclean'[p] = IF owner[p] \in W THEN unclean[p] + 1 ELSE unclean[p]
<1>1. committed' = committed
  BY DEF IsTakenFrom
<1>2. owner' = [p \in Partitions |-> IF owner[p] \in W THEN NoOne ELSE owner[p]]
  BY DEF IsTakenFrom, Frees
<1>3. position' = [p \in Partitions |-> IF owner[p] \in W THEN committed[p] ELSE position[p]]
  BY DEF IsTakenFrom
<1>4. unclean' = [p \in Partitions |-> unclean[p] + IF owner[p] \in W THEN 1 ELSE 0]
  BY DEF IsTakenFrom
<1>5. ASSUME NEW p \in Partitions
      PROVE  unclean'[p] = IF owner[p] \in W THEN unclean[p] + 1 ELSE unclean[p]
  <2>1. unclean[p] \in Nat
    BY DEF Types
  <2>2. unclean'[p] = unclean[p] + IF owner[p] \in W THEN 1 ELSE 0
    BY <1>4
  <2> QED
    BY <2>1, <2>2
<1>6. owner' \in [Partitions -> Workers \cup {NoOne}]
  BY <1>2 DEF Types
<1>7. position' \in [Partitions -> Nat]
  BY <1>3 DEF Types
<1>8. unclean' \in [Partitions -> Nat]
  <2>1. \A p \in Partitions : unclean[p] + (IF owner[p] \in W THEN 1 ELSE 0) \in Nat
    BY DEF Types
  <2> QED
    BY <1>4, <2>1
<1>9. committed' \in [Partitions -> Nat]
  BY <1>1 DEF Types
<1> QED
  BY <1>1, <1>2, <1>3, <1>5, <1>6, <1>7, <1>8, <1>9 DEF GroupTypes

\* The threads or processes of W are gone.
LEMMA GoneWorkers ==
    ASSUME Types, NEW W, W \subseteq Workers, Gone(W)
    PROVE  /\ pc' \in [Workers -> {"poll", "handle", "hung", "closing", "ended"}]
           /\ hand' \in [Workers -> SUBSET Records]
           /\ buffered' \in [Workers -> [Records -> Nat]]
           /\ discarded' \subseteq Records /\ discarded \subseteq discarded'
           /\ \A w \in W : /\ pc'[w] = "ended" /\ hand'[w] = {} /\ buffered'[w] = NoResults
                            /\ Held(w) \subseteq discarded'
           /\ \A w \in Workers \ W :
                pc'[w] = pc[w] /\ hand'[w] = hand[w] /\ buffered'[w] = buffered[w]
           /\ \A r \in Records, v \in Workers : buffered'[v][r] <= buffered[v][r]
           /\ UNCHANGED <<app, log, running, output>>
<1>1. pc' = [w \in Workers |-> IF w \in W THEN "ended" ELSE pc[w]]
  BY DEF Gone
<1>2. hand' = [w \in Workers |-> IF w \in W THEN {} ELSE hand[w]]
  BY DEF Gone
<1>3. buffered' = [w \in Workers |-> IF w \in W THEN NoResults ELSE buffered[w]]
  BY DEF Gone
<1>4. discarded' = discarded \cup UNION {Held(w) : w \in W}
  BY DEF Gone
<1>5. discarded' \subseteq Records /\ discarded \subseteq discarded'
      /\ \A w \in W : Held(w) \subseteq discarded'
  BY <1>4 DEF Types, Held
<1>6. pc' \in [Workers -> {"poll", "handle", "hung", "closing", "ended"}]
  BY <1>1 DEF Types
<1>7. hand' \in [Workers -> SUBSET Records]
  BY <1>2 DEF Types
<1>8. /\ buffered' \in [Workers -> [Records -> Nat]]
      /\ \A r \in Records, v \in Workers : buffered'[v][r] <= buffered[v][r]
  <2>1. NoResults \in [Records -> Nat] /\ \A r \in Records : NoResults[r] = 0
    BY DEF NoResults
  <2>2. buffered \in [Workers -> [Records -> Nat]]
    BY DEF Types
  <2> QED
    BY <1>3, <2>1, <2>2
<1>9. UNCHANGED <<app, log, running, output>>
  BY DEF Gone, config
<1> QED
  BY <1>1, <1>2, <1>3, <1>5, <1>6, <1>7, <1>8, <1>9

-----------------------------------------------------------------------------
(* Types.                                                                  *)

LEMMA TypesInit == Init => Types
<1> SUFFICES ASSUME Init PROVE Types
  OBVIOUS
<1>1. /\ position \in [Partitions -> Nat] /\ committed \in [Partitions -> Nat]
      /\ unclean \in [Partitions -> Nat]
  BY DEF Init, Zero
<1>2. /\ pc \in [Workers -> {"poll", "handle", "hung", "closing", "ended"}]
      /\ hand \in [Workers -> SUBSET Records] /\ buffered \in [Workers -> [Records -> Nat]]
      /\ owner \in [Partitions -> Workers \cup {NoOne}] /\ output \in [Records -> Nat]
  BY DEF Init, NoResults
<1>3. /\ faults \in 0 .. MaxFaults /\ rebalances \in 0 .. MaxRebalances
      /\ starts \in 0 .. MaxStarts
  BY WorkersType DEF Init
<1> QED
  BY <1>1, <1>2, <1>3 DEF Init, Types

\* The end of a process, with or without a commit.
LEMMA TypesDeath ==
    ASSUME Types, NEW w \in Workers, Death(w), faults' \in 0 .. MaxFaults,
           UNCHANGED <<rebalances, starts>>
    PROVE  Types'
<1>1. GroupTypes'
  <2>1. CASE Leaves(w)
    BY <2>1, LeavesGroup
  <2>2. CASE IsTakenFrom({w})
    BY <2>2, TakenGroup
  <2> QED
    BY <2>1, <2>2 DEF Death
<1>2. Gone({w}) /\ abandoned' \subseteq Records
  BY DEF Death, Types
<1>3. /\ pc' \in [Workers -> {"poll", "handle", "hung", "closing", "ended"}]
      /\ hand' \in [Workers -> SUBSET Records] /\ buffered' \in [Workers -> [Records -> Nat]]
      /\ discarded' \subseteq Records /\ UNCHANGED <<app, log, running, output>>
  BY <1>2, GoneWorkers
<1> QED
  BY <1>1, <1>2, <1>3 DEF Types, GroupTypes

\* The steps of a worker.
LEMMA TypesWork ==
    ASSUME Types, NEW w \in Workers, Work(w) \/ Throws(w) \/ Dies(w)
    PROVE  Types'
<1>0. MaxFaults \in Nat /\ (Fault \/ NoFault => faults' \in 0 .. MaxFaults)
  BY WorkersType DEF Fault, NoFault, bounds, Types
<1>1. CASE Poll(w)
  <2>1. PICK to \in [Partitions -> 0 .. MaxRecords] :
             hand' = [hand EXCEPT ![w] = Batch(w, to)] /\ position' = to
    BY <1>1 DEF Poll
  <2>2. Batch(w, to) \subseteq Records
    BY DEF Batch
  <2>3. hand' \in [Workers -> SUBSET Records]
    BY <2>1, <2>2 DEF Types
  <2>4. position' \in [Partitions -> Nat]
    BY <2>1, WorkersType
  <2>5. pc' \in [Workers -> {"poll", "handle", "hung", "closing", "ended"}]
    BY <1>1 DEF Poll, Types
  <2>6. UNCHANGED <<config, running, buffered, owner, committed, output, bounds, history>>
    BY <1>1 DEF Poll
  <2> QED
    BY <2>3, <2>4, <2>5, <2>6 DEF Types, config, bounds, history
<1>2. CASE LeaveLoop(w)
  <2>1. pc' \in [Workers -> {"poll", "handle", "hung", "closing", "ended"}]
    BY <1>2 DEF LeaveLoop, Types
  <2>2. UNCHANGED <<config, running, hand, buffered, group, output, bounds, history>>
    BY <1>2 DEF LeaveLoop
  <2> QED
    BY <2>1, <2>2 DEF Types, config, group, bounds, history
<1>3. CASE Close(w)
  <2>1. pc' \in [Workers -> {"poll", "handle", "hung", "closing", "ended"}]
    BY <1>3 DEF Close, Types
  <2>2. faults' \in 0 .. MaxFaults /\ UNCHANGED <<rebalances, starts>>
    BY <1>0, <1>3 DEF Close, Fault, NoFault, bounds
  <2>3. GroupTypes'
    BY <1>3, LeavesGroup, TakenGroup DEF Close
  <2>4. UNCHANGED <<config, running, hand, buffered, output, discarded, abandoned>>
    BY <1>3 DEF Close
  <2> QED
    BY <2>1, <2>2, <2>3, <2>4 DEF Types, GroupTypes, config
<1>4. ASSUME NEW r \in Records, Sum(w, r)
      PROVE  Types'
  <2>1. PICK n \in Nat : buffered' = [buffered EXCEPT ![w][r] = n]
    <3>1. buffered[w][r] \in Nat /\ buffered[w][r] + 1 \in Nat
      BY DEF Types
    <3> QED
      BY <1>4, <3>1 DEF Sum
  <2>2. hand' = [hand EXCEPT ![w] = hand[w] \ {r}] /\ hand[w] \ {r} \subseteq Records
    BY <1>4 DEF Sum, Types
  <2>3. buffered' \in [Workers -> [Records -> Nat]] /\ hand' \in [Workers -> SUBSET Records]
    BY <2>1, <2>2 DEF Types
  <2>4. pc' \in [Workers -> {"poll", "handle", "hung", "closing", "ended"}]
    BY <1>4 DEF Sum, AfterRecord, Types
  <2>5. UNCHANGED <<config, running, group, output, bounds, history>>
    BY <1>4 DEF Sum
  <2> QED
    BY <2>3, <2>4, <2>5 DEF Types, config, group, bounds, history
<1>5. ASSUME NEW r \in Records, Hang(w, r)
      PROVE  Types'
  BY <1>5 DEF Hang, Types, config, group, bounds, history
<1>6. ASSUME NEW r \in Records, DiesOnRecord(w, r)
      PROVE  Types'
  BY <1>0, <1>6, TypesDeath DEF DiesOnRecord, NoFault, bounds
<1>7. CASE Dies(w)
  BY <1>0, <1>7, TypesDeath DEF Dies, Fault
<1>8. CASE Throws(w)
  <2>1. pc' \in [Workers -> {"poll", "handle", "hung", "closing", "ended"}]
    BY <1>8 DEF Throws, Types
  <2>2. hand' \in [Workers -> SUBSET Records] /\ abandoned' \subseteq Records
    BY <1>8 DEF Throws, Types
  <2>3. faults' \in 0 .. MaxFaults /\ UNCHANGED <<rebalances, starts>>
    BY <1>0, <1>8 DEF Throws, Fault
  <2>4. UNCHANGED <<config, running, buffered, group, output, discarded, unclean>>
    BY <1>8 DEF Throws
  <2> QED
    BY <2>1, <2>2, <2>3, <2>4 DEF Types, config, group
<1> QED
  BY <1>1, <1>2, <1>3, <1>4, <1>5, <1>6, <1>7, <1>8 DEF Work

\* The steps of the group, of a client and of a producer.
LEMMA TypesClient ==
    ASSUME Types, NEW w \in Workers,
           \/ AutoCommit(w) \/ Revoke(w) \/ Expel(w)
           \/ \E p \in Partitions : Assign(p, w)
           \/ \E r \in Records : Deliver(w, r)
    PROVE  Types'
<1>0. MaxFaults \in Nat /\ (Fault \/ NoFault => faults' \in 0 .. MaxFaults)
  BY WorkersType DEF Fault, NoFault, bounds, Types
<1>1. CASE AutoCommit(w)
  <2>1. committed' \in [Partitions -> Nat]
    BY <1>1 DEF AutoCommit, Commits, Types
  <2>2. UNCHANGED <<config, running, worker, owner, position, output, bounds, history>>
    BY <1>1 DEF AutoCommit
  <2> QED
    BY <2>1, <2>2 DEF Types, config, worker, bounds, history
<1>2. CASE Revoke(w)
  <2>1. GroupTypes'
    BY <1>2, LeavesGroup DEF Revoke
  <2>2. rebalances' \in 0 .. MaxRebalances
    BY <1>2, WorkersType DEF Revoke, Types
  <2>3. UNCHANGED <<config, running, worker, output, faults, starts, discarded, abandoned>>
    BY <1>2 DEF Revoke
  <2> QED
    BY <2>1, <2>2, <2>3 DEF Types, GroupTypes, config, worker
<1>3. CASE Expel(w)
  <2>1. GroupTypes'
    BY <1>3, TakenGroup DEF Expel
  <2>2. faults' \in 0 .. MaxFaults /\ UNCHANGED <<rebalances, starts>>
    BY <1>0, <1>3 DEF Expel, Fault, NoFault, bounds
  <2>3. UNCHANGED <<config, running, worker, output, discarded, abandoned>>
    BY <1>3 DEF Expel
  <2> QED
    BY <2>1, <2>2, <2>3 DEF Types, GroupTypes, config, worker
<1>4. ASSUME NEW p \in Partitions, Assign(p, w)
      PROVE  Types'
  <2>1. owner' \in [Partitions -> Workers \cup {NoOne}] /\ position' \in [Partitions -> Nat]
    BY <1>4 DEF Assign, Types
  <2>2. UNCHANGED <<config, running, worker, committed, output, bounds, history>>
    BY <1>4 DEF Assign
  <2> QED
    BY <2>1, <2>2 DEF Types, config, worker, bounds, history
<1>5. ASSUME NEW r \in Records, Deliver(w, r)
      PROVE  Types'
  <2>1. buffered' \in [Workers -> [Records -> Nat]]
    <3>1. buffered[w][r] - 1 \in Nat /\ buffered' = [buffered EXCEPT ![w][r] = buffered[w][r] - 1]
      BY <1>5 DEF Deliver, Held, Types
    <3> QED
      BY <3>1 DEF Types
  <2>2. output' \in [Records -> Nat] /\ discarded' \subseteq Records
    BY <1>5 DEF Deliver, Types
  <2>3. faults' \in 0 .. MaxFaults /\ UNCHANGED <<rebalances, starts>>
    BY <1>0, <1>5 DEF Deliver, Fault, NoFault, bounds
  <2>4. UNCHANGED <<config, running, pc, hand, group, abandoned, unclean>>
    BY <1>5 DEF Deliver
  <2> QED
    BY <2>1, <2>2, <2>3, <2>4 DEF Types, config, group
<1> QED
  BY <1>1, <1>2, <1>3, <1>4, <1>5

LEMMA TypesStep == Types /\ [Next]_vars => Types'
<1> SUFFICES ASSUME Types, [Next]_vars PROVE Types'
  OBVIOUS
<1>0. MaxFaults \in Nat /\ (Fault \/ NoFault => faults' \in 0 .. MaxFaults)
  BY WorkersType DEF Fault, NoFault, bounds, Types
<1>1. CASE Hook
  BY <1>0, <1>1 DEF Hook, Fault, Types, config, worker, group, history
<1>2. CASE Halts
  <2>1. GroupTypes'
    BY <1>2, TakenGroup DEF Halts
  <2>2. faults' \in 0 .. MaxFaults /\ UNCHANGED <<rebalances, starts>>
    BY <1>0, <1>2 DEF Halts, Fault, NoFault, bounds
  <2>3. /\ pc' \in [Workers -> {"poll", "handle", "hung", "closing", "ended"}]
        /\ hand' \in [Workers -> SUBSET Records] /\ buffered' \in [Workers -> [Records -> Nat]]
        /\ discarded' \subseteq Records /\ UNCHANGED <<app, log, running, output>>
    BY <1>2, GoneWorkers DEF Halts
  <2>4. abandoned' = abandoned
    BY <1>2 DEF Halts
  <2> QED
    BY <2>1, <2>2, <2>3, <2>4 DEF Types, GroupTypes
<1>3. CASE Restart
  <2>1. pc' \in [Workers -> {"poll", "handle", "hung", "closing", "ended"}]
    BY <1>3 DEF Restart
  <2>2. starts' \in 0 .. MaxStarts
    BY <1>3, WorkersType DEF Restart, Types
  <2> QED
    BY <1>3, <2>1, <2>2 DEF Restart, Types, config, group, history
<1>4. CASE UNCHANGED vars
  BY <1>4 DEF vars, Types, config, worker, group, bounds, history
<1> QED
  BY <1>1, <1>2, <1>3, <1>4, TypesWork, TypesClient DEF Next

-----------------------------------------------------------------------------
(* Hands, owners and positions.                                            *)

LEMMA PlacedInit == Init => Placed
<1> SUFFICES ASSUME Init PROVE Placed
  OBVIOUS
<1>1. ASSUME NEW p \in Partitions PROVE Owners(p) /\ Read(p)
  <2>1. Types
    BY TypesInit
  <2>2. Len(log[p]) \in Nat
    BY <2>1, LogLength
  <2> QED
    BY <2>2 DEF Init, Zero, Owners, Read
<1>2. \A w \in Workers : InHand(w)
  BY DEF Init, InHand
<1> QED
  BY <1>1, <1>2 DEF Placed

\* A worker that gives its partitions back, or loses them.
LEMMA FreedRead ==
    ASSUME Types, Placed, UNCHANGED log, NEW W, W \subseteq Workers,
           IsTakenFrom(W) \/ \E w \in Workers : W = {w} /\ Leaves(w)
    PROVE  \A p \in Partitions :
             /\ Read(p)'
             /\ owner'[p] = NoOne \/ (owner'[p] = owner[p] /\ owner[p] \notin W)
<1>0. ASSUME NEW p \in Partitions
      PROVE  /\ committed[p] \in Nat /\ position[p] \in Nat /\ Len(log[p]) \in Nat
             /\ Read(p)
  BY LogLength DEF Types, Placed
<1>1. CASE IsTakenFrom(W)
  <2> SUFFICES ASSUME NEW p \in Partitions
               PROVE  /\ Read(p)'
                      /\ owner'[p] = NoOne \/ (owner'[p] = owner[p] /\ owner[p] \notin W)
    OBVIOUS
  <2>1. /\ committed'[p] = committed[p]
        /\ owner'[p] = IF owner[p] \in W THEN NoOne ELSE owner[p]
        /\ position'[p] = IF owner[p] \in W THEN committed[p] ELSE position[p]
    BY <1>1, TakenGroup
  <2> QED
    BY <1>0, <2>1 DEF Read
<1>2. CASE \E w \in Workers : W = {w} /\ Leaves(w)
  <2> PICK w \in Workers : W = {w} /\ Leaves(w)
    BY <1>2
  <2> SUFFICES ASSUME NEW p \in Partitions
               PROVE  /\ Read(p)'
                      /\ owner'[p] = NoOne \/ (owner'[p] = owner[p] /\ owner[p] \notin W)
    OBVIOUS
  <2>1. /\ position'[p] = position[p]
        /\ owner'[p] = IF owner[p] = w THEN NoOne ELSE owner[p]
        /\ committed'[p] = IF owner[p] = w THEN position[p] ELSE committed[p]
    BY LeavesGroup
  <2> QED
    BY <1>0, <2>1 DEF Read
<1> QED
  BY <1>1, <1>2

\* Steps that leave the group alone and end no worker.
LEMMA PlacedAlone ==
    ASSUME Types, Types', Placed, UNCHANGED <<log, group>>,
           \A v \in Workers : InHand(v)' /\ (Ended(v)' => Ended(v))
    PROVE  Placed'
<1>1. ASSUME NEW p \in Partitions PROVE Owners(p)' /\ Read(p)'
  <2>1. owner[p] \in Workers \cup {NoOne} /\ Owners(p) /\ Read(p)
    BY DEF Types, Placed
  <2>2. Owners(p)'
    BY <2>1 DEF Owners, group
  <2>3. Read(p)'
    BY <2>1 DEF Read, group
  <2> QED
    BY <2>2, <2>3
<1> QED
  BY <1>1 DEF Placed

\* Steps that free the partitions of W; only workers of W may end.
LEMMA PlacedFreed ==
    ASSUME Types, Types', Placed, UNCHANGED log, NEW W, W \subseteq Workers,
           IsTakenFrom(W) \/ \E w \in Workers : W = {w} /\ Leaves(w),
           \A v \in Workers : InHand(v)' /\ (Ended(v)' => Ended(v) \/ v \in W)
    PROVE  Placed'
<1>1. ASSUME NEW p \in Partitions PROVE Owners(p)' /\ Read(p)'
  <2>1. owner[p] \in Workers \cup {NoOne} /\ Owners(p)
    BY DEF Types, Placed
  <2>2. owner'[p] = NoOne \/ (owner'[p] = owner[p] /\ owner[p] \notin W)
    BY FreedRead
  <2>3. Owners(p)'
    BY <2>1, <2>2 DEF Owners
  <2>4. Read(p)'
    BY FreedRead
  <2> QED
    BY <2>3, <2>4
<1> QED
  BY <1>1 DEF Placed

LEMMA PlacedGone ==
    ASSUME Types, Types', Placed, NEW W, W \subseteq Workers, Gone(W),
           IsTakenFrom(W) \/ \E w \in Workers : W = {w} /\ Leaves(w)
    PROVE  Placed'
<1>1. ASSUME NEW v \in Workers
      PROVE  InHand(v)' /\ (Ended(v)' => Ended(v) \/ v \in W)
  <2>1. CASE v \in W
    <3>1. pc'[v] = "ended" /\ hand'[v] = {}
      BY <2>1, GoneWorkers
    <3> QED
      BY <2>1, <3>1 DEF InHand
  <2>2. CASE v \notin W
    <3>1. pc'[v] = pc[v] /\ hand'[v] = hand[v]
      BY <2>2, GoneWorkers
    <3> QED
      BY <3>1 DEF InHand, Placed, Ended
  <2> QED
    BY <2>1, <2>2
<1>2. UNCHANGED log
  BY GoneWorkers
<1> QED
  BY <1>1, <1>2, PlacedFreed

LEMMA PlacedWork ==
    ASSUME Types, Types', Placed, NEW w \in Workers, Work(w) \/ Throws(w) \/ Dies(w)
    PROVE  Placed'
<1>0. \A v \in Workers : InHand(v)
  BY DEF Placed
<1>1. CASE Poll(w)
  <2>1. PICK to \in [Partitions -> 0 .. MaxRecords] :
          /\ \A p \in Partitions :
               to[p] \in position[p] .. IF p \in Owned(w) THEN Len(log[p]) ELSE position[p]
          /\ Cardinality(Batch(w, to)) \in 1 .. BatchLimit
          /\ hand' = [hand EXCEPT ![w] = Batch(w, to)]
          /\ position' = to
    BY <1>1 DEF Poll
  <2>2. Batch(w, to) # {}
    <3>1. BatchLimit \in Nat
      BY WorkersType DEF BatchLimit
    <3>2. Cardinality(Batch(w, to)) # 0
      BY <2>1, <3>1
    <3> QED
      BY <3>2, FS_EmptySet
  <2>3. /\ pc[w] = "poll" /\ pc' = [pc EXCEPT ![w] = "handle"]
        /\ owner' = owner /\ committed' = committed /\ log' = log
    BY <1>1 DEF Poll, config
  <2>4. ASSUME NEW v \in Workers PROVE InHand(v)' /\ (Ended(v)' => Ended(v))
    <3>1. CASE v = w
      <4>1. pc'[v] = "handle" /\ hand'[v] # {}
        BY <2>1, <2>2, <2>3, <3>1 DEF Types
      <4> QED
        BY <4>1 DEF InHand, Ended
    <3>2. CASE v # w
      <4>1. pc'[v] = pc[v] /\ hand'[v] = hand[v]
        BY <2>1, <2>3, <3>2 DEF Types
      <4> QED
        BY <1>0, <4>1 DEF InHand, Ended
    <3> QED
      BY <3>1, <3>2
  <2>5. ASSUME NEW p \in Partitions PROVE Owners(p)' /\ Read(p)'
    <3>1. owner[p] \in Workers \cup {NoOne} /\ Owners(p) /\ Read(p)
      BY DEF Types, Placed
    <3>2. Owners(p)'
      BY <2>3, <2>4, <3>1 DEF Owners
    <3>3. Len(log[p]) \in Nat /\ position[p] \in Nat /\ committed[p] \in Nat
      BY LogLength DEF Types
    <3>4. to[p] \in position[p] .. IF p \in Owned(w) THEN Len(log[p]) ELSE position[p]
      BY <2>1
    <3>5. /\ committed[p] <= to[p] /\ to[p] <= Len(log[p])
          /\ p \notin Owned(w) => to[p] = position[p]
      BY <3>1, <3>3, <3>4 DEF Read
    <3>6. owner[p] = NoOne => p \notin Owned(w)
      BY WorkersType DEF Owned
    <3>7. Read(p)'
      BY <2>1, <2>3, <3>1, <3>5, <3>6 DEF Read
    <3> QED
      BY <3>2, <3>7
  <2> QED
    BY <2>4, <2>5 DEF Placed
<1>2. CASE LeaveLoop(w)
  <2>1. \A v \in Workers : InHand(v)' /\ (Ended(v)' => Ended(v))
    BY <1>0, <1>2 DEF LeaveLoop, InHand, Ended, Types
  <2> QED
    BY <1>2, <2>1, PlacedAlone DEF LeaveLoop, config
<1>3. CASE Close(w)
  <2>1. ASSUME NEW v \in Workers
        PROVE  InHand(v)' /\ (Ended(v)' => Ended(v) \/ v \in {w})
    BY <1>0, <1>3 DEF Close, InHand, Ended, Types
  <2>2. UNCHANGED log /\ (IsTakenFrom({w}) \/ Leaves(w))
    BY <1>3 DEF Close, config
  <2> QED
    BY <2>1, <2>2, PlacedFreed
<1>4. ASSUME NEW r \in Records, Sum(w, r)
      PROVE  Placed'
  <2>1. /\ pc[w] = "handle" /\ r \in hand[w]
        /\ hand' = [hand EXCEPT ![w] = hand[w] \ {r}]
        /\ pc' = [pc EXCEPT ![w] = AfterRecord(w, r)]
    BY <1>4 DEF Sum, NextRecord
  <2>2. ASSUME NEW v \in Workers PROVE InHand(v)' /\ (Ended(v)' => Ended(v))
    <3>1. CASE v = w
      <4>1. hand'[v] = hand[w] \ {r} /\ pc'[v] = AfterRecord(w, r)
        BY <2>1, <3>1 DEF Types
      <4>2. hand[w] \ {r} # {} <=> hand[w] # {r}
        BY <2>1
      <4> QED
        BY <4>1, <4>2 DEF InHand, AfterRecord, Ended
    <3>2. CASE v # w
      <4>1. pc'[v] = pc[v] /\ hand'[v] = hand[v]
        BY <2>1, <3>2 DEF Types
      <4> QED
        BY <1>0, <4>1 DEF InHand, Ended
    <3> QED
      BY <3>1, <3>2
  <2> QED
    BY <1>4, <2>2, PlacedAlone DEF Sum, config
<1>5. ASSUME NEW r \in Records, Hang(w, r)
      PROVE  Placed'
  <2>1. \A v \in Workers : InHand(v)' /\ (Ended(v)' => Ended(v))
    BY <1>0, <1>5 DEF Hang, NextRecord, InHand, Ended, Types
  <2> QED
    BY <1>5, <2>1, PlacedAlone DEF Hang, config
<1>6. CASE Dies(w) \/ \E r \in Records : DiesOnRecord(w, r)
  <2>1. Gone({w}) /\ (IsTakenFrom({w}) \/ Leaves(w))
    BY <1>6 DEF Dies, DiesOnRecord, Death
  <2> QED
    BY <2>1, PlacedGone
<1>7. CASE Throws(w)
  <2>1. \A v \in Workers : InHand(v)' /\ (Ended(v)' => Ended(v))
    BY <1>0, <1>7 DEF Throws, InHand, Ended, Types
  <2> QED
    BY <1>7, <2>1, PlacedAlone DEF Throws, config
<1> QED
  BY <1>1, <1>2, <1>3, <1>4, <1>5, <1>6, <1>7 DEF Work

LEMMA PlacedClient ==
    ASSUME Types, Types', Placed, NEW w \in Workers,
           \/ AutoCommit(w) \/ Revoke(w) \/ Expel(w)
           \/ \E p \in Partitions : Assign(p, w)
           \/ \E r \in Records : Deliver(w, r)
    PROVE  Placed'
<1>0. /\ \A v \in Workers : InHand(v)
      /\ \A p \in Partitions : Owners(p) /\ Read(p)
  BY DEF Placed
<1>1. CASE AutoCommit(w)
  <2>1. /\ committed' = [p \in Partitions |->
                            IF p \in Owned(w) THEN position[p] ELSE committed[p]]
        /\ UNCHANGED <<pc, hand, log, owner, position>>
    BY <1>1 DEF AutoCommit, Commits, worker, config
  <2>2. \A v \in Workers : InHand(v)'
    BY <1>0, <2>1 DEF InHand
  <2>3. ASSUME NEW p \in Partitions PROVE Owners(p)' /\ Read(p)'
    <3>1. committed'[p] = position[p] \/ committed'[p] = committed[p]
      BY <2>1
    <3>2. position[p] \in Nat
      BY DEF Types
    <3> QED
      BY <1>0, <2>1, <3>1, <3>2 DEF Owners, Read, Ended
  <2> QED
    BY <2>2, <2>3 DEF Placed
<1>2. CASE Revoke(w) \/ Expel(w)
  <2>1. /\ IsTakenFrom({w}) \/ Leaves(w)
        /\ UNCHANGED <<pc, hand, log>>
    BY <1>2 DEF Revoke, Expel, worker, config
  <2>2. \A v \in Workers : InHand(v)' /\ (Ended(v)' => Ended(v))
    BY <1>0, <2>1 DEF InHand, Ended
  <2> QED
    BY <2>1, <2>2, PlacedFreed
<1>3. ASSUME NEW q \in Partitions, Assign(q, w)
      PROVE  Placed'
  <2>1. /\ owner' = [owner EXCEPT ![q] = w] /\ owner[q] = NoOne /\ pc[w] = "poll"
        /\ position' = [position EXCEPT ![q] = committed[q]]
        /\ UNCHANGED <<pc, hand, log, committed>>
    BY <1>3 DEF Assign, worker, config
  <2>2. \A v \in Workers : InHand(v)'
    BY <1>0, <2>1 DEF InHand
  <2>3. ASSUME NEW p \in Partitions PROVE Owners(p)' /\ Read(p)'
    <3>1. position' = position
      BY <1>0, <2>1 DEF Read, Types
    <3>2. CASE p = q
      <4>1. owner'[p] = w /\ w # NoOne
        BY <2>1, <3>2, WorkersType DEF Types
      <4> QED
        BY <1>0, <2>1, <3>1, <4>1 DEF Owners, Read, Ended
    <3>3. CASE p # q
      <4>1. owner'[p] = owner[p]
        BY <2>1, <3>3 DEF Types
      <4> QED
        BY <1>0, <2>1, <3>1, <4>1 DEF Owners, Read, Ended
    <3> QED
      BY <3>2, <3>3
  <2> QED
    BY <2>2, <2>3 DEF Placed
<1>4. ASSUME NEW r \in Records, Deliver(w, r)
      PROVE  Placed'
  <2>1. UNCHANGED <<pc, hand, log, group>>
    BY <1>4 DEF Deliver, config
  <2>2. \A v \in Workers : InHand(v)' /\ (Ended(v)' => Ended(v))
    BY <1>0, <2>1 DEF InHand, Ended
  <2> QED
    BY <2>1, <2>2, PlacedAlone
<1> QED
  BY <1>1, <1>2, <1>3, <1>4

LEMMA PlacedStep == Types /\ Types' /\ Placed /\ [Next]_vars => Placed'
<1> SUFFICES ASSUME Types, Types', Placed, [Next]_vars PROVE Placed'
  OBVIOUS
<1>0. \A v \in Workers : InHand(v)
  BY DEF Placed
<1>1. CASE Hook \/ UNCHANGED vars
  <2>1. UNCHANGED <<pc, hand, log, group>>
    BY <1>1 DEF Hook, vars, worker, config
  <2>2. \A v \in Workers : InHand(v)' /\ (Ended(v)' => Ended(v))
    BY <1>0, <2>1 DEF InHand, Ended
  <2> QED
    BY <2>1, <2>2, PlacedAlone
<1>2. CASE Halts
  <2>1. Gone(Workers) /\ IsTakenFrom(Workers)
    BY <1>2 DEF Halts
  <2> QED
    BY <2>1, PlacedGone
<1>3. CASE Restart
  <2>1. \A v \in Workers : InHand(v)' /\ (Ended(v)' => Ended(v))
    BY <1>0, <1>3 DEF Restart, InHand, Ended
  <2> QED
    BY <1>3, <2>1, PlacedAlone DEF Restart, config
<1> QED
  BY <1>1, <1>2, <1>3, PlacedWork, PlacedClient DEF Next

-----------------------------------------------------------------------------
(* No record gets lost but in a producer, or with a ruby process.          *)

\* Which records call for a result does not change.
LEMMA WantedStays == log' = log => Wanted' = Wanted
BY DEF Wanted, Kind

\* At the start nothing has been read.
LEMMA NothingLostInit == Init => NothingLost
<1> SUFFICES ASSUME Init, NEW r \in Wanted, r[2] < position[r[1]] PROVE FALSE
  BY DEF NothingLost
<1>1. r[1] \in Partitions /\ r[2] \in Nat
  BY RecordType DEF Wanted
<1>2. position[r[1]] = 0
  BY <1>1 DEF Init, Zero
<1> QED
  BY <1>1, <1>2

\* The results a producer has, when no buffer changes.
LEMMA HeldStays ==
    ASSUME UNCHANGED buffered
    PROVE  \A v \in Workers : Held(v)' = Held(v)
BY DEF Held

\* What it takes for a record to stay kept: its copies are where they were, or have moved on, and
\* a Java client that has it in hand keeps the partition and does not commit.
LEMMA KeptStays ==
    ASSUME Types, Types', NEW r \in Records, Kept(r), UNCHANGED app,
           output'[r] >= output[r], r \in discarded => r \in discarded',
           r \in abandoned => r \in abandoned',
           \A v \in Workers : r \in Held(v) =>
               r \in Held(v)' \/ r \in discarded' \/ output'[r] > 0,
           \A v \in Workers : r \in hand[v] =>
               r \in hand'[v] \/ r \in Held(v)' \/ r \in abandoned',
           app # "ruby" => \A v \in Workers :
               r \in hand[v] /\ owner[r[1]] = v /\ committed[r[1]] <= r[2] =>
                 owner'[r[1]] = v /\ committed'[r[1]] <= r[2]
    PROVE  Kept(r)'
<1>1. output[r] \in Nat /\ output'[r] \in Nat
  BY DEF Types
<1>2. CASE output[r] > 0 \/ r \in discarded \/ r \in abandoned
  BY <1>1, <1>2 DEF Kept
<1>3. CASE \E w \in Workers : r \in Held(w)
  BY <1>3 DEF Kept
<1>4. ASSUME NEW w \in Workers, r \in hand[w],
             app = "ruby" \/ (owner[r[1]] = w /\ committed[r[1]] <= r[2])
      PROVE  Kept(r)'
  <2>1. app' = "ruby" \/ (owner'[r[1]] = w /\ committed'[r[1]] <= r[2])
    BY <1>4
  <2>2. r \in hand'[w] \/ r \in Held(w)' \/ r \in abandoned'
    BY <1>4
  <2> QED
    BY <2>1, <2>2 DEF Kept
<1> QED
  BY <1>2, <1>3, <1>4 DEF Kept

\* A record of the partitions that a Java client has lost is read again, unless it was committed.
LEMMA KeptTaken ==
    ASSUME Types, Placed, NEW r \in Records, NEW W, W \subseteq Workers, IsTakenFrom(W),
           r[2] < position'[r[1]]
    PROVE  /\ r[2] < position[r[1]]
           /\ \A v \in Workers :
                owner[r[1]] = v /\ committed[r[1]] <= r[2] =>
                  owner'[r[1]] = v /\ committed'[r[1]] <= r[2]
<1> DEFINE p == r[1]
<1>1. p \in Partitions /\ r[2] \in Nat
  BY RecordType
<1>2. /\ committed' = committed
      /\ owner'[p] = IF owner[p] \in W THEN NoOne ELSE owner[p]
      /\ position'[p] = IF owner[p] \in W THEN committed[p] ELSE position[p]
  BY <1>1, TakenGroup
<1>3. committed[p] \in Nat /\ position[p] \in Nat /\ committed[p] <= position[p]
  BY <1>1 DEF Types, Placed, Read
<1> QED
  BY <1>1, <1>2, <1>3

\* A record in hand of another Java client than the one that leaves.
LEMMA KeptLeaves ==
    ASSUME Types, Placed, NEW r \in Records, NEW w \in Workers, Leaves(w), hand[w] = {}
    PROVE  /\ position' = position
           /\ \A v \in Workers :
                r \in hand[v] /\ owner[r[1]] = v /\ committed[r[1]] <= r[2] =>
                  owner'[r[1]] = v /\ committed'[r[1]] <= r[2]
<1> DEFINE p == r[1]
<1>1. p \in Partitions
  BY RecordType
<1>2. /\ position' = position
      /\ owner'[p] = IF owner[p] = w THEN NoOne ELSE owner[p]
      /\ committed'[p] = IF owner[p] = w THEN position[p] ELSE committed[p]
  BY <1>1, LeavesGroup
<1> QED
  BY <1>2

\* The end of a ruby process.
LEMMA KeptDeath ==
    ASSUME Types, Types', Placed, NothingLost, NEW w \in Workers, Death(w), app = "ruby",
           NEW r \in Wanted, r[2] < position'[r[1]]
    PROVE  Kept(r)'
<1>0. r \in Records
  BY DEF Wanted
<1>1. Gone({w}) /\ abandoned' = abandoned \cup hand[w] /\ (Leaves(w) \/ IsTakenFrom({w}))
  BY DEF Death
<1>2. /\ \A v \in Workers : r \in Held(v) => r \in Held(v)' \/ r \in discarded'
      /\ \A v \in Workers : r \in hand[v] => r \in hand'[v] \/ r \in abandoned'
      /\ discarded \subseteq discarded' /\ output' = output /\ app' = app
  <2>1. /\ Held(w) \subseteq discarded' /\ discarded \subseteq discarded'
        /\ \A v \in Workers \ {w} : hand'[v] = hand[v] /\ buffered'[v] = buffered[v]
        /\ output' = output /\ app' = app
    BY <1>1, GoneWorkers
  <2>2. \A v \in Workers \ {w} : Held(v)' = Held(v)
    BY <2>1 DEF Held
  <2> QED
    BY <1>1, <2>1, <2>2
<1>3. r[2] < position[r[1]]
  <2>1. CASE Leaves(w)
    BY <2>1, LeavesGroup
  <2>2. CASE IsTakenFrom({w})
    BY <2>2, <1>0, KeptTaken
  <2> QED
    BY <1>1, <2>1, <2>2
<1>4. Kept(r)
  BY <1>3 DEF NothingLost
<1>5. output'[r] >= output[r]
  BY <1>0, <1>2 DEF Types
<1> QED
  BY <1>0, <1>1, <1>2, <1>4, <1>5, KeptStays

LEMMA KeptWork ==
    ASSUME Types, Types', Placed, NothingLost, NEW w \in Workers, Work(w) \/ Throws(w) \/ Dies(w),
           NEW r \in Wanted, r[2] < position'[r[1]]
    PROVE  Kept(r)'
<1>0. r \in Records /\ r[1] \in Partitions /\ r[2] \in Nat
  BY RecordType DEF Wanted
<1>1. output[r] \in Nat /\ InHand(w)
  BY <1>0 DEF Types, Placed
<1>2. r[2] < position[r[1]] => Kept(r)
  BY DEF NothingLost
<1>3. CASE Poll(w)
  <2>1. PICK to \in [Partitions -> 0 .. MaxRecords] :
          /\ \A p \in Partitions :
               to[p] \in position[p] .. IF p \in Owned(w) THEN Len(log[p]) ELSE position[p]
          /\ hand' = [hand EXCEPT ![w] = Batch(w, to)]
          /\ position' = to
    BY <1>3 DEF Poll
  <2>2. /\ pc[w] = "poll"
        /\ UNCHANGED <<app, buffered, owner, committed, output, discarded, abandoned>>
    BY <1>3 DEF Poll, config, history
  <2>3. hand[w] = {} /\ \A v \in Workers \ {w} : hand'[v] = hand[v]
    BY <1>1, <2>1, <2>2 DEF InHand, Types
  <2>4. CASE r[2] < position[r[1]]
    <3>1. Kept(r)
      BY <1>2, <2>4
    <3>2. \A v \in Workers : r \in hand[v] => r \in hand'[v]
      BY <2>3
    <3>3. output'[r] >= output[r]
      BY <1>1, <2>2
    <3> QED
      BY <1>0, <2>2, <3>1, <3>2, <3>3, HeldStays, KeptStays
  <2>5. CASE ~(r[2] < position[r[1]])
    <3>1. position[r[1]] \in Nat /\ committed[r[1]] \in Nat /\ committed[r[1]] <= position[r[1]]
      BY <1>0 DEF Types, Placed, Read
    <3>2. r[2] < to[r[1]] /\ position[r[1]] <= r[2] /\ to[r[1]] \in Nat
      BY <1>0, <2>1, <2>5, <3>1
    <3>3. owner[r[1]] = w
      BY <1>0, <2>1, <3>1, <3>2 DEF Owned
    <3>4. r \in Batch(w, to)
      BY <1>0, <3>1, <3>2, <3>3 DEF Batch, Owned
    <3>5. r \in hand'[w]
      BY <2>1, <3>4 DEF Types
    <3>6. owner'[r[1]] = w /\ committed'[r[1]] <= r[2]
      BY <1>0, <2>2, <3>1, <3>2, <3>3
    <3> QED
      BY <3>5, <3>6 DEF Kept
  <2> QED
    BY <2>4, <2>5
<1>4. CASE LeaveLoop(w)
  <2>1. UNCHANGED <<app, hand, buffered, group, output, discarded, abandoned>>
    BY <1>4 DEF LeaveLoop, config, history
  <2> QED
    BY <1>0, <1>1, <1>2, <2>1, HeldStays, KeptStays DEF group
<1>5. CASE Close(w)
  <2>1. UNCHANGED <<app, hand, buffered, output, discarded, abandoned>> /\ hand[w] = {}
    BY <1>1, <1>5 DEF Close, InHand, config
  <2>2. CASE Leaves(w)
    <3>1. Kept(r)
      BY <1>2, <2>2, LeavesGroup
    <3> QED
      BY <1>0, <1>1, <2>1, <2>2, <3>1, HeldStays, KeptStays, KeptLeaves
  <2>3. CASE IsTakenFrom({w})
    <3>1. Kept(r)
      BY <1>0, <1>2, <2>3, KeptTaken
    <3> QED
      BY <1>0, <1>1, <2>1, <2>3, <3>1, HeldStays, KeptStays, KeptTaken
  <2> QED
    BY <1>5, <2>2, <2>3 DEF Close
<1>6. ASSUME NEW s \in Records, Sum(w, s)
      PROVE  Kept(r)'
  <2>1. /\ UNCHANGED <<app, group, output, discarded, abandoned>>
        /\ hand' = [hand EXCEPT ![w] = hand[w] \ {s}]
        /\ buffered' = [buffered EXCEPT ![w][s] =
                          IF Effect(s) = "result" THEN buffered[w][s] + 1 ELSE buffered[w][s]]
        /\ Effect(s) \in {"result", "nothing"}
    BY <1>6 DEF Sum, config, history
  <2>2. Kept(r)
    BY <1>2, <2>1 DEF group
  <2>3. Effect(s) = "nothing" => s # r
    BY DEF Effect, Wanted
  <2>b. /\ \A v \in Workers : buffered[v][r] \in Nat
        /\ \A v \in Workers : buffered'[v][r] =
             IF v = w /\ r = s /\ Effect(s) = "result" THEN buffered[v][r] + 1 ELSE buffered[v][r]
    BY <1>0, <2>1 DEF Types
  <2>4. \A v \in Workers : r \in Held(v) => r \in Held(v)'
    BY <1>0, <2>b DEF Held
  <2>5. \A v \in Workers : r \in hand[v] => r \in hand'[v] \/ r \in Held(v)'
    <3>1. \A v \in Workers : r \in hand[v] => r \in hand'[v] \/ (v = w /\ s = r)
      BY <2>1 DEF Types
    <3>2. s = r => r \in Held(w)'
      BY <1>0, <2>1, <2>3, <2>b DEF Held
    <3> QED
      BY <3>1, <3>2
  <2> QED
    BY <1>0, <1>1, <2>1, <2>2, <2>4, <2>5, HeldStays, KeptStays DEF group
<1>7. ASSUME NEW s \in Records, Hang(w, s)
      PROVE  Kept(r)'
  <2>1. UNCHANGED <<app, hand, buffered, group, output, discarded, abandoned>>
    BY <1>7 DEF Hang, config, history
  <2> QED
    BY <1>0, <1>1, <1>2, <2>1, HeldStays, KeptStays DEF group
<1>8. ASSUME NEW s \in Records, DiesOnRecord(w, s)
      PROVE  Kept(r)'
  <2>1. app \in {"java", "scala", "ruby"}
    BY WorkersType DEF Types
  <2>2. app = "ruby" /\ Death(w)
    BY <1>8, <2>1 DEF DiesOnRecord, Effect, JavaClient
  <2> QED
    BY <2>2, KeptDeath
<1>9. CASE Dies(w)
  BY <1>9, KeptDeath DEF Dies
<1>10. CASE Throws(w)
  <2>1. /\ UNCHANGED <<app, buffered, group, output, discarded>>
        /\ hand' = [hand EXCEPT ![w] = {}] /\ abandoned' = abandoned \cup hand[w]
    BY <1>10 DEF Throws, config
  <2>2. \A v \in Workers : r \in hand[v] => r \in hand'[v] \/ r \in abandoned'
    BY <2>1 DEF Types
  <2>3. Kept(r)
    BY <1>2, <2>1 DEF group
  <2> QED
    BY <1>0, <1>1, <2>1, <2>2, <2>3, HeldStays, KeptStays DEF group
<1> QED
  BY <1>3, <1>4, <1>5, <1>6, <1>7, <1>8, <1>9, <1>10 DEF Work

LEMMA KeptClient ==
    ASSUME Types, Types', Placed, NothingLost, NEW w \in Workers,
           \/ AutoCommit(w) \/ Revoke(w) \/ Expel(w)
           \/ \E p \in Partitions : Assign(p, w)
           \/ \E s \in Records : Deliver(w, s),
           NEW r \in Wanted, r[2] < position'[r[1]]
    PROVE  Kept(r)'
<1>0. r \in Records /\ r[1] \in Partitions /\ r[2] \in Nat
  BY RecordType DEF Wanted
<1>1. output[r] \in Nat /\ InHand(w)
  BY <1>0 DEF Types, Placed
<1>2. r[2] < position[r[1]] => Kept(r)
  BY DEF NothingLost
<1>3. CommitsNow(w) => app = "ruby" \/ hand[w] = {}
  BY <1>1 DEF CommitsNow, InHand
<1>4. CASE AutoCommit(w)
  <2>1. UNCHANGED <<app, hand, buffered, owner, position, output, discarded, abandoned>>
    BY <1>4 DEF AutoCommit, config, worker, history
  <2>2. committed'[r[1]] = IF owner[r[1]] = w THEN position[r[1]] ELSE committed[r[1]]
    BY <1>0, <1>4 DEF AutoCommit, Commits, Owned
  <2>3. app # "ruby" => hand[w] = {}
    BY <1>3, <1>4 DEF AutoCommit
  <2>4. app # "ruby" => \A v \in Workers :
          r \in hand[v] /\ owner[r[1]] = v /\ committed[r[1]] <= r[2] =>
            owner'[r[1]] = v /\ committed'[r[1]] <= r[2]
    BY <2>1, <2>2, <2>3
  <2> QED
    BY <1>0, <1>1, <1>2, <2>1, <2>4, HeldStays, KeptStays
<1>5. CASE Revoke(w)
  <2>1. UNCHANGED <<app, hand, buffered, output, discarded, abandoned>> /\ Leaves(w)
    BY <1>5 DEF Revoke, config, worker
  <2>2. position' = position
    BY <2>1, LeavesGroup
  <2>3. app # "ruby" => hand[w] = {}
    BY <1>3, <1>5 DEF Revoke
  <2>4. app # "ruby" => \A v \in Workers :
          r \in hand[v] /\ owner[r[1]] = v /\ committed[r[1]] <= r[2] =>
            owner'[r[1]] = v /\ committed'[r[1]] <= r[2]
    BY <1>0, <2>1, <2>3, KeptLeaves
  <2> QED
    BY <1>0, <1>1, <1>2, <2>1, <2>2, <2>4, HeldStays, KeptStays
<1>6. CASE Expel(w)
  <2>1. /\ UNCHANGED <<app, hand, buffered, output, discarded, abandoned>>
        /\ IsTakenFrom({w})
    BY <1>6 DEF Expel, config, worker
  <2>2. Kept(r)
    BY <1>0, <1>2, <2>1, KeptTaken
  <2> QED
    BY <1>0, <1>1, <2>1, <2>2, HeldStays, KeptStays, KeptTaken
<1>7. ASSUME NEW q \in Partitions, Assign(q, w)
      PROVE  Kept(r)'
  <2>1. /\ UNCHANGED <<app, hand, buffered, output, committed, discarded, abandoned>>
        /\ owner' = [owner EXCEPT ![q] = w] /\ owner[q] = NoOne
        /\ position' = [position EXCEPT ![q] = committed[q]]
    BY <1>7 DEF Assign, config, worker, history
  <2>2. position' = position
    BY <2>1 DEF Placed, Read, Types
  <2>3. \A v \in Workers : owner[r[1]] = v => owner'[r[1]] = v
    <3>1. NoOne \notin Workers
      BY WorkersType
    <3>2. r[1] # q => owner'[r[1]] = owner[r[1]]
      BY <1>0, <2>1 DEF Types
    <3> QED
      BY <2>1, <3>1, <3>2
  <2> QED
    BY <1>0, <1>1, <1>2, <2>1, <2>2, <2>3, HeldStays, KeptStays
<1>8. ASSUME NEW s \in Records, Deliver(w, s)
      PROVE  Kept(r)'
  <2>1. /\ UNCHANGED <<app, hand, group, abandoned>>
        /\ buffered' = [buffered EXCEPT ![w][s] = buffered[w][s] - 1]
        /\ \/ output' = [output EXCEPT ![s] = output[s] + 1] /\ UNCHANGED discarded
           \/ discarded' = discarded \cup {s} /\ UNCHANGED output
    BY <1>8 DEF Deliver, config
  <2>2. Kept(r)
    BY <1>2, <2>1 DEF group
  <2>3. output'[r] >= output[r] /\ (s = r => output'[r] > 0 \/ r \in discarded')
    BY <1>0, <1>1, <2>1 DEF Types
  <2>4. \A v \in Workers : r \in Held(v) =>
          r \in Held(v)' \/ r \in discarded' \/ output'[r] > 0
    <3>1. s # r => \A v \in Workers : buffered'[v][r] = buffered[v][r]
      BY <1>0, <2>1 DEF Types
    <3> QED
      BY <1>0, <2>3, <3>1 DEF Held
  <2>5. r \in discarded => r \in discarded'
    BY <2>1
  <2> QED
    BY <1>0, <2>1, <2>2, <2>3, <2>4, <2>5, HeldStays, KeptStays DEF group
<1> QED
  BY <1>4, <1>5, <1>6, <1>7, <1>8

LEMMA KeptProcess ==
    ASSUME Types, Types', Placed, NothingLost, Hook \/ Halts \/ Restart \/ UNCHANGED vars,
           NEW r \in Wanted, r[2] < position'[r[1]]
    PROVE  Kept(r)'
<1>0. r \in Records /\ r[1] \in Partitions /\ r[2] \in Nat
  BY RecordType DEF Wanted
<1>1. output[r] \in Nat
  BY <1>0 DEF Types
<1>2. r[2] < position[r[1]] => Kept(r)
  BY DEF NothingLost
<1>3. CASE Hook \/ Restart \/ UNCHANGED vars
  <2>1. UNCHANGED <<app, hand, buffered, group, output, discarded, abandoned>>
    BY <1>3 DEF Hook, Restart, vars, config, worker, history
  <2> QED
    BY <1>0, <1>1, <1>2, <2>1, HeldStays, KeptStays DEF group
<1>4. CASE Halts
  <2>1. Gone(Workers) /\ IsTakenFrom(Workers) /\ abandoned' = abandoned /\ JavaClient
    BY <1>4 DEF Halts
  <2>2. Kept(r)
    BY <1>0, <1>2, <2>1, KeptTaken
  <2>3. /\ \A v \in Workers : Held(v) \subseteq discarded'
        /\ discarded \subseteq discarded' /\ output' = output /\ app' = app
    BY <2>1, GoneWorkers
  <2>4. ~\E v \in Workers : owner[r[1]] = v /\ committed[r[1]] <= r[2]
    <3>1. /\ owner'[r[1]] = IF owner[r[1]] \in Workers THEN NoOne ELSE owner[r[1]]
          /\ position'[r[1]] = IF owner[r[1]] \in Workers THEN committed[r[1]] ELSE position[r[1]]
      BY <1>0, <2>1, TakenGroup
    <3>2. committed[r[1]] \in Nat
      BY <1>0 DEF Types
    <3> QED
      BY <1>0, <3>1, <3>2
  <2>5. app # "ruby"
    BY <2>1 DEF JavaClient
  <2>6. r \in Records /\ output'[r] = output[r] /\ abandoned' = abandoned
    BY <1>0, <2>1, <2>3
  <2>7. output[r] > 0 \/ r \in discarded' \/ r \in abandoned
    <3>1. ~\E v \in Workers : app = "ruby" \/ (owner[r[1]] = v /\ committed[r[1]] <= r[2])
      BY <2>4, <2>5
    <3> HIDE DEF Held
    <3> QED
      BY <2>2, <2>3, <3>1 DEF Kept
  <2> QED
    BY <2>6, <2>7 DEF Kept
<1> QED
  BY <1>3, <1>4

LEMMA NothingLostStep ==
    Types /\ Types' /\ Placed /\ NothingLost /\ [Next]_vars => NothingLost'
<1> SUFFICES ASSUME Types, Types', Placed, NothingLost, [Next]_vars PROVE NothingLost'
  OBVIOUS
<1>1. log' = log
  <2>1. ASSUME NEW w \in Workers, Work(w) \/ Throws(w) \/ Dies(w)
        PROVE  log' = log
    BY <2>1 DEF Work, Poll, LeaveLoop, Close, Sum, Hang, DiesOnRecord, Throws, Dies, Death, Gone,
      config
  <2>2. ASSUME NEW w \in Workers,
               \/ AutoCommit(w) \/ Revoke(w) \/ Expel(w)
               \/ \E p \in Partitions : Assign(p, w)
               \/ \E r \in Records : Deliver(w, r)
        PROVE  log' = log
    BY <2>2 DEF AutoCommit, Revoke, Expel, Assign, Deliver, config
  <2>3. CASE Hook \/ Halts \/ Restart \/ UNCHANGED vars
    BY <2>3 DEF Hook, Halts, Gone, Restart, vars, config
  <2> QED
    BY <2>1, <2>2, <2>3 DEF Next
<1>2. Wanted' = Wanted
  BY <1>1, WantedStays
<1>3. ASSUME NEW r \in Wanted, r[2] < position'[r[1]]
      PROVE  Kept(r)'
  BY <1>3, KeptWork, KeptClient, KeptProcess DEF Next
<1> QED
  BY <1>2, <1>3 DEF NothingLost

-----------------------------------------------------------------------------
(* The copies of a record.                                                 *)

\* A set of workers is finite, and its subsets are not larger.
LEMMA WorkersCount ==
    ASSUME NEW S, S \subseteq Workers
    PROVE  /\ IsFiniteSet(S) /\ Cardinality(S) \in Nat
           /\ \A T : T \subseteq S => Cardinality(T) <= Cardinality(S)
<1>1. IsFiniteSet(S)
  BY WorkersType, FS_Subset
<1>2. \A T : T \subseteq S => Cardinality(T) <= Cardinality(S)
  BY <1>1, FS_Subset
<1> QED
  BY <1>1, <1>2, FS_CardinalityType

\* One worker more, or less.
LEMMA WorkersUpdate ==
    ASSUME NEW S, S \subseteq Workers, NEW w \in Workers
    PROVE  /\ Cardinality(S \cup {w}) <= Cardinality(S) + 1
           /\ w \in S => Cardinality(S \ {w}) = Cardinality(S) - 1
<1>1. IsFiniteSet(S) /\ Cardinality(S) \in Nat
  BY WorkersCount
<1>2. Cardinality(S \cup {w}) = IF w \in S THEN Cardinality(S) ELSE Cardinality(S) + 1
  BY <1>1, FS_AddElement
<1>3. Cardinality(S \ {w}) = IF w \in S THEN Cardinality(S) - 1 ELSE Cardinality(S)
  BY <1>1, FS_RemoveElement
<1> QED
  BY <1>1, <1>2, <1>3

\* The results of a record in the buffers are finitely many, and which they are.
Cells(b) == UNION {{v} \X (1 .. b[v]) : v \in Workers}

LEMMA CellsType ==
    ASSUME NEW b \in [Workers -> Nat]
    PROVE  /\ IsFiniteSet(Cells(b)) /\ Cardinality(Cells(b)) \in Nat
           /\ \A x : x \in Cells(b) <=> \E v \in Workers : \E i \in 1 .. b[v] : x = <<v, i>>
<1> DEFINE Parts == {{v} \X (1 .. b[v]) : v \in Workers}
<1>1. IsFiniteSet(Parts)
  <2> DEFINE h == [v \in Workers |-> {v} \X (1 .. b[v])]
  <2>1. h \in Surjection(Workers, Parts)
    BY DEF Surjection
  <2> QED
    BY <2>1, WorkersType, FS_Surjection
<1>2. ASSUME NEW P \in Parts PROVE IsFiniteSet(P)
  <2>1. PICK v \in Workers : P = {v} \X (1 .. b[v])
    OBVIOUS
  <2> HIDE DEF Parts
  <2>2. b[v] \in Int /\ 1 \in Int
    OBVIOUS
  <2>3. IsFiniteSet(1 .. b[v])
    BY <2>2, FS_Interval
  <2>4. IsFiniteSet({v})
    BY FS_Singleton
  <2>5. IsFiniteSet({v} \X (1 .. b[v]))
    BY <2>3, <2>4, FS_Product
  <2> QED
    BY <2>1, <2>5
<1>3. IsFiniteSet(Cells(b))
  BY <1>1, <1>2, FS_UNION DEF Cells
<1>4. \A x : x \in Cells(b) <=> \E v \in Workers : \E i \in 1 .. b[v] : x = <<v, i>>
  BY DEF Cells
<1> QED
  BY <1>3, <1>4, FS_CardinalityType

LEMMA BufferingType ==
    ASSUME Types, NEW r \in Records
    PROVE  /\ IsFiniteSet(Buffering(r)) /\ Cardinality(Buffering(r)) \in Nat
           /\ \A x : x \in Buffering(r) <=>
                \E v \in Workers : \E i \in 1 .. buffered[v][r] : x = <<v, i>>
<1> DEFINE b == [v \in Workers |-> buffered[v][r]]
<1>1. b \in [Workers -> Nat]
  BY DEF Types
<1>2. Buffering(r) = Cells(b)
  BY DEF Buffering, Cells
<1>3. \A v \in Workers : b[v] = buffered[v][r]
  OBVIOUS
<1> HIDE DEF b
<1> QED
  BY <1>1, <1>2, <1>3, CellsType

\* The same of the next state.
LEMMA BufferingNext ==
    ASSUME Types', NEW r \in Records
    PROVE  /\ IsFiniteSet(Buffering(r)') /\ Cardinality(Buffering(r)') \in Nat
           /\ \A x : x \in Buffering(r)' <=>
                \E v \in Workers : \E i \in 1 .. buffered'[v][r] : x = <<v, i>>
<1> DEFINE b == [v \in Workers |-> buffered'[v][r]]
<1>1. b \in [Workers -> Nat]
  BY DEF Types
<1>2. Buffering(r)' = Cells(b)
  BY DEF Buffering, Cells
<1>3. \A v \in Workers : b[v] = buffered'[v][r]
  OBVIOUS
<1> HIDE DEF b
<1> QED
  BY <1>1, <1>2, <1>3, CellsType

\* Fewer results in the buffers, one more, one less.
LEMMA BufferingShrinks ==
    ASSUME Types, Types', NEW r \in Records,
           \A v \in Workers : buffered'[v][r] <= buffered[v][r]
    PROVE  Cardinality(Buffering(r)') <= Cardinality(Buffering(r))
<1>1. \A v \in Workers : buffered[v][r] \in Nat /\ buffered'[v][r] \in Nat
  BY DEF Types
<1>2. Buffering(r)' \subseteq Buffering(r)
  BY <1>1, BufferingType, BufferingNext
<1> QED
  BY <1>2, BufferingType, FS_Subset

LEMMA BufferingGrows ==
    ASSUME Types, Types', NEW r \in Records, NEW w \in Workers,
           buffered'[w][r] = buffered[w][r] + 1,
           \A v \in Workers \ {w} : buffered'[v][r] = buffered[v][r]
    PROVE  Cardinality(Buffering(r)') <= Cardinality(Buffering(r)) + 1
<1> DEFINE x == <<w, buffered[w][r] + 1>>
<1>1. \A v \in Workers : buffered[v][r] \in Nat /\ buffered'[v][r] \in Nat
  BY DEF Types
<1>2. ASSUME NEW y \in Buffering(r)' PROVE y \in Buffering(r) \cup {x}
  <2>1. PICK v \in Workers : \E i \in 1 .. buffered'[v][r] : y = <<v, i>>
    BY BufferingNext
  <2>0. PICK i \in 1 .. buffered'[v][r] : y = <<v, i>>
    BY <2>1
  <2>2. CASE i \in 1 .. buffered[v][r]
    BY <2>0, <2>2, BufferingType
  <2>3. CASE v = w /\ i = buffered[w][r] + 1
    BY <2>0, <2>3
  <2>4. i \in 1 .. buffered[v][r] \/ (v = w /\ i = buffered[w][r] + 1)
    BY <1>1
  <2> QED
    BY <2>2, <2>3, <2>4
<1> HIDE DEF x
<1>3. IsFiniteSet(Buffering(r)) /\ Cardinality(Buffering(r)) \in Nat
  BY BufferingType
<1>4. /\ IsFiniteSet(Buffering(r) \cup {x})
      /\ Cardinality(Buffering(r) \cup {x}) <= Cardinality(Buffering(r)) + 1
  <2>1. /\ IsFiniteSet(Buffering(r) \cup {x})
        /\ Cardinality(Buffering(r) \cup {x}) =
             IF x \in Buffering(r) THEN Cardinality(Buffering(r)) ELSE Cardinality(Buffering(r)) + 1
    BY <1>3, FS_AddElement
  <2> QED
    BY <1>3, <2>1
<1>5. Cardinality(Buffering(r)') <= Cardinality(Buffering(r) \cup {x})
  BY <1>2, <1>4, FS_Subset
<1>6. Cardinality(Buffering(r)') \in Nat /\ Cardinality(Buffering(r) \cup {x}) \in Nat
  BY <1>4, BufferingNext, FS_CardinalityType
<1> QED
  BY <1>3, <1>4, <1>5, <1>6

LEMMA BufferingDelivers ==
    ASSUME Types, Types', NEW r \in Records, NEW w \in Workers, r \in Held(w),
           buffered'[w][r] = buffered[w][r] - 1,
           \A v \in Workers \ {w} : buffered'[v][r] = buffered[v][r]
    PROVE  Cardinality(Buffering(r)') <= Cardinality(Buffering(r)) - 1
<1> DEFINE x == <<w, buffered[w][r]>>
<1>1. /\ \A v \in Workers : buffered[v][r] \in Nat /\ buffered'[v][r] \in Nat
      /\ buffered[w][r] > 0
  BY DEF Types, Held
<1>2. x \in Buffering(r)
  BY <1>1, BufferingType
<1>3. ASSUME NEW y \in Buffering(r)' PROVE y \in Buffering(r) \ {x}
  <2>1. PICK v \in Workers : \E i \in 1 .. buffered'[v][r] : y = <<v, i>>
    BY BufferingNext
  <2>0. PICK i \in 1 .. buffered'[v][r] : y = <<v, i>>
    BY <2>1
  <2>2. i \in 1 .. buffered[v][r] /\ (v # w \/ i # buffered[w][r])
    BY <1>1
  <2> QED
    BY <2>0, <2>2, BufferingType
<1> HIDE DEF x
<1>4. IsFiniteSet(Buffering(r)) /\ Cardinality(Buffering(r)) \in Nat
  BY BufferingType
<1>5. /\ IsFiniteSet(Buffering(r) \ {x})
      /\ Cardinality(Buffering(r) \ {x}) = Cardinality(Buffering(r)) - 1
  BY <1>2, <1>4, FS_RemoveElement
<1>6. Cardinality(Buffering(r)') <= Cardinality(Buffering(r) \ {x})
  BY <1>3, <1>5, FS_Subset
<1> QED
  BY <1>5, <1>6

Bounded(r) == Copies(r) <= unclean[r[1]] + Passed(r)

LEMMA CopiesType ==
    ASSUME NEW r \in Records
    PROVE  Types => /\ output[r] \in Nat /\ unclean[r[1]] \in Nat /\ Passed(r) \in {0, 1}
                    /\ Handling(r) \subseteq Workers
                    /\ Cardinality(Buffering(r)) \in Nat /\ Cardinality(Handling(r)) \in Nat
<1> SUFFICES ASSUME Types
             PROVE  /\ output[r] \in Nat /\ unclean[r[1]] \in Nat /\ Passed(r) \in {0, 1}
                    /\ Handling(r) \subseteq Workers
                    /\ Cardinality(Buffering(r)) \in Nat /\ Cardinality(Handling(r)) \in Nat
  OBVIOUS
<1>1. Handling(r) \subseteq Workers
  BY DEF Handling
<1>2. Cardinality(Buffering(r)) \in Nat /\ Cardinality(Handling(r)) \in Nat
  BY <1>1, WorkersCount, BufferingType
<1>3. output[r] \in Nat /\ unclean[r[1]] \in Nat /\ Passed(r) \in {0, 1}
  BY RecordType DEF Types, Passed
<1> QED
  BY <1>1, <1>2, <1>3

\* Steps that make no copy and take no commit away.
LEMMA NoCopy ==
    ASSUME Types, Types', NEW r \in Records, Bounded(r), output'[r] = output[r],
           \A v \in Workers : buffered'[v][r] <= buffered[v][r],
           \A v \in Workers : r \in hand'[v] => r \in hand[v],
           \/ unclean'[r[1]] = unclean[r[1]]
              /\ (r[2] < position[r[1]] => r[2] < position'[r[1]])
           \/ unclean'[r[1]] = unclean[r[1]] + 1
    PROVE  Bounded(r)'
<1>1. Handling(r)' \subseteq Handling(r)
  BY DEF Handling
<1>2. /\ Cardinality(Buffering(r)') <= Cardinality(Buffering(r))
      /\ Cardinality(Handling(r)') <= Cardinality(Handling(r))
  BY <1>1, CopiesType, WorkersCount, BufferingShrinks
<1>3. Passed(r) \in {0, 1} /\ Passed(r)' \in {0, 1}
  BY DEF Passed
<1>4. \/ unclean'[r[1]] = unclean[r[1]] /\ Passed(r) <= Passed(r)'
      \/ unclean'[r[1]] = unclean[r[1]] + 1
  BY DEF Passed
<1>5. Copies(r)' = output'[r] + Cardinality(Buffering(r)') + Cardinality(Handling(r)')
  BY DEF Copies
<1>6. output[r] + Cardinality(Buffering(r)) + Cardinality(Handling(r))
        <= unclean[r[1]] + Passed(r)
  BY DEF Bounded, Copies
<1>7. /\ Cardinality(Buffering(r)') \in Nat /\ Cardinality(Handling(r)') \in Nat
      /\ unclean'[r[1]] \in Nat
  <2>1. Handling(r)' \subseteq Workers
    BY DEF Handling
  <2> QED
    BY <2>1, WorkersCount, BufferingNext, RecordType DEF Types
<1>8. PICK o \in Nat, b \in Nat, h \in Nat, u \in Nat, c \in Nat, k \in Nat :
        /\ o = output[r] /\ b = Cardinality(Buffering(r)) /\ h = Cardinality(Handling(r))
        /\ u = unclean[r[1]] /\ c = Cardinality(Buffering(r)') /\ k = Cardinality(Handling(r)')
  BY <1>7, CopiesType
<1>9. PICK m \in Nat, n \in Nat, x \in Nat :
        m = Passed(r) /\ n = Passed(r)' /\ x = unclean'[r[1]]
  BY <1>3, <1>7
<1>10. /\ c <= b /\ k <= h /\ o + b + h <= u + m /\ m <= 1
       /\ (x = u /\ m <= n) \/ x = u + 1
  BY <1>2, <1>3, <1>4, <1>6, <1>8, <1>9
<1>11. o + c + k <= x + n
  BY <1>10
<1> QED
  BY <1>5, <1>8, <1>9, <1>11 DEF Bounded

\* Buffers that do not change.
LEMMA SameBuffers ==
    ASSUME Types, buffered' = buffered, NEW r \in Records
    PROVE  \A v \in Workers : buffered'[v][r] <= buffered[v][r]
BY DEF Types

\* A result or a position that moves on takes a copy along.
LEMMA CopyMoves ==
    ASSUME NEW o \in Nat, NEW b \in Nat, NEW h \in Nat, NEW u \in Nat, NEW m \in Nat,
           NEW d \in Nat, NEW c \in Nat, NEW k \in Nat, NEW n \in Nat,
           o + b + h <= u + m, d + c + k + m <= o + b + h + n
    PROVE  d + c + k <= u + n
OBVIOUS

LEMMA Moved ==
    ASSUME Types, Types', NEW r \in Records, Bounded(r), unclean'[r[1]] = unclean[r[1]],
           output'[r] + Cardinality(Buffering(r)') + Cardinality(Handling(r)') + Passed(r) <=
             output[r] + Cardinality(Buffering(r)) + Cardinality(Handling(r)) + Passed(r)'
    PROVE  Bounded(r)'
<1>1. /\ Cardinality(Buffering(r)') \in Nat /\ Cardinality(Handling(r)') \in Nat
      /\ output'[r] \in Nat /\ Passed(r)' \in Nat
  <2>1. Handling(r)' \subseteq Workers
    BY DEF Handling
  <2> QED
    BY <2>1, WorkersCount, BufferingNext DEF Types, Passed
<1>2. /\ Cardinality(Buffering(r)) \in Nat /\ Cardinality(Handling(r)) \in Nat
      /\ output[r] \in Nat /\ Passed(r) \in Nat /\ unclean[r[1]] \in Nat
  BY CopiesType
<1>3. output[r] + Cardinality(Buffering(r)) + Cardinality(Handling(r))
        <= unclean[r[1]] + Passed(r)
  BY DEF Bounded, Copies
<1>4. output'[r] + Cardinality(Buffering(r)') + Cardinality(Handling(r)')
        <= unclean[r[1]] + Passed(r)'
  BY <1>1, <1>2, <1>3, CopyMoves
<1> QED
  BY <1>4 DEF Bounded, Copies

LEMMA CopiesDeath ==
    ASSUME Types, Types', CopiesBound, NEW w \in Workers, Death(w), NEW r \in Records
    PROVE  Bounded(r)'
<1>0. Bounded(r) /\ r[1] \in Partitions
  BY RecordType DEF CopiesBound, Bounded
<1>1. Gone({w}) /\ (Leaves(w) \/ IsTakenFrom({w}))
  BY DEF Death
<1>2. /\ output'[r] = output[r]
      /\ \A v \in Workers : buffered'[v][r] <= buffered[v][r]
      /\ \A v \in Workers : r \in hand'[v] => r \in hand[v]
  BY <1>1, GoneWorkers
<1>3. \/ unclean'[r[1]] = unclean[r[1]]
         /\ (r[2] < position[r[1]] => r[2] < position'[r[1]])
      \/ unclean'[r[1]] = unclean[r[1]] + 1
  <2>1. CASE Leaves(w)
    BY <2>1, LeavesGroup
  <2>2. CASE IsTakenFrom({w})
    BY <1>0, <2>2, TakenGroup
  <2> QED
    BY <1>1, <2>1, <2>2
<1> QED
  BY <1>0, <1>2, <1>3, SameBuffers, NoCopy

LEMMA CopiesWork ==
    ASSUME Types, Types', Placed, CopiesBound, NEW w \in Workers, Work(w) \/ Throws(w) \/ Dies(w),
           NEW r \in Records
    PROVE  Bounded(r)'
<1>0. Bounded(r) /\ r[1] \in Partitions /\ r[2] \in Nat /\ InHand(w)
  BY RecordType DEF CopiesBound, Bounded, Placed
<1>1. CASE Poll(w)
  <2>1. PICK to \in [Partitions -> 0 .. MaxRecords] :
          /\ \A p \in Partitions :
               to[p] \in position[p] .. IF p \in Owned(w) THEN Len(log[p]) ELSE position[p]
          /\ hand' = [hand EXCEPT ![w] = Batch(w, to)]
          /\ position' = to
    BY <1>1 DEF Poll
  <2>2. pc[w] = "poll" /\ UNCHANGED <<buffered, output, unclean>>
    BY <1>1 DEF Poll, history
  <2>3. hand[w] = {} /\ \A v \in Workers \ {w} : hand'[v] = hand[v]
    BY <1>0, <2>1, <2>2 DEF InHand, Types
  <2>4. position[r[1]] \in Nat /\ position'[r[1]] \in Nat /\ position[r[1]] <= position'[r[1]]
    BY <1>0, <2>1 DEF Types
  <2>5. CASE r \in Batch(w, to)
    <3>1. position[r[1]] <= r[2] /\ r[2] < position'[r[1]]
      <4>1. r[2] \in position[r[1]] .. to[r[1]] - 1
        BY <2>5 DEF Batch
      <4> QED
        BY <1>0, <2>1, <2>4, <4>1
    <3>2. Passed(r) = 0 /\ Passed(r)' = 1
      BY <1>0, <2>4, <3>1 DEF Passed
    <3>3. Handling(r)' \subseteq Handling(r) \cup {w} /\ Handling(r) \cup {w} \subseteq Workers
      BY <2>3 DEF Handling
    <3>4. Cardinality(Handling(r)') <= Cardinality(Handling(r) \cup {w})
      BY <3>3, WorkersCount
    <3>5. Cardinality(Handling(r) \cup {w}) <= Cardinality(Handling(r)) + 1
      BY <3>3, WorkersUpdate
    <3>6. /\ Cardinality(Handling(r)') \in Nat /\ Cardinality(Handling(r) \cup {w}) \in Nat
      <4>1. Handling(r)' \subseteq Workers
        BY <3>3
      <4> QED
        BY <3>3, <4>1, WorkersCount
    <3>7. Cardinality(Handling(r)') <= Cardinality(Handling(r)) + 1
      BY <3>4, <3>5, <3>6, CopiesType
    <3>8. Buffering(r)' = Buffering(r) /\ output'[r] = output[r]
      BY <2>2 DEF Buffering
    <3>9. output'[r] + Cardinality(Buffering(r)') + Cardinality(Handling(r)') + Passed(r) <=
            output[r] + Cardinality(Buffering(r)) + Cardinality(Handling(r)) + Passed(r)'
      <4>1. PICK k \in Nat : k = Cardinality(Handling(r)')
        BY <3>6
      <4>2. output[r] + Cardinality(Buffering(r)) + k + 0 <=
              output[r] + Cardinality(Buffering(r)) + Cardinality(Handling(r)) + 1
        BY <3>7, <4>1, CopiesType
      <4> QED
        BY <3>2, <3>8, <4>1, <4>2
    <3> QED
      BY <1>0, <2>2, <3>9, Moved
  <2>6. CASE r \notin Batch(w, to)
    <3>1. \A v \in Workers : r \in hand'[v] => r \in hand[v]
      BY <2>1, <2>3, <2>6 DEF Types
    <3>2. r[2] < position[r[1]] => r[2] < position'[r[1]]
      BY <1>0, <2>4
    <3> QED
      BY <1>0, <2>2, <3>1, <3>2, SameBuffers, NoCopy
  <2> QED
    BY <2>5, <2>6
<1>2. CASE LeaveLoop(w)
  BY <1>0, <1>2, SameBuffers, NoCopy DEF LeaveLoop, group, history
<1>3. CASE Close(w)
  <2>1. UNCHANGED <<hand, buffered, output>> /\ (Leaves(w) \/ IsTakenFrom({w}))
    BY <1>3 DEF Close
  <2>2. \/ unclean'[r[1]] = unclean[r[1]]
           /\ (r[2] < position[r[1]] => r[2] < position'[r[1]])
        \/ unclean'[r[1]] = unclean[r[1]] + 1
    BY <1>0, <2>1, LeavesGroup, TakenGroup
  <2> QED
    BY <1>0, <2>1, <2>2, SameBuffers, NoCopy
<1>4. ASSUME NEW s \in Records, Sum(w, s)
      PROVE  Bounded(r)'
  <2>1. /\ UNCHANGED <<group, output, unclean>>
        /\ hand' = [hand EXCEPT ![w] = hand[w] \ {s}] /\ s \in hand[w]
        /\ buffered' = [buffered EXCEPT ![w][s] =
                          IF Effect(s) = "result" THEN buffered[w][s] + 1 ELSE buffered[w][s]]
    BY <1>4 DEF Sum, NextRecord, history
  <2>b. \A v \in Workers : buffered'[v][r] =
          IF v = w /\ r = s /\ Effect(s) = "result" THEN buffered[v][r] + 1 ELSE buffered[v][r]
    BY <2>1 DEF Types
  <2>c. \A v \in Workers : buffered[v][r] \in Nat
    BY DEF Types
  <2>2. CASE s = r
    <3>2. Handling(r)' = Handling(r) \ {w} /\ w \in Handling(r) /\ Handling(r) \subseteq Workers
      BY <2>1, <2>2 DEF Handling, Types
    <3>3. Cardinality(Handling(r)') = Cardinality(Handling(r)) - 1
      BY <3>2, WorkersUpdate
    <3>4. Cardinality(Buffering(r)') \in Nat
      BY BufferingNext
    <3>6. Cardinality(Buffering(r)') <= Cardinality(Buffering(r)) + 1
      <4>1. CASE Effect(s) = "result"
        BY <2>2, <2>b, <4>1, BufferingGrows
      <4>2. CASE Effect(s) # "result"
        <5>1. Cardinality(Buffering(r)') <= Cardinality(Buffering(r))
          BY <2>b, <2>c, <4>2, BufferingShrinks
        <5> QED
          BY <5>1, <3>4, CopiesType
      <4> QED
        BY <4>1, <4>2
    <3>7. Passed(r)' = Passed(r) /\ output' = output
      BY <2>1 DEF Passed, group
    <3>8. output'[r] + Cardinality(Buffering(r)') + Cardinality(Handling(r)') + Passed(r) <=
            output[r] + Cardinality(Buffering(r)) + Cardinality(Handling(r)) + Passed(r)'
      <4>1. PICK c \in Nat, h \in Nat, k \in Int :
              /\ c = Cardinality(Buffering(r)') /\ h = Cardinality(Handling(r))
              /\ k = Cardinality(Handling(r)')
        BY <3>3, <3>4, CopiesType
      <4>2. output[r] + c + k + Passed(r) <=
              output[r] + Cardinality(Buffering(r)) + h + Passed(r)
        BY <3>3, <3>6, <4>1, CopiesType
      <4> QED
        BY <3>7, <4>1, <4>2
    <3> QED
      BY <1>0, <2>1, <3>8, Moved
  <2>3. CASE s # r
    <3>1. /\ \A v \in Workers : buffered'[v][r] <= buffered[v][r]
          /\ \A v \in Workers : r \in hand'[v] => r \in hand[v]
      BY <2>1, <2>3, <2>b, <2>c DEF Types
    <3> QED
      BY <1>0, <2>1, <3>1, SameBuffers, NoCopy DEF group
  <2> QED
    BY <2>2, <2>3
<1>5. ASSUME NEW s \in Records, Hang(w, s)
      PROVE  Bounded(r)'
  BY <1>0, <1>5, SameBuffers, NoCopy DEF Hang, group, history
<1>6. CASE Dies(w) \/ \E s \in Records : DiesOnRecord(w, s)
  BY <1>6, CopiesDeath DEF Dies, DiesOnRecord
<1>7. CASE Throws(w)
  <2>1. /\ UNCHANGED <<buffered, group, output, unclean>>
        /\ hand' = [hand EXCEPT ![w] = {}]
    BY <1>7 DEF Throws
  <2>2. \A v \in Workers : r \in hand'[v] => r \in hand[v]
    BY <2>1 DEF Types
  <2> QED
    BY <1>0, <2>1, <2>2, SameBuffers, NoCopy DEF group
<1> QED
  BY <1>1, <1>2, <1>3, <1>4, <1>5, <1>6, <1>7 DEF Work

LEMMA CopiesClient ==
    ASSUME Types, Types', Placed, CopiesBound, NEW w \in Workers,
           \/ AutoCommit(w) \/ Revoke(w) \/ Expel(w)
           \/ \E p \in Partitions : Assign(p, w)
           \/ \E s \in Records : Deliver(w, s),
           NEW r \in Records
    PROVE  Bounded(r)'
<1>0. Bounded(r) /\ r[1] \in Partitions
  BY RecordType DEF CopiesBound, Bounded
<1>1. CASE AutoCommit(w)
  BY <1>0, <1>1, SameBuffers, NoCopy DEF AutoCommit, worker, history
<1>2. CASE Revoke(w) \/ Expel(w)
  <2>1. UNCHANGED <<hand, buffered, output>> /\ (Leaves(w) \/ IsTakenFrom({w}))
    BY <1>2 DEF Revoke, Expel, worker
  <2>2. \/ unclean'[r[1]] = unclean[r[1]]
           /\ (r[2] < position[r[1]] => r[2] < position'[r[1]])
        \/ unclean'[r[1]] = unclean[r[1]] + 1
    BY <1>0, <2>1, LeavesGroup, TakenGroup
  <2> QED
    BY <1>0, <2>1, <2>2, SameBuffers, NoCopy
<1>3. ASSUME NEW q \in Partitions, Assign(q, w)
      PROVE  Bounded(r)'
  <2>1. /\ UNCHANGED <<hand, buffered, output, unclean>> /\ owner[q] = NoOne
        /\ position' = [position EXCEPT ![q] = committed[q]]
    BY <1>3 DEF Assign, worker, history
  <2>2. position' = position
    BY <2>1 DEF Placed, Read, Types
  <2> QED
    BY <1>0, <2>1, <2>2, SameBuffers, NoCopy
<1>4. ASSUME NEW s \in Records, Deliver(w, s)
      PROVE  Bounded(r)'
  <2>1. /\ UNCHANGED <<hand, group, unclean>> /\ s \in Held(w)
        /\ buffered' = [buffered EXCEPT ![w][s] = buffered[w][s] - 1]
        /\ \/ output' = [output EXCEPT ![s] = output[s] + 1]
           \/ UNCHANGED output
    BY <1>4 DEF Deliver
  <2>2. CASE s = r
    <3>1. /\ buffered'[w][r] = buffered[w][r] - 1
          /\ \A v \in Workers \ {w} : buffered'[v][r] = buffered[v][r]
      BY <2>1, <2>2 DEF Types
    <3>2. /\ Cardinality(Buffering(r)') <= Cardinality(Buffering(r)) - 1
          /\ Cardinality(Buffering(r)') \in Nat
      BY <2>1, <2>2, <3>1, BufferingDelivers, BufferingNext
    <3>3. output'[r] = output[r] \/ output'[r] = output[r] + 1
      BY <2>1, <2>2 DEF Types
    <3>4. Passed(r)' = Passed(r) /\ Handling(r)' = Handling(r)
      BY <2>1 DEF Passed, Handling, group
    <3>5. PICK c \in Int, d \in Int : c = Cardinality(Buffering(r)') /\ d = output'[r]
      BY <3>2, <3>3, CopiesType
    <3>6. d + c + Cardinality(Handling(r)) + Passed(r) <=
            output[r] + Cardinality(Buffering(r)) + Cardinality(Handling(r)) + Passed(r)
      BY <3>2, <3>3, <3>5, CopiesType
    <3>7. output'[r] + Cardinality(Buffering(r)') + Cardinality(Handling(r)') + Passed(r) <=
            output[r] + Cardinality(Buffering(r)) + Cardinality(Handling(r)) + Passed(r)'
      BY <3>4, <3>5, <3>6
    <3> QED
      BY <1>0, <2>1, <3>7, Moved
  <2>3. CASE s # r
    <3>1. output'[r] = output[r] /\ \A v \in Workers : buffered'[v][r] <= buffered[v][r]
      BY <2>1, <2>3 DEF Types
    <3> QED
      BY <1>0, <2>1, <3>1, SameBuffers, NoCopy DEF group
  <2> QED
    BY <2>2, <2>3
<1> QED
  BY <1>1, <1>2, <1>3, <1>4

LEMMA CopiesStep == Types /\ Types' /\ Placed /\ CopiesBound /\ [Next]_vars => CopiesBound'
<1> SUFFICES ASSUME Types, Types', Placed, CopiesBound, [Next]_vars, NEW r \in Records
             PROVE  Bounded(r)'
  BY DEF CopiesBound, Bounded
<1>0. Bounded(r) /\ r[1] \in Partitions
  BY RecordType DEF CopiesBound, Bounded
<1>1. CASE Hook \/ Restart \/ UNCHANGED vars
  BY <1>0, <1>1, SameBuffers, NoCopy DEF Hook, Restart, vars, worker, group, history
<1>2. CASE Halts
  <2>1. Gone(Workers) /\ IsTakenFrom(Workers)
    BY <1>2 DEF Halts
  <2>2. /\ output'[r] = output[r]
        /\ \A v \in Workers : buffered'[v][r] <= buffered[v][r]
        /\ \A v \in Workers : r \in hand'[v] => r \in hand[v]
    BY <2>1, GoneWorkers
  <2>3. \/ unclean'[r[1]] = unclean[r[1]]
           /\ (r[2] < position[r[1]] => r[2] < position'[r[1]])
        \/ unclean'[r[1]] = unclean[r[1]] + 1
    BY <1>0, <2>1, TakenGroup
  <2> QED
    BY <1>0, <2>2, <2>3, SameBuffers, NoCopy
<1> QED
  BY <1>1, <1>2, CopiesWork, CopiesClient DEF Next

LEMMA CopiesInit == Init => CopiesBound
<1> SUFFICES ASSUME Init, NEW r \in Records PROVE Bounded(r)
  BY DEF CopiesBound, Bounded
<1>1. r[1] \in Partitions /\ r[2] \in Nat
  BY RecordType
<1>2. Buffering(r) = {} /\ Handling(r) = {}
  <2>1. \A v \in Workers : buffered[v][r] = 0
    BY DEF Init, NoResults
  <2>2. \A x : x \notin Buffering(r)
    BY <2>1 DEF Buffering
  <2> QED
    BY <2>2 DEF Init, Handling
<1>3. output[r] = 0 /\ unclean[r[1]] = 0 /\ Passed(r) = 0
  BY <1>1 DEF Init, Zero, NoResults, Passed
<1> QED
  BY <1>2, <1>3, FS_EmptySet DEF Bounded, Copies

-----------------------------------------------------------------------------
(* The invariant, and what follows from it.                                *)

LEMMA Inductive == Spec => []IInv
<1>1. Init => IInv
  BY TypesInit, PlacedInit, NothingLostInit, CopiesInit DEF IInv
<1>2. IInv /\ [Next]_vars => IInv'
  BY TypesStep, PlacedStep, NothingLostStep, CopiesStep DEF IInv
<1> QED
  BY <1>1, <1>2, PTL DEF Spec

\* Every variable has its type: only a worker that handles a record or hangs on it has records in
\* hand, no partition belongs to a worker that has ended, and whatever is polled, committed and
\* given back, a committed offset never passes the position, nor the position the log.
THEOREM TypeCorrect == Spec => []TypeOK
<1>1. IInv => TypeOK
  <2> SUFFICES ASSUME IInv PROVE TypeOK
    OBVIOUS
  <2>1. /\ \A w \in Workers : hand[w] # {} <=> pc[w] \in {"handle", "hung"}
        /\ \A p \in Partitions : owner[p] # NoOne => ~Ended(owner[p])
    BY DEF IInv, Placed, InHand, Owners
  <2>2. \A p \in Partitions :
          /\ committed[p] <= position[p] /\ position[p] <= Len(log[p])
          /\ owner[p] = NoOne => committed[p] = position[p]
    BY DEF IInv, Placed, Read
  <2>3. faults <= MaxFaults /\ rebalances <= MaxRebalances /\ starts <= MaxStarts
    BY WorkersType DEF IInv, Types
  <2> QED
    BY <2>1, <2>2, <2>3 DEF IInv, Types, TypeOK
<1> QED
  BY <1>1, Inductive, PTL

\* Whatever crashes, halts, hangs or is expelled, for any partitions and workers: a record whose
\* offset is committed has its result in the topic or in a buffer, or is in the hand of a worker,
\* unless a producer has dropped the result, or an error has ended a worker or its process with
\* the record in hand.  The Java client commits in poll() and close() only, when its worker has
\* summed all it had in hand or has thrown it away.
THEOREM LostBoundTheorem == Spec => []LostBound
<1>1. IInv => LostBound
  <2> SUFFICES ASSUME IInv, NEW r \in Missing
               PROVE  r \in discarded \cup abandoned
    BY DEF LostBound
  <2>1. r \in Wanted /\ r \in Records /\ r[1] \in Partitions /\ r[2] \in Nat
    BY RecordType DEF Missing, Wanted
  <2>2. /\ r[2] < committed[r[1]] /\ output[r] = 0
        /\ \A w \in Workers : r \notin Held(w) /\ (Ended(w) \/ r \notin hand[w])
    BY DEF Missing
  <2>3. r[2] < position[r[1]]
    <3>1. committed[r[1]] \in Nat /\ position[r[1]] \in Nat /\ committed[r[1]] <= position[r[1]]
      BY <2>1 DEF IInv, Types, Placed, Read
    <3> QED
      BY <2>1, <2>2, <3>1
  <2>4. Kept(r)
    BY <2>1, <2>3 DEF IInv, NothingLost
  <2>5. \A w \in Workers : r \notin hand[w]
    BY <2>2 DEF IInv, Placed, InHand, Ended
  <2> QED
    BY <2>2, <2>4, <2>5 DEF Kept
<1> QED
  BY <1>1, Inductive, PTL

\* A record has more than one result, in the topic or in the buffers of any number of producers,
\* only as often as its partition has lost a worker without a commit.
THEOREM TwiceBoundTheorem == Spec => []TwiceBound
<1>1. IInv => TwiceBound
  <2> SUFFICES ASSUME IInv, NEW r \in Wanted
               PROVE  output[r] + Cardinality(Buffering(r)) <= 1 + unclean[r[1]]
    BY DEF TwiceBound
  <2>1. r \in Records
    BY DEF Wanted
  <2>2. output[r] + Cardinality(Buffering(r)) + Cardinality(Handling(r))
          <= unclean[r[1]] + Passed(r)
    BY <2>1 DEF IInv, CopiesBound, Copies
  <2> QED
    BY <2>1, <2>2, CopiesType DEF IInv
<1> QED
  BY <1>1, Inductive, PTL

=============================================================================
