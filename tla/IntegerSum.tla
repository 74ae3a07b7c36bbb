---------------------------- MODULE IntegerSum ----------------------------
(***************************************************************************)
(* The transformation of the stream-sum processors, one byte at a time:    *)
(* read a list of zig-zag varints, add the integers up, write the sum as a *)
(* zig-zag varint; a consumer then reads the sum.  The processors differ   *)
(* in three places: what reading past the end of a payload does, whether   *)
(* a block with a negative count carries its size in bytes, and whether    *)
(* the encoder works on a signed or an unsigned integer.                   *)
(*                                                                         *)
(* Long is the signed type of Width bits (64 in the code), a byte carries  *)
(* Group bits of payload (7 in the code) and a continuation bit.           *)
(***************************************************************************)
EXTENDS Integers, Sequences

CONSTANTS
    Width,         \* bits of a long
    Group,         \* payload bits of a byte
    Processors,    \* the implementations that are run
    Lists,         \* the lists they are given: sequences of blocks
    MaxCut         \* bytes a payload may be short of

ASSUME WidthType == Group \in Nat \ {0} /\ Width \in Nat /\ Width > Group + 1
ASSUME ProcessorsType ==
    Processors \subseteq {"krafka", "rust", "go", "c", "java"} /\ MaxCut \in Nat

\* 2^n, in a form that can be reasoned about.
Two[n \in Nat] == IF n = 0 THEN 1 ELSE 2 * Two[n - 1]

Base == Two[Group]          \* values of the payload of a byte
Half == Two[Width - 1]      \* longs from 0 on
Full == Two[Width]          \* longs

Long == -Half .. Half - 1
Wrap(n) == ((n + Half) % Full) - Half

\* The count of a block is a long, and a block that is written has integers in it.
ASSUME ListsType ==
    \A l \in Lists :
        /\ l \in Seq([sized : BOOLEAN, items : Seq(Long)])
        /\ \A k \in DOMAIN l : Len(l[k].items) \in 1 .. Half - 1

VARIABLES
    proc,          \* the processor
    list, cut,     \* the list in the payload, and the bytes missing at its end
    payload,       \* the bytes being read
    pos,           \* the next byte
    val, shift,    \* the varint read so far
    want,          \* what the varint is, or where the processor is
    left,          \* integers of the block not read yet
    sum,           \* the sum so far
    result         \* what the consumer printed

vars == <<proc, list, cut, payload, pos, val, shift, want, left, sum, result>>

-----------------------------------------------------------------------------
(* Writing.                                                                *)

\* (n << 1) ^ (n >> 63), a long.
ZigZag(n) == IF n >= 0 THEN Wrap(2 * n) ELSE -Wrap(2 * n) - 1

\* The loop of write_varint over a value that is not negative.
Groups[v \in Nat] ==
    IF v < Base THEN <<v>> ELSE <<Base + (v % Base)>> \o Groups[v \div Base]

\* The cast to u64 comes before the loop ...
WriteUnsigned(n) == Groups[ZigZag(n) % Full]

\* ... or there is none, and a negative value leaves the loop at once as its lowest byte.
WriteSigned(n) ==
    IF ZigZag(n) < 0 THEN <<ZigZag(n) % (2 * Base)>> ELSE Groups[ZigZag(n)]

Write(n) == IF proc \in {"rust", "java"} THEN WriteSigned(n) ELSE WriteUnsigned(n)

\* For each k, the sequences of s from the k-th on and then end.
JoinedFrom(s, end) ==
    LET from[k \in 1 .. Len(s) + 1] == IF k > Len(s) THEN end ELSE s[k] \o from[k + 1]
    IN  from

\* A list as its producers write it; a negative count is followed by the size in bytes.
ItemBytes(b) == JoinedFrom([j \in DOMAIN b.items |-> WriteUnsigned(b.items[j])], <<>>)
Bytes(b) == ItemBytes(b)[1]
Block(b) ==
    (IF b.sized THEN WriteUnsigned(-Len(b.items)) \o WriteUnsigned(Len(Bytes(b)))
     ELSE WriteUnsigned(Len(b.items)))
    \o Bytes(b)
ListBytes(l) == JoinedFrom([k \in DOMAIN l |-> Block(l[k])], <<0>>)
Payload(l) == ListBytes(l)[1]

-----------------------------------------------------------------------------
(* Faulty variants of operators below, each a slip the code could have     *)
(* made.  No specification uses them: they show that a property can fail.  *)

NeverSized == FALSE
ZeroAtEnd == "zero"
HangsAtEnd == "hangs"
Unwrapped(n) == sum + n

-----------------------------------------------------------------------------
(* Reading.                                                                *)

\* What the processor does when a varint goes past the end of the payload.
AtEnd == CASE proc \in {"krafka", "rust", "go"} -> "panics"
           [] proc = "c"    -> "cut"    \* the varint ends there
           [] proc = "java" -> "zero"   \* the varint is 0

\* Whether a negative count is followed by a size, and means its absolute value.
SkipsSize == proc # "krafka"

\* (val >> 1) ^ -(val & 1)
UnZigZag(v) == IF v % 2 = 0 THEN v \div 2 ELSE -(v \div 2) - 1

\* sum += n
Added(n) == Wrap(sum + n)

Reading == want \in {"count", "size", "item", "sum"}
More == pos <= Len(payload)

\* The value of val |= (b & 0x7F) << shift.
Val == (val + (payload[pos] % Base) * Two[shift]) % Full

\* The byte ends the varint: it has no continuation bit, or krafka's processor and the
\* consumer have read as many bytes as a long can take.
LastByte ==
    \/ payload[pos] < Base
    \/ (proc = "krafka" \/ want = "sum") /\ shift + Group >= Width

\* A byte with the continuation bit.
ReadGroup ==
    /\ Reading /\ More /\ ~LastByte
    /\ pos' = pos + 1 /\ val' = Val /\ shift' = shift + Group
    /\ UNCHANGED <<proc, list, cut, payload, want, left, sum, result>>

\* What is read after the integers of a block: the next one or the next count.
AfterItems(n) == IF n = 0 THEN "count" ELSE "item"

\* The varint is complete and worth n; the payload goes on at p.
Complete(n, p) ==
    /\ val' = 0 /\ shift' = 0
    /\ \/ /\ want = "count" /\ n = 0            \* the list ends: the sum is written and sent
          /\ want' = "sum"
          /\ payload' = Write(sum) /\ pos' = 1
          /\ UNCHANGED <<left, sum, result>>
       \/ /\ want = "count" /\ n # 0
          /\ left' = IF n > 0 THEN n ELSE IF SkipsSize THEN -n ELSE 0
          /\ want' = IF n < 0 /\ SkipsSize THEN "size" ELSE AfterItems(left')
          /\ pos' = p
          /\ UNCHANGED <<payload, sum, result>>
       \/ /\ want = "size"
          /\ want' = "item"
          /\ pos' = p
          /\ UNCHANGED <<payload, left, sum, result>>
       \/ /\ want = "item"
          /\ sum' = Added(n)
          /\ left' = left - 1
          /\ want' = AfterItems(left - 1)
          /\ pos' = p
          /\ UNCHANGED <<payload, result>>
       \/ /\ want = "sum"
          /\ result' = n
          /\ want' = "done"
          /\ pos' = p
          /\ UNCHANGED <<payload, left, sum>>
    /\ UNCHANGED <<proc, list, cut>>

ReadLast ==
    /\ Reading /\ More /\ LastByte
    /\ Complete(UnZigZag(Val), pos + 1)

\* The varint goes past the end of the payload.
ReadPastEnd ==
    /\ Reading /\ ~More
    /\ \/ /\ AtEnd = "panics" \/ want = "sum"
          /\ want' = "panicked"
          /\ UNCHANGED <<proc, list, cut, payload, pos, val, shift, left, sum, result>>
       \/ AtEnd = "cut" /\ want # "sum" /\ Complete(UnZigZag(val), pos)
       \/ AtEnd = "zero" /\ want # "sum" /\ Complete(0, pos)

Init ==
    /\ proc \in Processors
    /\ list \in Lists /\ cut \in 0 .. MaxCut
    /\ cut < Len(Payload(list))
    /\ payload = SubSeq(Payload(list), 1, Len(Payload(list)) - cut)
    /\ pos = 1 /\ val = 0 /\ shift = 0
    /\ want = "count" /\ left = 0 /\ sum = 0 /\ result = 0

Terminated == want \in {"done", "panicked"} /\ UNCHANGED vars

Next == ReadGroup \/ ReadLast \/ ReadPastEnd \/ Terminated

Spec == Init /\ [][Next]_vars /\ WF_vars(ReadGroup \/ ReadLast \/ ReadPastEnd)

-----------------------------------------------------------------------------
TypeOK ==
    /\ proc \in Processors /\ list \in Lists /\ cut \in 0 .. MaxCut
    /\ payload \in Seq(0 .. 2 * Base - 1)
    /\ pos \in 1 .. Len(payload) + 1
    /\ val \in 0 .. Full - 1 /\ shift \in Nat
    /\ want \in {"count", "size", "item", "sum", "done", "panicked"}
    /\ left \in 0 .. Half /\ sum \in Long /\ result \in Long

Sized(l) == \E k \in DOMAIN l : l[k].sized

\* krafka's processor knows only positive counts.
Readable(l) == Sized(l) => proc # "krafka"

\* For each k, the sum of the integers of s from the k-th on.
SumFrom(s) ==
    LET from[k \in 1 .. Len(s) + 1] == IF k > Len(s) THEN 0 ELSE s[k] + from[k + 1]
    IN  from

\* The sum of all integers of the list, without overflow.
BlockSums(l) == [k \in DOMAIN l |-> SumFrom(l[k].items)[1]]
Total(l) == SumFrom(BlockSums(l))[1]

\* A complete list, in blocks of either form, is summed modulo 2^Width, every integer once.
ListSummed ==
    want \in {"sum", "done"} /\ cut = 0 /\ Readable(list) => sum = Wrap(Total(list))

\* A payload that lost bytes at its end never yields a sum where reading past the end panics:
\* no proper prefix of a list is a list.
TruncationDetected ==
    cut > 0 /\ proc \in {"krafka", "rust", "go"} /\ Readable(list) =>
        want \notin {"sum", "done"}

\* The encoder that works on signed integers has this range only.
Writable(n) == proc \in {"rust", "java"} => n \in -Two[Width - 2] .. Two[Width - 2] - 1

\* The consumer reads the sum the processor computed, all longs included where the encoder is
\* unsigned.
ResultExact == want = "done" /\ Writable(sum) => result = sum

\* Reading a payload ends, whatever bytes are missing.
ReadingEnds == <>(want \in {"done", "panicked"})
=============================================================================
