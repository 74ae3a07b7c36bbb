--------------------------- MODULE MCIntegerSum ---------------------------
(* Instances of IntegerSum for TLC: longs of 6 bits, 2 payload bits a byte. *)
EXTENDS IntegerSum

Plain(items) == [sized |-> FALSE, items |-> items]
WithSize(items) == [sized |-> TRUE, items |-> items]

\* The edges of the type, of the signed encoder's range and of one, two and three bytes.
Edges == {-32, -31, -17, -16, -9, -3, -2, -1, 0, 1, 2, 8, 15, 16, 31}

\* One block of up to two integers, as the repository's producers write it, ...
OneBlock == {<<Plain(s)>> : s \in {<<a>> : a \in Long} \cup {<<a, b>> : a, b \in Edges}}

\* ... and lists of two blocks, of which either may carry its size.
TwoBlocks ==
    {<<x, y>> : x \in {Plain(<<a, 1>>) : a \in Edges} \cup {WithSize(<<a>>) : a \in Edges},
                y \in {Plain(<<2>>), WithSize(<<-3, 5>>)}}

AllLists == {<<>>} \cup OneBlock \cup TwoBlocks
=============================================================================
