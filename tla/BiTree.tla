------------------------------- MODULE BiTree -------------------------------
(***************************************************************************)
(* src/bitree.c: prefix sums in a Fenwick tree.  No call can fail half-way *)
(* and none calls back, so each is one action.                             *)
(***************************************************************************)
EXTENDS Integers

CONSTANTS MaxSize, \* bounds of this model: no larger tree is made, and
          MaxValue \* no value leaves -MaxValue .. MaxValue

VARIABLES
    size, nodes, \* struct bitree; nodes is empty for NULL
    values,      \* the caller's view: what was stored at each index
    ret          \* the answer of the last call

bitree == <<size, nodes>>
vars == <<bitree, values, ret>>

\* bitree_lowbit: i & (~i + 1) keeps the lowest bit of i, which is 1 in an odd
\* number and in an even one twice that of its half.
LowBit(i) ==
    LET bit[j \in 1 .. i] == IF j % 2 = 1 THEN 1 ELSE 2 * bit[j \div 2]
    IN  bit[i]

\* bitree_prefix_sum
Prefix(count) ==
    LET sum[c \in 0 .. size] == IF c = 0 THEN 0 ELSE nodes[c] + sum[c - LowBit(c)]
    IN  sum[count]

\* bitree_range, and bitree_get for a range of one.
RangeSum(begin, end) == Prefix(end) - Prefix(begin)

-----------------------------------------------------------------------------
Zeros(n) ==
    /\ size' = n
    /\ nodes' = [i \in 0 .. n |-> 0]
    /\ values' = [i \in 0 .. n - 1 |-> 0]

\* bitree_destroy, and what a failed bitree_init leaves.
Nothing == size' = 0 /\ nodes' = <<>> /\ values' = <<>>

Init == size = 0 /\ nodes = <<>> /\ values = <<>> /\ ret = 0

Create(n) == nodes = <<>> /\ Zeros(n) /\ ret' = 0
CreateFails == nodes = <<>> /\ Nothing /\ ret' = -1
Destroy == Nothing /\ ret' = 0

\* bitree_reset writes to nodes, whatever it points to.
Reset == nodes # <<>> /\ Zeros(size) /\ ret' = 0

\* Mutant: the loop ends before the last node.
AboveShort(index) ==
    LET up[i \in 1 .. 2 * size] == IF i > size THEN {} ELSE {i} \cup up[i + LowBit(i)]
    IN  up[index + 1] \ {size}

\* The nodes that bitree_add comes to.
Above(index) ==
    LET up[i \in 1 .. 2 * size] == IF i > size THEN {} ELSE {i} \cup up[i + LowBit(i)]
    IN  up[index + 1]

Add(index, delta) ==
    /\ index < size
    /\ values[index] + delta \in -MaxValue .. MaxValue
    /\ nodes' = [i \in 0 .. size |->
                    IF i \in Above(index) THEN nodes[i] + delta ELSE nodes[i]]
    /\ values' = [values EXCEPT ![index] = @ + delta]
    /\ ret' = 0
    /\ UNCHANGED size

\* bitree_set adds the difference to what bitree_get finds.
Set(index, value) ==
    /\ index < size
    /\ LET delta == value - RangeSum(index, index + 1)
       IN  nodes' = [i \in 0 .. size |->
                        IF i \in Above(index) THEN nodes[i] + delta ELSE nodes[i]]
    /\ values' = [values EXCEPT ![index] = value]
    /\ ret' = 0
    /\ UNCHANGED size

OutOfRange(index) == index >= size /\ ret' = -1 /\ UNCHANGED <<bitree, values>>

\* bitree_copy destroys its target and makes it anew in the size of the
\* source, which is a tree of n values v.
Copy(n, v) ==
    /\ size' = n
    /\ nodes' = [i \in 0 .. n |-> IF i = 0 THEN 0 ELSE v * LowBit(i)]
    /\ values' = [i \in 0 .. n - 1 |-> v]
    /\ ret' = 0
CopyFails == Nothing /\ ret' = -1

-----------------------------------------------------------------------------
Next ==
    \/ \E n \in 0 .. MaxSize : Create(n) \/ Copy(n, MaxValue)
    \/ CreateFails \/ Destroy \/ Reset \/ CopyFails
    \/ \E index \in 0 .. MaxSize :
          \/ \E v \in -MaxValue .. MaxValue : Add(index, v) \/ Set(index, v)
          \/ OutOfRange(index)

Spec == Init /\ [][Next]_vars
-----------------------------------------------------------------------------
(* Properties *)

\* What the caller stored from begin on and before end.
Sum(begin, end) ==
    LET sum[i \in begin .. end] == IF i = begin THEN 0 ELSE sum[i - 1] + values[i - 1]
    IN  sum[end]

\* The sum of every range is the sum of the values the caller stored there:
\* each index is counted in one node of every prefix that holds it, and
\* every update reaches all of these.
SumsExact ==
    nodes # <<>> =>
        \A begin, end \in 0 .. size :
            begin <= end => RangeSum(begin, end) = Sum(begin, end)
=============================================================================
