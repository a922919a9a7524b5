------------------------------ MODULE SegTree ------------------------------
(***************************************************************************)
(* src/segtree.c: folds over ranges of an array, from a tree of merged     *)
(* nodes in an array of twice a power of two.                              *)
(*                                                                         *)
(* The values are sequences and a merge is their concatenation, which is   *)
(* associative, has an identity and tells any two orders apart.  The merge *)
(* is code of the caller and may fail; it then leaves its target alone.    *)
(***************************************************************************)
EXTENDS Integers, Sequences

CONSTANTS Elements, \* what callers store: a value is a sequence of one
          Arrays    \* the sequences of elements that callers build from

VARIABLES
    size, capacity, nodes, \* struct segtree; capacity 0 when it holds nothing
    pc, at,                \* the running call, and the node its loop is at
    ret,                   \* the answer of the last call
    query, out,            \* the locals of segtree_query, and what it answers
    values,                \* the caller's view: what was stored at each index
    stale                  \* nodes that failed merges have left behind

segtree == <<size, capacity, nodes>>
vars == <<segtree, pc, at, ret, query, out, values, stale>>

Identity == <<>>
Merge(lhs, rhs) == lhs \o rhs

\* segtree_next_capacity
NextCapacity(n) ==
    LET value[c \in 1 .. 2 * n + 1] == IF c >= n THEN c ELSE value[2 * c]
    IN  value[1]

Blank(cap) == [n \in 0 .. 2 * cap - 1 |-> Identity]

-----------------------------------------------------------------------------
\* No query runs, and none has answered last; spoilt, which is not state of
\* the program, tells whether a query has met a stale node.
NoQuery == [begin |-> 0, end |-> 0, left |-> 0, right |-> 0,
            leftValue |-> Identity, rightValue |-> Identity, spoilt |-> FALSE]

Return(answer) ==
    pc' = "idle" /\ at' = 0 /\ ret' = answer /\ query' = NoQuery /\ out' = Identity

Fail == Return(-1) /\ UNCHANGED <<segtree, values, stale>>

\* segtree_destroy, and all that a failed segtree_init leaves.
Nothing ==
    /\ size' = 0 /\ capacity' = 0 /\ nodes' = <<>>
    /\ values' = <<>> /\ stale' = {}

Init ==
    /\ size = 0 /\ capacity = 0 /\ nodes = <<>>
    /\ pc = "idle" /\ at = 0 /\ ret = 0 /\ values = <<>> /\ stale = {}
    /\ query = NoQuery /\ out = Identity

Create(n) ==
    /\ pc = "idle" /\ capacity = 0
    /\ size' = n /\ capacity' = NextCapacity(n)
    /\ nodes' = Blank(capacity')
    /\ values' = [i \in 0 .. n - 1 |-> Identity] /\ stale' = {}
    /\ Return(0)

CreateFails == pc = "idle" /\ capacity = 0 /\ Nothing /\ Return(-1)

Destroy == pc = "idle" /\ Nothing /\ Return(0)

Reset ==
    /\ pc = "idle" /\ capacity > 0
    /\ nodes' = Blank(capacity)
    /\ values' = [i \in 0 .. size - 1 |-> Identity] /\ stale' = {}
    /\ Return(0)
    /\ UNCHANGED <<size, capacity>>

\* Neither segtree_reset nor segtree_build work on a destroyed tree.
ResetFails == pc = "idle" /\ capacity = 0 /\ Fail

-----------------------------------------------------------------------------
(* segtree_build, segtree_set and segtree_copy *)

\* The leaves of the array a are written, all other nodes are reset.
Loaded(cap, a) ==
    [n \in 0 .. 2 * cap - 1 |->
        IF n - cap \in 0 .. Len(a) - 1 THEN <<a[n - cap + 1]>> ELSE Identity]
Stored(a) == [i \in 0 .. Len(a) - 1 |-> <<a[i + 1]>>]

Build(a) ==
    /\ pc = "idle" /\ capacity > 0 /\ Len(a) = size
    /\ nodes' = Loaded(capacity, a)
    /\ values' = Stored(a) /\ stale' = {}
    /\ pc' = "build" /\ at' = capacity - 1
    /\ query' = NoQuery /\ out' = Identity
    /\ UNCHANGED <<size, capacity, ret>>

Set(i, e) ==
    /\ pc = "idle" /\ i < size
    /\ nodes' = [nodes EXCEPT ![capacity + i] = <<e>>]
    /\ values' = [values EXCEPT ![i] = <<e>>]
    /\ pc' = "set" /\ at' = (capacity + i) \div 2
    /\ query' = NoQuery /\ out' = Identity
    /\ UNCHANGED <<size, capacity, ret, stale>>

SetInvalid(i) == pc = "idle" /\ i >= size /\ Fail

\* n and the nodes above it.
Up(n) ==
    LET up[m \in 0 .. n] == IF m = 0 THEN {} ELSE {m} \cup up[m \div 2]
    IN  up[n]

\* Mutant: the right child comes first.
RebuiltSwapped(n) == Merge(nodes[2 * n + 1], nodes[2 * n])

\* segtree_rebuild_node
Rebuilt(n) == Merge(nodes[2 * n], nodes[2 * n + 1])

\* One iteration of the loops of segtree_build and segtree_set.
Step ==
    /\ pc \in {"build", "set"} /\ at > 0
    /\ nodes' = [nodes EXCEPT ![at] = Rebuilt(at)]
    /\ stale' = IF {2 * at, 2 * at + 1} \cap stale = {} THEN stale \ {at}
                ELSE stale \cup {at}
    /\ at' = IF pc = "build" THEN at - 1 ELSE at \div 2
    /\ UNCHANGED <<size, capacity, pc, ret, query, out, values>>

\* The merge fails: what the loop had still to come to is left as it is.
StepFails ==
    /\ pc \in {"build", "set"} /\ at > 0
    /\ stale' = stale \cup (IF pc = "build" THEN 1 .. at ELSE Up(at))
    /\ Return(-1)
    /\ UNCHANGED <<segtree, values>>

End ==
    /\ pc \in {"build", "set"} /\ at = 0
    /\ Return(0)
    /\ UNCHANGED <<segtree, values, stale>>

\* The nodes of a tree that was built from a.
Built(cap, a) ==
    LET full[n \in 0 .. 2 * cap - 1] ==
            IF n \in 1 .. cap - 1 THEN Merge(full[2 * n], full[2 * n + 1])
            ELSE Loaded(cap, a)[n]
    IN  full

\* The target is destroyed, made anew in the size of the source, and given
\* its nodes; the source is a tree that was built from a.
Copy(a) ==
    /\ pc = "idle"
    /\ size' = Len(a) /\ capacity' = NextCapacity(Len(a))
    /\ nodes' = Built(capacity', a)
    /\ values' = Stored(a) /\ stale' = {}
    /\ Return(0)

CopyFails == pc = "idle" /\ capacity > 0 /\ Nothing /\ Return(-1)

-----------------------------------------------------------------------------
(* segtree_query: the two accumulators meet in the middle. *)

QueryInvalid(begin, end) == pc = "idle" /\ (begin > end \/ end > size) /\ Fail

\* The identity answers for an empty range.
QueryEmpty(i) == pc = "idle" /\ i <= size /\ Return(0) /\ UNCHANGED <<segtree, values, stale>>

QueryBegin(begin, end) ==
    /\ pc = "idle" /\ begin < end /\ end <= size
    /\ query' = [begin |-> begin, end |-> end,
                 left |-> begin + capacity, right |-> end + capacity,
                 leftValue |-> Identity, rightValue |-> Identity, spoilt |-> FALSE]
    /\ pc' = "query" /\ out' = Identity
    /\ UNCHANGED <<segtree, at, ret, values, stale>>

Odd(n) == n % 2 = 1

\* The nodes that an iteration merges.
Met == {n \in {query.left} : Odd(n)} \cup {n - 1 : n \in {m \in {query.right} : Odd(m)}}

QueryStep ==
    /\ pc = "query" /\ query.left < query.right
    /\ query' = [query EXCEPT
           !.leftValue = IF Odd(query.left) THEN Merge(@, nodes[query.left]) ELSE @,
           !.rightValue = IF Odd(query.right) THEN Merge(nodes[query.right - 1], @) ELSE @,
           !.left = (@ + 1) \div 2,
           !.right = @ \div 2,
           !.spoilt = @ \/ Met \cap stale # {}]
    /\ UNCHANGED <<segtree, pc, at, ret, out, values, stale>>

QueryEnd ==
    /\ pc = "query" /\ query.left >= query.right
    /\ out' = Merge(query.leftValue, query.rightValue)
    /\ query' = [NoQuery EXCEPT !.begin = query.begin, !.end = query.end,
                                !.spoilt = query.spoilt]
    /\ pc' = "idle" /\ ret' = 0
    /\ UNCHANGED <<segtree, at, values, stale>>

\* There is no memory, or a merge fails.
QueryFails == pc = "query" /\ Fail

-----------------------------------------------------------------------------
Next ==
    \/ \E a \in Arrays : Create(Len(a)) \/ Build(a) \/ Copy(a)
    \/ CreateFails \/ Destroy \/ Reset \/ ResetFails \/ CopyFails
    \/ \E i \in 0 .. size :
          \/ SetInvalid(i) \/ QueryEmpty(i)
          \/ \E e \in Elements : Set(i, e)
          \/ \E end \in 0 .. size + 1 : QueryBegin(i, end) \/ QueryInvalid(i, end)
    \/ QueryStep \/ QueryEnd \/ QueryFails
    \/ Step \/ StepFails \/ End

Spec == Init /\ [][Next]_vars
-----------------------------------------------------------------------------
(* Properties *)

\* The values v from begin on and before end, merged from left to right.
Fold(v, begin, end) ==
    LET fold[i \in begin .. end] ==
            IF i = begin THEN Identity ELSE Merge(fold[i - 1], v[i - 1])
    IN  fold[end]

\* Between calls every node but the stale ones is the merge of its children,
\* none of them stale, and a query that meets no stale node answers with the
\* values of its range, merged in their order: a failed merge spoils the nodes
\* above it, and no others, until a later call rebuilds them from nodes that
\* are not spoiled.
QueriesFold ==
    /\ pc \in {"idle", "query"} /\ capacity > 0 =>
          /\ stale \subseteq 1 .. capacity - 1
          /\ \A i \in 0 .. capacity - 1 :
                nodes[capacity + i] = IF i < size THEN values[i] ELSE Identity
          /\ \A n \in (1 .. capacity - 1) \ stale :
                {2 * n, 2 * n + 1} \cap stale = {} /\ nodes[n] = Rebuilt(n)
    /\ pc = "idle" /\ ~query.spoilt => out = Fold(values, query.begin, query.end)
=============================================================================
