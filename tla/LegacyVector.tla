---------------------------- MODULE LegacyVector ----------------------------
(***************************************************************************)
(* src/legacy/vector_typed.h: a dynamic array as macros, each one action.  *)
(* What they assert is up to the caller and guards them here.  Without     *)
(* memory they call exit(1): no step follows.                              *)
(***************************************************************************)
EXTENDS Integers, SequencesExt

CONSTANTS Elements,
          None,         \* a slot never written
          InitCapacity, \* VECTOR_INIT_CAPACITY
          MaxCapacity   \* bound: no memory for a larger array

VARIABLES
    capacity, size, data, \* vector_def
    expected              \* the caller's view: the elements in order

vars == <<capacity, size, data, expected>>

Slots == 0 .. MaxCapacity - 1 \* those from capacity on are not there

Init ==
    /\ capacity = 0 /\ size = 0 /\ expected = <<>>
    /\ data = [b \in Slots |-> None]

\* vector_expand: realloc keeps what the array held.
Expand ==
    /\ capacity' = IF capacity > size THEN capacity
                   ELSE IF capacity = 0 THEN InitCapacity ELSE capacity * 2
    /\ capacity' <= MaxCapacity

PushBack(e) ==
    /\ Expand
    /\ data' = [data EXCEPT ![size] = e]
    /\ size' = size + 1
    /\ expected' = Append(expected, e)

PopBack ==
    /\ size > 0
    /\ size' = size - 1
    /\ expected' = Front(expected)
    /\ UNCHANGED <<capacity, data>>

\* The elements from slot at on move up by one.
Insert(at, e) ==
    /\ at < size
    /\ Expand
    /\ data' = [b \in Slots |-> IF b = at THEN e
                                ELSE IF at < b /\ b <= size THEN data[b - 1] ELSE data[b]]
    /\ size' = size + 1
    /\ expected' = InsertAt(expected, at + 1, e)

\* The elements after slot at move down by one.
Erase(at) ==
    /\ at < size
    /\ data' = [b \in Slots |-> IF at <= b /\ b < size - 1 THEN data[b + 1] ELSE data[b]]
    /\ size' = size - 1
    /\ expected' = RemoveAt(expected, at + 1)
    /\ UNCHANGED capacity

\* vector_sort: qsort, with a comparison of the caller.
Sort ==
    \E p \in [0 .. size - 1 -> 0 .. size - 1] :
        /\ \A m, n \in 0 .. size - 1 : p[m] = p[n] => m = n
        /\ data' = [b \in Slots |-> IF b < size THEN data[p[b]] ELSE data[b]]
        /\ expected' = [n \in 1 .. size |-> expected[p[n - 1] + 1]]
        /\ UNCHANGED <<capacity, size>>

Clear == size' = 0 /\ expected' = <<>> /\ UNCHANGED <<capacity, data>>

\* vector_free, and vector_new of the next vector.
Free ==
    /\ capacity' = 0 /\ size' = 0 /\ expected' = <<>>
    /\ data' = [b \in Slots |-> None]

Next ==
    \/ \E e \in Elements : PushBack(e) \/ \E at \in Slots : Insert(at, e)
    \/ \E at \in Slots : Erase(at)
    \/ Sort \/ PopBack \/ Clear \/ Free

Spec == Init /\ [][Next]_vars
-----------------------------------------------------------------------------
(* Properties *)

\* The first size slots hold what the caller put there, within the array:
\* the moves of insertions and erasures take every element along and none
\* twice, also when the array has just grown.
ArrayMatches ==
    /\ size = Len(expected) /\ size <= capacity /\ capacity <= MaxCapacity
    /\ \A n \in DOMAIN expected : data[n - 1] = expected[n]
=============================================================================
