----------------------------- MODULE LegacyHeap -----------------------------
(***************************************************************************)
(* src/legacy/heap_typed.h: a binary heap as macros, whose loops take one  *)
(* step per iteration.  The array holds plain values and is not cleared    *)
(* behind its end; heap_pop exchanges elements by way of the first slot    *)
(* there.  What the macros assert is up to the caller and guards the calls *)
(* here.  Without memory they call exit(1): no such call is made.          *)
(***************************************************************************)
EXTENDS Integers, FiniteSets

CONSTANTS Elements,     \* compared by compare as the integers are
          None,         \* a slot never written
          InitCapacity, \* HEAP_INIT_CAPACITY
          MaxCapacity   \* bound: no memory for a larger array

VARIABLES
    capacity, size, data, \* heap_def
    pc, call,             \* the running macro and its element
    hole,                 \* _heap_i
    expected              \* the caller's view: how often each element is in

vars == <<capacity, size, data, pc, call, hole, expected>>

Slots == 0 .. MaxCapacity - 1 \* those from capacity on are not there
Parent(i) == (i - 1) \div 2

Init ==
    /\ capacity = 0 /\ size = 0
    /\ data = [i \in Slots |-> None]
    /\ pc = "idle" /\ hole = 0
    /\ call = [op |-> "init", elem |-> None]
    /\ expected = [e \in Elements |-> 0]

\* heap_expand
Larger == IF capacity > size THEN capacity
          ELSE IF capacity = 0 THEN InitCapacity ELSE capacity * 2

Call(op, e) ==
    /\ pc = "idle"
    /\ op = "push" => Larger <= MaxCapacity
    /\ op = "pop" => size > 0
    /\ pc' = op /\ call' = [op |-> op, elem |-> e]
    /\ UNCHANGED <<capacity, size, data, hole, expected>>

Return == pc' = "idle" /\ hole' = 0 /\ UNCHANGED call

-----------------------------------------------------------------------------
(* heap_push *)

Expand ==
    /\ pc = "push"
    /\ capacity' = Larger
    /\ pc' = "stage"
    /\ UNCHANGED <<size, data, call, hole, expected>>

PushBegin ==
    /\ pc = "stage"
    /\ hole' = size /\ size' = size + 1
    /\ expected' = [expected EXCEPT ![call.elem] = @ + 1]
    /\ pc' = "up"
    /\ UNCHANGED <<capacity, data, call>>

Belongs == hole > 0 => data[Parent(hole)] >= call.elem

MoveUp ==
    /\ pc = "up" /\ ~Belongs
    /\ data' = [data EXCEPT ![hole] = data[Parent(hole)]]
    /\ hole' = Parent(hole)
    /\ UNCHANGED <<capacity, size, pc, call, expected>>

PushEnd ==
    /\ pc = "up" /\ Belongs
    /\ data' = [data EXCEPT ![hole] = call.elem]
    /\ Return
    /\ UNCHANGED <<capacity, size, expected>>

-----------------------------------------------------------------------------
(* heap_pop *)

\* The last element takes the place of the top; the loop ends at once when it
\* was the only one.
Pop ==
    /\ pc = "pop"
    /\ data' = [data EXCEPT ![0] = data[size - 1]]
    /\ size' = size - 1
    /\ expected' = [expected EXCEPT ![data[0]] = @ - 1]
    /\ IF size = 1 THEN Return ELSE pc' = "down" /\ UNCHANGED <<call, hole>>
    /\ UNCHANGED capacity

Left == hole * 2 + 1
Greater == IF Left + 1 < size /\ data[Left] < data[Left + 1] THEN Left + 1 ELSE Left

Settled == Left < size => data[hole] >= data[Greater]

MoveDown ==
    /\ pc = "down" /\ ~Settled
    /\ data' = [data EXCEPT ![size] = data[hole], ![hole] = data[Greater],
                            ![Greater] = data[hole]]
    /\ hole' = Greater
    /\ UNCHANGED <<capacity, size, pc, call, expected>>

PopEnd ==
    /\ pc = "down" /\ Settled
    /\ Return
    /\ UNCHANGED <<capacity, size, data, expected>>

\* heap_free, and heap_new of the next heap.
Free ==
    /\ pc = "destroy"
    /\ capacity' = 0 /\ size' = 0
    /\ data' = [i \in Slots |-> None]
    /\ expected' = [e \in Elements |-> 0]
    /\ Return

Next ==
    \/ \E e \in Elements : Call("push", e)
    \/ \E op \in {"pop", "destroy"} : Call(op, None)
    \/ Expand \/ PushBegin \/ MoveUp \/ PushEnd
    \/ Pop \/ MoveDown \/ PopEnd \/ Free

Spec == Init /\ [][Next]_vars
-----------------------------------------------------------------------------
(* Properties *)

\* heap.c clears what lies behind the end, and takes the place of a new element
\* before it writes to it.
Kept ==
    [i \in Slots |->
        IF i < size /\ ~(pc = "up" /\ i = hole /\ i = size - 1) THEN data[i] ELSE None]
Staged == IF pc = "up" THEN call.elem ELSE None
Answered == [op |-> call.op, elem |-> call.elem, at |-> 0,
             ret |-> IF pc = "idle" THEN "ok" ELSE "pending"]

H == INSTANCE Heap WITH Capacities <- {}, data <- Kept, live <- expected,
                        staged <- Staged, call <- Answered

\* In every state the elements are in the order that heap.c keeps, which leaves
\* a greatest one to the next pop; and the slot that a pop borrows behind the
\* end is part of the array.
HeapMatches == H!HeapOrder /\ (pc = "down" => size < capacity)

\* The macros do step by step what heap.c does, and so show callers a bag.
ImplementsHeap == H!Spec
=============================================================================
