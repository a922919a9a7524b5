------------------------------ MODULE Vector ------------------------------
(***************************************************************************)
(* src/vector.c: a dynamic array.  An insertion first moves the tail of    *)
(* the array up by one slot, then copies the element into the gap with     *)
(* code of the caller that may fail; an erasure moves the tail down.       *)
(*                                                                         *)
(* vector_push is the call "push_back" and vector_pop is "pop_back", so    *)
(* that all sequences have the same operations.  Slots out of use keep the *)
(* bits they had.                                                          *)
(***************************************************************************)
EXTENDS Integers, Sequences, FiniteSets

CONSTANTS Elements,
          None,          \* a NULL element; what malloc leaves in a slot
          InitCapacity,  \* VECTOR_INIT_CAPACITY
          MaxCapacity,   \* bound: no memory for a larger array
          Indices,       \* the indices and capacities callers use
          Sources        \* the contents of the vectors they copy from

ASSUME VectorAssumption ==
    /\ None \notin Elements
    /\ InitCapacity \in Nat \ {0} /\ MaxCapacity \in Nat
    /\ Indices \subseteq Nat /\ 0 \in Indices
    /\ Sources \subseteq Seq(Elements) /\ <<>> \in Sources

VARIABLES
    capacity, size, data,  \* struct vector
    live,                  \* copies made and not yet destroyed
    pc, call,              \* the running call and where it stands
    i                      \* the loop counter of vector_copy

array == <<capacity, size, data>>
vars == <<array, live, pc, call, i>>

Slots(cap) == 0 .. cap - 1

-----------------------------------------------------------------------------
Init ==
    /\ capacity = 0 /\ size = 0 /\ data = <<>>
    /\ live = [e \in Elements |-> 0]
    /\ pc = "idle" /\ i = 0
    /\ call = [op |-> "init", elem |-> None, at |-> 0, source |-> <<>>,
               ret |-> "ok"]

Call(op, e, n, s) ==
    /\ pc = "idle"
    /\ pc' = op
    /\ call' = [op |-> op, elem |-> e, at |-> n, source |-> s, ret |-> "pending"]
    /\ UNCHANGED <<array, live, i>>

Return(ret) ==
    /\ pc' = "idle"
    /\ call' = [call EXCEPT !.ret = ret]
    /\ i' = 0

Fail == Return("error") /\ UNCHANGED <<array, live>>

\* vector_reserve with more than the present capacity.
Grow(cap) ==
    /\ cap <= MaxCapacity
    /\ capacity' = cap
    /\ data' = [b \in Slots(cap) |-> IF b < capacity THEN data[b] ELSE None]
    /\ UNCHANGED <<size, live>>

Reserve ==
    /\ pc = "reserve"
    /\ IF call.at <= capacity
         THEN Return("ok") /\ UNCHANGED <<array, live>>
         ELSE \/ Grow(call.at) /\ Return("ok")
              \/ Fail

\* The loop of vector_clear.
DestroyElements ==
    live' = [e \in Elements |->
        live[e] - Cardinality({b \in 0 .. size - 1 : data[b] = e})]

-----------------------------------------------------------------------------
(* vector_push, vector_insert, vector_copy *)

\* vector_insert at the end is vector_push.
Inserting == call.op = "insert" /\ call.at < size

Added == IF call.op = "copy" THEN call.source[i + 1] ELSE call.elem

AddInvalid ==
    /\ \/ pc \in {"push_back", "insert"} /\ call.elem = None
       \/ pc = "insert" /\ call.at > size
    /\ Fail

\* The addition fails and leaves the array d; vector_copy then clears its
\* target.
AddFails(d) ==
    /\ IF call.op = "copy"
         THEN DestroyElements /\ size' = 0
         ELSE UNCHANGED <<live, size>>
    /\ data' = d
    /\ Return("error")
    /\ UNCHANGED capacity

Full == size = capacity

\* Makes room for one more element, and fails without memory for it.
MakeRoom ==
    /\ \/ pc = "push_back" /\ call.elem # None
       \/ pc = "insert" /\ call.elem # None /\ call.at <= size
       \/ pc = "loop" /\ i < Len(call.source)
    /\ IF Full
         THEN \/ /\ Grow(IF capacity = 0 THEN InitCapacity ELSE capacity * 2)
                 /\ pc' = IF Inserting THEN "shift" ELSE "fill"
                 /\ UNCHANGED <<call, i>>
              \/ AddFails(data)
         ELSE /\ pc' = IF Inserting THEN "shift" ELSE "fill"
              /\ UNCHANGED <<array, live, call, i>>

\* Mutants: one element too few moves up, or down.
ShiftedUpShort(at) ==
    [b \in Slots(capacity) |-> IF at < b /\ b < size THEN data[b - 1] ELSE data[b]]
ShiftedDownShort(at, end) ==
    [b \in Slots(capacity) |->
        IF at <= b /\ b + 1 < end THEN data[b + 1] ELSE data[b]]

\* memmove of the elements from slot at on by one slot, up and down again.
ShiftedUp(at) ==
    [b \in Slots(capacity) |-> IF at < b /\ b <= size THEN data[b - 1] ELSE data[b]]
ShiftedDown(at, end) ==
    [b \in Slots(capacity) |-> IF at <= b /\ b < end THEN data[b + 1] ELSE data[b]]

Shift ==
    /\ pc = "shift"
    /\ data' = ShiftedUp(call.at)
    /\ pc' = "fill"
    /\ UNCHANGED <<capacity, size, live, call, i>>

\* The copy succeeds.
Fill ==
    /\ pc = "fill"
    /\ data' = [data EXCEPT ![IF Inserting THEN call.at ELSE size] = Added]
    /\ live' = [live EXCEPT ![Added] = @ + 1]
    /\ size' = size + 1
    /\ IF call.op = "copy"
         THEN pc' = "loop" /\ i' = i + 1 /\ UNCHANGED call
         ELSE Return("ok")
    /\ UNCHANGED capacity

\* The copy fails: vector_insert closes the gap again.
FillFails ==
    /\ pc = "fill"
    /\ AddFails(IF Inserting THEN ShiftedDown(call.at, size) ELSE data)

\* vector_copy destroys its target, then reserves room for the source.
CopyBegin ==
    /\ pc = "copy"
    /\ DestroyElements
    /\ capacity' = 0 /\ size' = 0 /\ data' = <<>>
    /\ pc' = "prepare"
    /\ UNCHANGED <<call, i>>

CopyReserve ==
    /\ pc = "prepare"
    /\ IF Len(call.source) <= capacity
         THEN pc' = "loop" /\ UNCHANGED <<array, live, call, i>>
         ELSE \/ Grow(Len(call.source)) /\ pc' = "loop" /\ UNCHANGED <<call, i>>
              \/ Fail

CopyEnd ==
    /\ pc = "loop" /\ i >= Len(call.source)
    /\ Return("ok")
    /\ UNCHANGED <<array, live>>

-----------------------------------------------------------------------------
(* vector_pop, vector_set, vector_erase, vector_clear, vector_sort *)

PopMissing == pc = "pop_back" /\ size = 0 /\ Fail

Pop ==
    /\ pc = "pop_back" /\ size > 0
    /\ live' = [live EXCEPT ![data[size - 1]] = @ - 1]
    /\ size' = size - 1
    /\ Return("ok")
    /\ UNCHANGED <<capacity, data>>

\* A NULL element, an index out of range, or no copy of the element.
SetFails == pc = "set" /\ Fail

\* The replacement is complete before the old element is destroyed.
Set ==
    /\ pc = "set" /\ call.elem # None /\ call.at < size
    /\ live' = [[live EXCEPT ![call.elem] = @ + 1]
                   EXCEPT ![data[call.at]] = @ - 1]
    /\ data' = [data EXCEPT ![call.at] = call.elem]
    /\ Return("ok")
    /\ UNCHANGED <<capacity, size>>

EraseMissing ==
    /\ pc = "erase" /\ call.at >= size
    /\ Return("ok")
    /\ UNCHANGED <<array, live>>

Erase ==
    /\ pc = "erase" /\ call.at < size
    /\ live' = [live EXCEPT ![data[call.at]] = @ - 1]
    /\ data' = ShiftedDown(call.at, size - 1)
    /\ size' = size - 1
    /\ Return("ok")
    /\ UNCHANGED capacity

Clear ==
    /\ pc \in {"clear", "destroy"}
    /\ DestroyElements
    /\ size' = 0
    /\ IF pc = "destroy"
         THEN capacity' = 0 /\ data' = <<>>
         ELSE UNCHANGED <<capacity, data>>
    /\ Return("ok")

\* vector_sort: qsort, with a comparison of the caller.
Sort ==
    /\ pc = "sort"
    /\ \E p \in [0 .. size - 1 -> 0 .. size - 1] :
          /\ \A m, n \in 0 .. size - 1 : p[m] = p[n] => m = n
          /\ data' = [b \in Slots(capacity) |->
                         IF b < size THEN data[p[b]] ELSE data[b]]
    /\ Return("ok")
    /\ UNCHANGED <<capacity, size, live>>

-----------------------------------------------------------------------------
Calls ==
    \/ \E e \in Elements \cup {None} : Call("push_back", e, 0, <<>>)
    \/ \E op \in {"pop_back", "clear", "destroy", "sort"} : Call(op, None, 0, <<>>)
    \/ \E op \in {"insert", "set"}, e \in Elements \cup {None}, n \in Indices :
          Call(op, e, n, <<>>)
    \/ \E op \in {"erase", "reserve"}, n \in Indices : Call(op, None, n, <<>>)
    \/ \E s \in Sources : Call("copy", None, 0, s)

Body ==
    \/ Reserve
    \/ AddInvalid \/ MakeRoom \/ Shift \/ Fill \/ FillFails
    \/ CopyBegin \/ CopyReserve \/ CopyEnd
    \/ PopMissing \/ Pop \/ SetFails \/ Set \/ EraseMissing \/ Erase
    \/ Clear \/ Sort

Next == Calls \/ Body

Spec == Init /\ [][Next]_vars
-----------------------------------------------------------------------------
(* Properties *)

Phases == {"idle", "push_back", "pop_back", "insert", "set", "erase", "clear",
           "destroy", "sort", "reserve", "copy", "prepare", "loop", "shift", "fill"}
CallRecords ==
    [op : {"init", "push_back", "pop_back", "insert", "set", "erase", "clear",
           "destroy", "sort", "reserve", "copy"},
     elem : Elements \cup {None}, at : Nat, source : Seq(Elements),
     ret : {"ok", "error", "pending"}]

Gap == pc = "fill" /\ Inserting

\* Every variable stays in its domain, and the slots in use lie in the
\* array, the gap of an insertion among them.
TypeOK ==
    /\ capacity \in Nat /\ size \in Nat /\ i \in Nat
    /\ size <= capacity
    /\ pc \in {"shift", "fill"} => size < capacity
    /\ data \in [Slots(capacity) -> Elements \cup {None}]
    /\ live \in [Elements -> Int]
    /\ pc \in Phases /\ call \in CallRecords

\* The elements of the vector; an insertion keeps them around its gap.
Sequence ==
    [n \in 1 .. size |-> IF Gap /\ n > call.at THEN data[n] ELSE data[n - 1]]

\* The phases belong to their functions; an addition has an element, and a
\* place in the array, when it comes to move the tail; vector_copy has copied
\* its first i elements.
ControlShape ==
    /\ pc = "idle" <=> call.ret # "pending"
    /\ pc \in {"idle", "prepare", "loop", "shift", "fill"} \/ call.op = pc
    /\ pc \in {"prepare", "loop"} => call.op = "copy"
    /\ pc = "shift" => Inserting
    /\ pc = "fill" => call.op \in {"push_back", "insert", "copy"}
    /\ pc \in {"shift", "fill"} =>
          /\ call.op = "copy" \/ call.elem # None
          /\ call.op = "insert" => call.at <= size
    /\ pc = "prepare" => size = 0
    /\ IF call.op = "copy" /\ pc \in {"loop", "fill"}
         THEN /\ size = i /\ i <= Len(call.source)
              /\ pc = "fill" => i < Len(call.source)
              /\ \A n \in 1 .. i : Sequence[n] = call.source[n]
         ELSE i = 0

\* Every copy of an element that was made and not yet destroyed is at
\* exactly one position, and there are only elements at the positions,
\* wherever a call stands: shifting bits around an insertion or an erasure,
\* completed or undone, neither loses an element nor doubles one, nor
\* leaves the array.
LiveCopies ==
    /\ TypeOK /\ ControlShape
    /\ \A n \in 1 .. size : Sequence[n] \in Elements
    /\ \A e \in Elements :
         live[e] = Cardinality({n \in 1 .. size : Sequence[n] = e})

\* Callers see a sequence, through growth, shifts and failed calls.
Seqn == INSTANCE SeqSpec WITH contents <- Sequence
ImplementsSequence == Seqn!Spec
=============================================================================
