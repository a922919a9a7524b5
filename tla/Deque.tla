------------------------------- MODULE Deque -------------------------------
(***************************************************************************)
(* src/deque.c: a double-ended queue in a ring buffer.  The logical        *)
(* sequence starts at slot head and wraps around at capacity, which need   *)
(* not be a power of two.                                                  *)
(*                                                                         *)
(* Call enters a function.  A push takes a step for the room it makes, one *)
(* for moving head, and one for the copy of the element, which runs code   *)
(* of the caller and may fail; deque_copy pushes one element after the     *)
(* other.  Slots out of use keep the bits they had.                        *)
(***************************************************************************)
EXTENDS Integers, Sequences, FiniteSets

CONSTANTS Elements,
          None,          \* a NULL element; what malloc leaves in a slot
          InitCapacity,  \* DEQUE_INIT_CAPACITY (8 in the code)
          MaxCapacity,   \* bound: no memory for a larger buffer
          Indices,       \* the indices and capacities callers use
          Sources        \* the contents of the deques they copy from

ASSUME DequeAssumption ==
    /\ None \notin Elements
    /\ InitCapacity \in Nat \ {0} /\ MaxCapacity \in Nat
    /\ Indices \subseteq Nat /\ 0 \in Indices
    /\ Sources \subseteq Seq(Elements) /\ <<>> \in Sources

VARIABLES
    capacity, size, head, data,  \* struct deque
    live,                        \* copies made and not yet destroyed
    pc, call,                    \* the running call and where it stands
    i                            \* the loop counter of deque_copy

queue == <<capacity, size, head, data>>
vars == <<queue, live, pc, call, i>>

Slots(cap) == 0 .. cap - 1

\* deque_slot
Slot(index) == (head + index) % capacity

\* The slots deque_at reads.
InUse == {Slot(n) : n \in 0 .. size - 1}

-----------------------------------------------------------------------------
Init ==
    /\ capacity = 0 /\ size = 0 /\ head = 0 /\ data = <<>>
    /\ live = [e \in Elements |-> 0]
    /\ pc = "idle" /\ i = 0
    /\ call = [op |-> "init", elem |-> None, at |-> 0, source |-> <<>>,
               ret |-> "ok"]

Call(op, e, n, s) ==
    /\ pc = "idle"
    /\ pc' = op
    /\ call' = [op |-> op, elem |-> e, at |-> n, source |-> s, ret |-> "pending"]
    /\ UNCHANGED <<queue, live, i>>

Return(ret) ==
    /\ pc' = "idle"
    /\ call' = [call EXCEPT !.ret = ret]
    /\ i' = 0

Fail ==
    /\ Return("error")
    /\ UNCHANGED <<queue, live>>

\* deque_reserve with more than the present capacity: the sequence moves to
\* the start of a new buffer.
Grow(cap) ==
    /\ cap <= MaxCapacity
    /\ capacity' = cap
    /\ head' = 0
    /\ data' = [b \in Slots(cap) |-> IF b < size THEN data[Slot(b)] ELSE None]
    /\ UNCHANGED <<size, live>>

\* deque_reserve
Reserve ==
    /\ pc = "reserve"
    /\ IF call.at <= capacity
         THEN Return("ok") /\ UNCHANGED <<queue, live>>
         ELSE \/ Grow(call.at) /\ Return("ok")
              \/ Fail

\* Mutant: the loop of deque_clear runs over the first slots of the buffer.
DestroyElementsUnwrapped ==
    live' = [e \in Elements |->
        live[e] - Cardinality({b \in 0 .. size - 1 : data[b] = e})]

\* The loop of deque_clear.
DestroyElements ==
    live' = [e \in Elements |->
        live[e] - Cardinality({b \in InUse : data[b] = e})]

-----------------------------------------------------------------------------
(* deque_push_back, deque_push_front, deque_copy *)

\* The element being pushed: deque_copy pushes those of its source.
Pushed == IF call.op = "copy" THEN call.source[i + 1] ELSE call.elem

\* A NULL element.
PushInvalid ==
    /\ pc \in {"push_back", "push_front"} /\ call.elem = None
    /\ Fail

\* The push fails and leaves head at h; deque_copy then clears its target.
PushFails(h) ==
    /\ IF call.op = "copy"
         THEN DestroyElements /\ size' = 0 /\ head' = 0
         ELSE head' = h /\ UNCHANGED <<size, live>>
    /\ Return("error")
    /\ UNCHANGED <<capacity, data>>

\* Makes room for one more element, and fails without memory for it.
MakeRoom ==
    /\ \/ pc \in {"push_back", "push_front"} /\ call.elem # None
       \/ pc = "loop" /\ i < Len(call.source)
    /\ IF size = capacity
         THEN \/ /\ Grow(IF capacity = 0 THEN InitCapacity ELSE capacity * 2)
                 /\ pc' = IF call.op = "push_front" THEN "lower" ELSE "fill"
                 /\ UNCHANGED <<call, i>>
              \/ PushFails(head)
         ELSE /\ pc' = IF call.op = "push_front" THEN "lower" ELSE "fill"
              /\ UNCHANGED <<queue, live, call, i>>

\* Mutant: head stays at slot 0.
LoweredNever == IF head = 0 THEN 0 ELSE head - 1

Lowered == IF head = 0 THEN capacity - 1 ELSE head - 1

\* deque_push_front moves head before the element is there.
Lower ==
    /\ pc = "lower"
    /\ head' = IF size > 0 THEN Lowered ELSE head
    /\ pc' = "fill"
    /\ UNCHANGED <<capacity, size, data, live, call, i>>

\* The copy succeeds.
Fill ==
    /\ pc = "fill"
    /\ data' = [data EXCEPT
          ![IF call.op = "push_front" THEN head ELSE Slot(size)] = Pushed]
    /\ live' = [live EXCEPT ![Pushed] = @ + 1]
    /\ size' = size + 1
    /\ IF call.op = "copy"
         THEN pc' = "loop" /\ i' = i + 1 /\ UNCHANGED call
         ELSE Return("ok")
    /\ UNCHANGED <<capacity, head>>

\* Mutant: head stays where the failed push moved it.
RestoredNot == head

Restored == IF size > 0 THEN (head + 1) % capacity ELSE head

\* The copy fails: deque_push_front moves head back.
FillFails ==
    /\ pc = "fill"
    /\ PushFails(IF call.op = "push_front" THEN Restored ELSE head)

\* deque_copy destroys its target first.
CopyBegin ==
    /\ pc = "copy"
    /\ DestroyElements
    /\ capacity' = 0 /\ size' = 0 /\ head' = 0 /\ data' = <<>>
    /\ pc' = "prepare"
    /\ UNCHANGED <<call, i>>

\* It then reserves room for the whole source.
CopyReserve ==
    /\ pc = "prepare"
    /\ \/ /\ Len(call.source) <= capacity
          /\ pc' = "loop"
          /\ UNCHANGED <<queue, live, call, i>>
       \/ /\ Len(call.source) > capacity
          /\ \/ Grow(Len(call.source)) /\ pc' = "loop" /\ UNCHANGED <<call, i>>
             \/ Fail

CopyEnd ==
    /\ pc = "loop" /\ i >= Len(call.source)
    /\ Return("ok")
    /\ UNCHANGED <<queue, live>>

-----------------------------------------------------------------------------
(* deque_pop_back, deque_pop_front, deque_set, deque_clear, deque_destroy *)

PopMissing ==
    /\ pc \in {"pop_back", "pop_front"} /\ size = 0
    /\ Fail

PopBack ==
    /\ pc = "pop_back" /\ size > 0
    /\ live' = [live EXCEPT ![data[Slot(size - 1)]] = @ - 1]
    /\ size' = size - 1
    /\ head' = IF size = 1 THEN 0 ELSE head
    /\ Return("ok")
    /\ UNCHANGED <<capacity, data>>

PopFront ==
    /\ pc = "pop_front" /\ size > 0
    /\ live' = [live EXCEPT ![data[head]] = @ - 1]
    /\ size' = size - 1
    /\ head' = IF size = 1 THEN 0 ELSE (head + 1) % capacity
    /\ Return("ok")
    /\ UNCHANGED <<capacity, data>>

\* A NULL element, an index out of range, or no copy of the element.
SetFails ==
    /\ pc = "set"
    /\ Fail

\* The replacement is complete before the old element is destroyed.
Set ==
    /\ pc = "set" /\ call.elem # None /\ call.at < size
    /\ LET b == Slot(call.at)
       IN  /\ live' = [[live EXCEPT ![call.elem] = @ + 1]
                          EXCEPT ![data[b]] = @ - 1]
           /\ data' = [data EXCEPT ![b] = call.elem]
    /\ Return("ok")
    /\ UNCHANGED <<capacity, size, head>>

Clear ==
    /\ pc \in {"clear", "destroy"}
    /\ DestroyElements
    /\ size' = 0 /\ head' = 0
    /\ IF pc = "destroy"
         THEN capacity' = 0 /\ data' = <<>>
         ELSE UNCHANGED <<capacity, data>>
    /\ Return("ok")

-----------------------------------------------------------------------------
Calls ==
    \/ \E op \in {"push_back", "push_front"}, e \in Elements \cup {None} :
          Call(op, e, 0, <<>>)
    \/ \E op \in {"pop_back", "pop_front", "clear", "destroy"} :
          Call(op, None, 0, <<>>)
    \/ \E e \in Elements \cup {None}, n \in Indices : Call("set", e, n, <<>>)
    \/ \E n \in Indices : Call("reserve", None, n, <<>>)
    \/ \E s \in Sources : Call("copy", None, 0, s)

Body ==
    \/ Reserve
    \/ PushInvalid \/ MakeRoom \/ Lower \/ Fill \/ FillFails
    \/ CopyBegin \/ CopyReserve \/ CopyEnd
    \/ PopMissing \/ PopBack \/ PopFront \/ SetFails \/ Set \/ Clear

Next == Calls \/ Body

Spec == Init /\ [][Next]_vars
-----------------------------------------------------------------------------
(* Properties *)

Phases == {"idle", "push_back", "push_front", "pop_back", "pop_front", "set",
           "clear", "destroy", "reserve", "copy", "prepare", "loop", "lower",
           "fill"}
CallRecords ==
    [op : {"init", "push_back", "push_front", "pop_back", "pop_front", "set",
           "clear", "destroy", "reserve", "copy"},
     elem : Elements \cup {None}, at : Nat, source : Seq(Elements),
     ret : {"ok", "error", "pending"}]

\* Every variable stays in its domain.
TypeOK ==
    /\ capacity \in Nat /\ size \in Nat /\ head \in Nat /\ i \in Nat
    /\ data \in [Slots(capacity) -> Elements \cup {None}]
    /\ live \in [Elements -> Int]
    /\ pc \in Phases /\ call \in CallRecords

\* The first element, as the caller knows it: while deque_push_front copies
\* the new element, the sequence still starts one slot behind head.
First ==
    IF pc = "fill" /\ call.op = "push_front" /\ size > 0
      THEN (head + 1) % capacity ELSE head

Sequence == [n \in 1 .. size |-> data[(First + n - 1) % capacity]]

\* The phases belong to their functions; a push has room and an element when
\* it comes to fill the slot; deque_copy has copied its first i elements.
ControlShape ==
    /\ pc = "idle" <=> call.ret # "pending"
    /\ pc \in {"idle", "prepare", "loop", "lower", "fill"} \/ call.op = pc
    /\ pc \in {"prepare", "loop"} => call.op = "copy"
    /\ pc = "lower" => call.op = "push_front"
    /\ pc = "fill" => call.op \in {"push_back", "push_front", "copy"}
    /\ pc \in {"lower", "fill"} =>
          size < capacity /\ (call.op = "copy" \/ call.elem # None)
    /\ pc = "prepare" => size = 0
    /\ IF call.op = "copy" /\ pc \in {"loop", "fill"}
         THEN /\ size = i /\ i <= Len(call.source)
              /\ pc = "fill" => i < Len(call.source)
              /\ \A n \in 1 .. i : Sequence[n] = call.source[n]
         ELSE i = 0

\* head is a slot of the buffer or 0, 0 whenever the deque is empty, and the
\* slots in use are distinct and all hold elements, except the one a push
\* has just moved head to; what callers see are elements all the same, and
\* every call stands where it may.
RingShape ==
    /\ TypeOK
    /\ size <= capacity
    /\ head < capacity \/ head = 0
    /\ size = 0 => head = 0
    /\ Cardinality(InUse) = size
    /\ \A b \in InUse : data[b] = None => pc = "fill" /\ b = head
    /\ \A n \in 1 .. size : Sequence[n] \in Elements
    /\ ControlShape

\* Every copy of an element that was made and not yet destroyed is at
\* exactly one position of the sequence: no path of any call, the failing
\* ones included, leaks an element or destroys one twice.
LiveCopies ==
    \A e \in Elements :
        live[e] = Cardinality({n \in 1 .. size : Sequence[n] = e})

\* Callers see a sequence, through wrapped buffers, growth and failed calls:
\* what src/deque.h calls front, back and at are its elements in order.
Seqn == INSTANCE SeqSpec WITH contents <- Sequence
ImplementsSequence == Seqn!Spec
=============================================================================
