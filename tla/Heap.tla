-------------------------------- MODULE Heap --------------------------------
(***************************************************************************)
(* src/heap.c: a binary heap with its greatest element on top.  The loops  *)
(* that move an element up or down take one step per iteration.  Slots     *)
(* that hold no element read as None.                                      *)
(***************************************************************************)
EXTENDS Integers, FiniteSets

CONSTANTS Elements,     \* compared by elem_compare as the integers are
          None,         \* NULL
          Capacities,   \* the capacities callers reserve
          InitCapacity, \* HEAP_INIT_CAPACITY
          MaxCapacity   \* memory: no larger array

VARIABLES capacity, size, data, \* struct heap
          live,                 \* copies of elements made and not destroyed
          pc, call,             \* the running call and where it stands
          hole, staged          \* i and staged of heap_push, i of heap_pop

vars == <<capacity, size, data, live, pc, call, hole, staged>>

Slots == 0 .. MaxCapacity - 1
Used == 0 .. size - 1
Parent(i) == (i - 1) \div 2
Left(i) == i * 2 + 1

Init ==
    /\ capacity = 0 /\ size = 0
    /\ data = [i \in Slots |-> None]
    /\ live = [e \in Elements |-> 0]
    /\ pc = "idle" /\ hole = 0 /\ staged = None
    /\ call = [op |-> "init", elem |-> None, at |-> 0, ret |-> "ok"]

Call(op, e, n) ==
    /\ pc = "idle"
    /\ pc' = op
    /\ call' = [op |-> op, elem |-> e, at |-> n, ret |-> "pending"]
    /\ UNCHANGED <<capacity, size, data, live, hole, staged>>

Return(ret) ==
    /\ pc' = "idle"
    /\ call' = [call EXCEPT !.ret = ret]
    /\ hole' = 0 /\ staged' = None

Fail ==
    /\ Return("error")
    /\ UNCHANGED <<capacity, size, data, live>>

-----------------------------------------------------------------------------
(* heap_reserve *)

ReserveEnough ==
    /\ pc = "reserve" /\ call.at <= capacity
    /\ Return("ok")
    /\ UNCHANGED <<capacity, size, data, live>>

Reserve ==
    /\ pc = "reserve" /\ call.at > capacity
    /\ call.at <= MaxCapacity
    /\ capacity' = call.at
    /\ Return("ok")
    /\ UNCHANGED <<size, data, live>>

ReserveFails ==
    /\ pc = "reserve" /\ call.at > capacity
    /\ Fail

-----------------------------------------------------------------------------
(* heap_push *)

\* A NULL element, no memory, or an element that cannot be copied, before
\* or after the array has grown.
PushFails ==
    /\ pc \in {"push", "stage"}
    /\ Fail

PushGrow ==
    /\ pc = "push" /\ call.elem # None
    /\ LET larger == IF capacity = 0 THEN InitCapacity ELSE capacity * 2
       IN  IF size = capacity THEN larger <= MaxCapacity /\ capacity' = larger
                              ELSE UNCHANGED capacity
    /\ pc' = "stage"
    /\ UNCHANGED <<size, data, live, call, hole, staged>>

\* The copy waits outside of the array for its place.
PushStage ==
    /\ pc = "stage"
    /\ staged' = call.elem
    /\ live' = [live EXCEPT ![call.elem] = @ + 1]
    /\ hole' = size
    /\ size' = size + 1
    /\ pc' = "up"
    /\ UNCHANGED <<capacity, data, call>>

\* Mutant: only the root ends the way up.
BelongsAtRoot == hole = 0

Belongs == hole # 0 => data[Parent(hole)] >= staged

MoveUp ==
    /\ pc = "up" /\ ~Belongs
    /\ data' = [data EXCEPT ![hole] = data[Parent(hole)]]
    /\ hole' = Parent(hole)
    /\ UNCHANGED <<capacity, size, live, pc, call, staged>>

PushEnd ==
    /\ pc = "up" /\ Belongs
    /\ data' = [data EXCEPT ![hole] = staged]
    /\ Return("ok")
    /\ UNCHANGED <<capacity, size, live>>

-----------------------------------------------------------------------------
(* heap_pop *)

PopEmpty ==
    /\ pc = "pop" /\ size = 0
    /\ Fail

\* The last element takes the place of the top.
Pop ==
    /\ pc = "pop" /\ size # 0
    /\ live' = [live EXCEPT ![data[0]] = @ - 1]
    /\ size' = size - 1
    /\ data' = [i \in Slots |-> IF i >= size - 1 THEN None
                                ELSE IF i = 0 THEN data[size - 1] ELSE data[i]]
    /\ IF size = 1 THEN Return("ok")
                   ELSE pc' = "down" /\ UNCHANGED <<call, hole, staged>>
    /\ UNCHANGED capacity

\* Mutant: the right child is not looked at.
LeftChild(i) == Left(i)

\* The greater child of a slot with a left child.
GreaterChild(i) ==
    LET l == Left(i)
        r == l + 1
    IN  IF r < size /\ data[l] < data[r] THEN r ELSE l

Settled == Left(hole) < size => data[hole] >= data[GreaterChild(hole)]

MoveDown ==
    /\ pc = "down" /\ ~Settled
    /\ LET child == GreaterChild(hole)
       IN  /\ data' = [data EXCEPT ![hole] = data[child], ![child] = data[hole]]
           /\ hole' = child
    /\ UNCHANGED <<capacity, size, live, pc, call, staged>>

PopEnd ==
    /\ pc = "down" /\ Settled
    /\ Return("ok")
    /\ UNCHANGED <<capacity, size, data, live>>

-----------------------------------------------------------------------------
Count(e) == Cardinality({i \in Used : data[i] = e})

\* heap_clear, and heap_destroy, which frees the array as well.
Clear ==
    /\ pc \in {"clear", "destroy"}
    /\ live' = [e \in Elements |-> live[e] - Count(e)]
    /\ size' = 0
    /\ data' = [i \in Slots |-> None]
    /\ capacity' = IF pc = "destroy" THEN 0 ELSE capacity
    /\ Return("ok")

Calls ==
    \/ \E e \in Elements \cup {None} : Call("push", e, 0)
    \/ \E n \in Capacities : Call("reserve", None, n)
    \/ \E op \in {"pop", "clear", "destroy"} : Call(op, None, 0)

Next ==
    \/ Calls
    \/ ReserveEnough \/ Reserve \/ ReserveFails
    \/ PushFails \/ PushGrow \/ PushStage \/ MoveUp \/ PushEnd
    \/ PopEmpty \/ Pop \/ MoveDown \/ PopEnd
    \/ Clear

Spec == Init /\ [][Next]_vars
-----------------------------------------------------------------------------
(* Properties *)

\* What the elements and capacities are to a caller.
HeapAssumption ==
    /\ Elements \subseteq Int /\ None \notin Elements
    /\ Capacities \subseteq Nat
    /\ InitCapacity \in Nat \ {0} /\ MaxCapacity \in Nat \ {0}

\* Every variable stays in its domain, and the array is never overrun.
TypeOK ==
    /\ capacity \in 0 .. MaxCapacity /\ size \in 0 .. capacity
    /\ data \in [Slots -> Elements \cup {None}]
    /\ live \in [Elements -> Nat]
    /\ pc \in {"idle", "push", "stage", "up", "pop", "down", "reserve", "clear",
               "destroy"}
    /\ hole \in Slots /\ staged \in Elements \cup {None}

\* The elements, where the one on its way up stands for the copy it leaves.
Holding(i) == IF pc = "up" /\ i = hole THEN staged ELSE data[i]

\* Where a call stands, and on which slot.
ControlShape ==
    /\ call \in [op : {"init", "push", "pop", "reserve", "clear", "destroy"},
                 elem : Elements \cup {None}, at : Nat,
                 ret : {"pending", "ok", "error"}]
    /\ pc = "idle" <=> call.ret # "pending"
    /\ pc \in {"stage", "up"} => call.op = "push" /\ call.elem # None
    /\ pc = "down" => call.op = "pop"
    /\ pc \in {"push", "pop", "reserve", "clear", "destroy"} => call.op = pc
    /\ pc = "stage" => size < capacity
    /\ pc = "up" => staged # None
    /\ IF pc \in {"up", "down"} THEN hole \in Used ELSE hole = 0

\* The heap owns a copy of each element it holds, and no other.
Copies ==
    /\ \A i \in Used : Holding(i) \in Elements
    /\ \A e \in Elements : live[e] = Cardinality({i \in Used : Holding(i) = e})

\* No slot is above its parent, but for the element on its way: one that goes
\* up may exceed its parent, one that goes down may be exceeded by its
\* children, which still do not exceed its parent.
Ordered ==
    /\ \A i \in Used \ {0} :
          \/ Holding(Parent(i)) >= Holding(i)
          \/ pc = "up" /\ i = hole
          \/ pc = "down" /\ Parent(i) = hole
    /\ pc \in {"up", "down"} /\ hole # 0 =>
          \A i \in Used \ {0} :
              Parent(i) = hole => Holding(Parent(hole)) >= Holding(i)

\* In every state, also within a call, the control and the copies are in
\* order and so are the elements.
HeapOrder == TypeOK /\ ControlShape /\ Copies /\ Ordered

\* Callers see a bag whose pops remove a greatest element, and the copies of
\* elements that live are those it holds.  Once an element is staged or the
\* top destroyed the answer is certain, and the loops change only the order.
Bag == INSTANCE BagSpec WITH
          contents <- [e \in Elements |-> Cardinality({i \in Used : Holding(i) = e})],
          call <- [call EXCEPT !.ret = IF pc \in {"up", "down"} THEN "ok" ELSE @]
ImplementsBag == Bag!Spec
=============================================================================
