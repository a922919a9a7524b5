----------------------------- MODULE LegacyDeque -----------------------------
(***************************************************************************)
(* src/legacy/deque_typed.h: a ring buffer between head and tail, which    *)
(* keeps one slot free to tell a full buffer from an empty one.  The       *)
(* macros copy plain values and call nothing back, so each is one action.  *)
(* What they assert is up to the caller and guards them here.  Without     *)
(* memory they call exit(1): no step follows.                              *)
(***************************************************************************)
EXTENDS Integers, SequencesExt

CONSTANTS Elements,
          None,         \* a slot never written
          InitCapacity, \* DEQUE_INIT_CAPACITY
          MaxCapacity   \* bound: no memory for a larger buffer

VARIABLES
    capacity, head, tail, data, \* deque_def
    expected                    \* the caller's view: the elements in order

deque == <<capacity, head, tail, data>>
vars == <<deque, expected>>

Slots == 0 .. MaxCapacity - 1 \* those from capacity on are not there

Empty == head = tail
Size == IF tail >= head THEN tail - head ELSE (capacity - head) + tail
FrontSlot == head
BackSlot == IF tail > 0 THEN tail - 1 ELSE capacity - 1

\* Mutant: all slots may be used.
IsFullByCount == Size = capacity

IsFull == IF tail + 1 >= capacity THEN head = 0 ELSE tail + 1 = head

Init ==
    /\ capacity = 0 /\ head = 0 /\ tail = 0
    /\ data = [b \in Slots |-> None]
    /\ expected = <<>>

\* deque_expand: a buffer that wraps around is copied in two pieces.
Expanded ==
    LET atEnd == capacity - head
        unrolled(b) == IF tail < head
                         THEN IF b < atEnd THEN data[head + b]
                              ELSE IF b < atEnd + tail THEN data[b - atEnd] ELSE None
                         ELSE IF b < tail - head THEN data[head + b] ELSE None
    IN  IF ~IsFull
          THEN [capacity |-> capacity, head |-> head, tail |-> tail, data |-> data]
          ELSE [capacity |-> IF capacity = 0 THEN InitCapacity ELSE capacity * 2,
                head |-> 0, tail |-> IF capacity = 0 THEN 0 ELSE capacity - 1,
                data |-> [b \in Slots |-> unrolled(b)]]

PushBack(e) ==
    \E q \in {Expanded} :
        /\ q.capacity <= MaxCapacity
        /\ data' = [q.data EXCEPT ![q.tail] = e]
        /\ tail' = IF q.tail + 1 = q.capacity THEN 0 ELSE q.tail + 1
        /\ capacity' = q.capacity /\ head' = q.head
        /\ expected' = Append(expected, e)

PushFront(e) ==
    \E q \in {Expanded} :
        /\ q.capacity <= MaxCapacity
        /\ head' = IF q.head > 0 THEN q.head - 1 ELSE q.capacity - 1
        /\ data' = [q.data EXCEPT ![head'] = e]
        /\ capacity' = q.capacity /\ tail' = q.tail
        /\ expected' = <<e>> \o expected

PopBack ==
    /\ ~Empty
    /\ tail' = BackSlot
    /\ expected' = Front(expected)
    /\ UNCHANGED <<capacity, head, data>>

PopFront ==
    /\ ~Empty
    /\ head' = IF head + 1 = capacity THEN 0 ELSE head + 1
    /\ expected' = Tail(expected)
    /\ UNCHANGED <<capacity, tail, data>>

Clear ==
    /\ head' = 0 /\ tail' = 0 /\ expected' = <<>>
    /\ UNCHANGED <<capacity, data>>

\* deque_free, and deque_new of the next deque.
Free ==
    /\ capacity' = 0 /\ head' = 0 /\ tail' = 0
    /\ data' = [b \in Slots |-> None]
    /\ expected' = <<>>

Next ==
    \/ \E e \in Elements : PushBack(e) \/ PushFront(e)
    \/ PopBack \/ PopFront \/ Clear \/ Free

Spec == Init /\ [][Next]_vars
-----------------------------------------------------------------------------
(* Properties *)

\* Size, emptiness, both ends and every slot between them are what the
\* caller pushed and did not pop, wherever the ring wraps around and though
\* it grows while wrapped; one slot is always free.
RingMatches ==
    /\ {head, tail} \subseteq {0} \cup 0 .. capacity - 1
    /\ Size = Len(expected) /\ (Empty <=> expected = <<>>)
    /\ Size < capacity \/ capacity = 0
    /\ \A n \in DOMAIN expected : data[(head + n - 1) % capacity] = expected[n]
    /\ ~Empty => data[FrontSlot] = Head(expected) /\ data[BackSlot] = Last(expected)
=============================================================================
