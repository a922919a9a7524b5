---------------------------- MODULE DequeProofs ----------------------------
(* What is proved of Deque for every instance: the shape of the ring, the    *)
(* copies of elements that live, and that callers see a sequence.            *)
EXTENDS DequeAndLegacy, ContainerLemmas

-----------------------------------------------------------------------------
(* The ring *)

\* The slot n behind slot h.
Pos(h, n) == IF h + n < capacity THEN h + n ELSE h + n - capacity

\* What the slots are computed from.
Geometry ==
    /\ capacity \in Nat /\ size \in Nat /\ head \in Nat
    /\ size <= capacity
    /\ head < capacity \/ head = 0
    /\ size = 0 => head = 0

\* A remainder by the capacity is one step back at most.
LEMMA Wraps ==
    ASSUME NEW cap \in Nat, cap > 0, NEW x \in Nat, x < 2 * cap
    PROVE  x % cap = IF x < cap THEN x ELSE x - cap
  OBVIOUS

\* The first element is in the buffer, unless there is none.
LEMMA FirstSlot ==
    Geometry =>
        /\ First \in Nat
        /\ size > 0 => First < capacity
        /\ First = IF pc = "fill" /\ call.op = "push_front" /\ size > 0
                     THEN Pos(head, 1) ELSE head
  <1> SUFFICES ASSUME Geometry
               PROVE  /\ First \in Nat
                      /\ size > 0 => First < capacity
                      /\ First = IF pc = "fill" /\ call.op = "push_front" /\ size > 0
                                   THEN Pos(head, 1) ELSE head
    OBVIOUS
  <1>1. CASE size > 0
    <2>1. capacity > 0 /\ head < capacity
      BY <1>1 DEF Geometry
    <2>2. (head + 1) % capacity = Pos(head, 1)
      BY <2>1, Wraps DEF Geometry, Pos
    <2> QED
      BY <1>1, <2>1, <2>2 DEF Geometry, First, Pos
  <1>2. CASE ~ (size > 0)
    BY <1>2 DEF Geometry, First
  <1> QED
    BY <1>1, <1>2

\* The slots of the sequence, which are different from each other.
LEMMA SequenceAt ==
    Geometry =>
        /\ Sequence = [n \in 1 .. size |-> Sequence[n]]
        /\ \A n \in 1 .. size :
              /\ Pos(First, n - 1) \in Slots(capacity)
              /\ Sequence[n] = data[Pos(First, n - 1)]
  <1> SUFFICES ASSUME Geometry, NEW n \in 1 .. size
               PROVE  /\ Pos(First, n - 1) \in Slots(capacity)
                      /\ Sequence[n] = data[Pos(First, n - 1)]
    BY DEF Sequence
  <1>1. /\ capacity \in Nat /\ size \in Nat /\ size <= capacity /\ n \in Nat
        /\ First \in Nat /\ First < capacity
    BY FirstSlot DEF Geometry
  <1>2. (First + n - 1) % capacity = Pos(First, n - 1)
    <2>1. First + n - 1 \in Nat /\ First + n - 1 < 2 * capacity /\ capacity > 0
      BY <1>1
    <2>2. (First + n - 1) % capacity = IF First + n - 1 < capacity
                                         THEN First + n - 1
                                         ELSE First + n - 1 - capacity
      BY <1>1, <2>1, Wraps
    <2> QED
      BY <1>1, <2>2 DEF Pos
  <1>3. Pos(First, n - 1) \in Slots(capacity)
    BY <1>1 DEF Pos, Slots
  <1> QED
    BY <1>2, <1>3 DEF Sequence

\* deque_slot, within the buffer.
LEMMA SlotIs ==
    ASSUME Geometry, NEW n \in Nat, n < capacity
    PROVE  Slot(n) = Pos(head, n) /\ Slot(n) \in Slots(capacity)
  <1>1. capacity > 0 /\ head < capacity /\ capacity \in Nat /\ head \in Nat
    BY DEF Geometry
  <1>2. head + n \in Nat /\ head + n < 2 * capacity
    BY <1>1
  <1>3. (head + n) % capacity = IF head + n < capacity THEN head + n
                                                       ELSE head + n - capacity
    BY <1>1, <1>2, Wraps
  <1> QED
    BY <1>1, <1>2, <1>3 DEF Slot, Slots, Pos

\* As many slots are in use as the size says, each once.
LEMMA InUseCount ==
    Geometry => Cardinality(InUse) = size
  <1> SUFFICES ASSUME Geometry PROVE Cardinality(InUse) = size
    OBVIOUS
  <1> DEFINE D == 0 .. size - 1
             f == [n \in D |-> Slot(n)]
  <1>1. capacity \in Nat /\ size \in Nat /\ head \in Nat /\ size <= capacity
    BY DEF Geometry
  <1>2. \A n \in 0 .. size - 1 : Slot(n) = Pos(head, n)
    BY <1>1, SlotIs
  <1>3. f \in [D -> InUse]
    BY DEF InUse
  <1>4. \A x, y \in D : f[x] = f[y] => x = y
    BY <1>1, <1>2 DEF Pos
  <1>5. \A b \in InUse : \E n \in D : f[n] = b
    BY DEF InUse
  <1>6. IsFiniteSet(D) /\ Cardinality(D) = size
    <2>1. 0 \in Int /\ size - 1 \in Int
      BY <1>1
    <2>2. /\ IsFiniteSet(0 .. size - 1)
          /\ Cardinality(0 .. size - 1) = IF 0 > size - 1 THEN 0 ELSE size - 1 - 0 + 1
      BY <2>1, FS_Interval
    <2> QED
      BY <1>1, <2>2
  <1> HIDE DEF D, f
  <1> QED
    BY <1>3, <1>4, <1>5, <1>6, CountMoved

\* What remains to be shown of a ring once its geometry is right.
LEMMA RingShapeIntro ==
    RingShape <=> /\ TypeOK /\ Geometry /\ ControlShape
                  /\ \A n \in 1 .. size : Sequence[n] \in Elements
  <1>1. ASSUME TypeOK, Geometry, ControlShape,
               \A n \in 1 .. size : Sequence[n] \in Elements,
               NEW b \in InUse, data[b] = None
        PROVE  pc = "fill" /\ b = head
    <2>1. PICK n \in 0 .. size - 1 : b = Slot(n)
      BY DEF InUse
    <2>2. size > 0 /\ size <= capacity /\ capacity \in Nat /\ head \in Nat /\ n \in Nat
             /\ head < capacity /\ size \in Nat
      BY <1>1 DEF Geometry
    <2>3. b = Pos(head, n)
      BY <1>1, <2>1, <2>2, SlotIs
    <2>4. None \notin Elements
      BY DequeAssumption
    <2>5. \A m \in 1 .. size : data[Pos(First, m - 1)] \in Elements
      BY <1>1, SequenceAt
    <2>6. First = IF pc = "fill" /\ call.op = "push_front" /\ size > 0
                    THEN Pos(head, 1) ELSE head
      BY <1>1, FirstSlot
    <2>7. CASE First = head
      <3>1. n + 1 \in 1 .. size /\ (n + 1) - 1 = n
        BY <2>2
      <3>2. data[Pos(head, n)] \in Elements
        BY <2>5, <2>7, <3>1
      <3> QED
        BY <1>1, <2>3, <2>4, <3>2
    <2>8. CASE First # head
      <3>1. pc = "fill" /\ First = Pos(head, 1)
        BY <2>6, <2>8
      <3>2. CASE n = 0
        BY <2>2, <2>3, <3>1, <3>2 DEF Pos
      <3>3. CASE n # 0
        <4>1. n \in 1 .. size /\ Pos(First, n - 1) = Pos(head, n)
          BY <2>2, <3>1, <3>3 DEF Pos
        <4>2. data[b] \in Elements
          BY <2>3, <2>5, <4>1
        <4> QED
          BY <1>1, <2>4, <4>2
      <3> QED
        BY <3>2, <3>3
    <2> QED
      BY <2>7, <2>8
  <1> QED
    BY <1>1, InUseCount DEF RingShape, Geometry, TypeOK

\* The same of the next state.
LEMMA NextRing ==
    /\ Geometry' =>
          /\ First' = IF pc' = "fill" /\ call'.op = "push_front" /\ size' > 0
                        THEN Pos(head, 1)' ELSE head'
          /\ Sequence' = [n \in 1 .. size' |-> Sequence'[n]]
          /\ \A n \in 1 .. size' : Sequence'[n] = data'[Pos(First, n - 1)']
    /\ RingShape' <=> /\ TypeOK' /\ Geometry' /\ ControlShape'
                      /\ \A n \in 1 .. size' : Sequence'[n] \in Elements
  <1>1. (Geometry =>
            /\ First \in Nat
            /\ size > 0 => First < capacity
            /\ First = IF pc = "fill" /\ call.op = "push_front" /\ size > 0
                         THEN Pos(head, 1) ELSE head)'
    BY FirstSlot, PTL
  <1>2. (Geometry =>
            /\ Sequence = [n \in 1 .. size |-> Sequence[n]]
            /\ \A n \in 1 .. size :
                  /\ Pos(First, n - 1) \in Slots(capacity)
                  /\ Sequence[n] = data[Pos(First, n - 1)])'
    BY SequenceAt, PTL
  <1>3. (RingShape <=> /\ TypeOK /\ Geometry /\ ControlShape
                       /\ \A n \in 1 .. size : Sequence[n] \in Elements)'
    BY RingShapeIntro, PTL
  <1> QED
    BY <1>1, <1>2, <1>3

-----------------------------------------------------------------------------
(* What a step does to the sequence *)

\* The ring and the copies together: the invariant.
Inv == RingShape /\ LiveCopies

\* What the invariant says in the terms of the proof.
LEMMA InvParts ==
    ASSUME Inv
    PROVE  /\ TypeOK /\ Geometry /\ ControlShape /\ LiveCopies
           /\ capacity \in Nat /\ size \in Nat /\ head \in Nat
           /\ live \in [Elements -> Int]
           /\ Sequence \in [1 .. size -> Elements]
           /\ \A n \in 1 .. size : Sequence[n] = data[Pos(First, n - 1)]
  BY RingShapeIntro, SequenceAt DEF Inv, Geometry, TypeOK

\* The elements are where they were, each at its place in the sequence.
LEMMA KeptSequence ==
    ASSUME Inv, Geometry', size' = size,
           \A n \in 1 .. size : data'[Pos(First, n - 1)'] = data[Pos(First, n - 1)]
    PROVE  Sequence' = Sequence
  <1>1. /\ Sequence = [n \in 1 .. size |-> Sequence[n]]
        /\ Sequence' = [n \in 1 .. size |-> Sequence'[n]]
    BY InvParts, SequenceAt, NextRing
  <1>2. \A n \in 1 .. size : Sequence'[n] = Sequence[n]
    BY InvParts, NextRing
  <1> QED
    BY <1>1, <1>2

\* The invariant after a step that keeps the sequence.
LEMMA KeptInv ==
    ASSUME Inv, TypeOK', Geometry', ControlShape', Sequence' = Sequence,
           size' = size, live' = live
    PROVE  Inv'
  <1>1. RingShape'
    BY NextRing, InvParts
  <1>2. LiveCopies'
    BY DEF LiveCopies, Inv
  <1> QED
    BY <1>1, <1>2 DEF Inv

\* The loop of deque_clear goes over the slots of the sequence.
LEMMA DestroyedCounts ==
    ASSUME Inv, First = head, NEW e \in Elements
    PROVE  Cardinality({b \in InUse : data[b] = e})
             = Cardinality({n \in 1 .. size : Sequence[n] = e})
  <1> DEFINE S == {n \in 1 .. size : Sequence[n] = e}
             T == {b \in InUse : data[b] = e}
             f == [n \in S |-> Pos(head, n - 1)]
  <1>1. /\ capacity \in Nat /\ size \in Nat /\ head \in Nat /\ size <= capacity
        /\ Geometry /\ \A n \in 1 .. size : Sequence[n] = data[Pos(head, n - 1)]
    BY InvParts DEF Geometry
  <1>2. IsFiniteSet(S) /\ Cardinality(S) \in Nat
    BY <1>1, PositionsFinite
  <1>3. \A n \in 0 .. size - 1 : Slot(n) = Pos(head, n)
    BY <1>1, SlotIs
  <1>4. f \in [S -> T]
    <2>1. ASSUME NEW n \in S PROVE Pos(head, n - 1) \in T
      <3>1. n \in 1 .. size /\ Sequence[n] = e
        OBVIOUS
      <3>2. n - 1 \in 0 .. size - 1
        BY <1>1, <3>1
      <3>3. Pos(head, n - 1) \in InUse
        BY <1>3, <3>2 DEF InUse
      <3> QED
        BY <1>1, <3>1, <3>3
    <2> QED
      BY <2>1
  <1>5. \A x, y \in S : f[x] = f[y] => x = y
    <2> TAKE x, y \in S
    <2>1. x \in 1 .. size /\ y \in 1 .. size
      OBVIOUS
    <2>2. Pos(head, x - 1) = Pos(head, y - 1) => x = y
      BY <1>1, <2>1 DEF Pos
    <2> QED
      BY <2>2
  <1>6. \A b \in T : \E n \in S : f[n] = b
    <2> TAKE b \in T
    <2>1. PICK n \in 0 .. size - 1 : b = Slot(n)
      BY DEF InUse
    <2>2. n + 1 \in 1 .. size /\ (n + 1) - 1 = n /\ b = Pos(head, n) /\ data[b] = e
      BY <1>1, <1>3, <2>1
    <2>3. n + 1 \in S /\ f[n + 1] = b
      BY <1>1, <2>2
    <2> QED
      BY <2>3
  <1> HIDE DEF f, S, T
  <1>7. Cardinality(T) = Cardinality(S)
    BY <1>2, <1>4, <1>5, <1>6, CountMoved
  <1> QED
    BY <1>7 DEF S, T

\* The types and the invariant after a step that destroys all elements.
LEMMA EmptiedInv ==
    ASSUME Inv, First = head, DestroyElements, size' = 0, head' = 0,
           capacity' \in Nat, data' \in [Slots(capacity') -> Elements \cup {None}],
           i' \in Nat, pc' \in Phases, call' \in CallRecords, ControlShape'
    PROVE  Inv' /\ Sequence' = <<>>
  <1>1. /\ live \in [Elements -> Int] /\ LiveCopies /\ size \in Nat
    BY InvParts
  <1>2. \A e \in Elements :
           /\ live[e] = Cardinality({n \in 1 .. size : Sequence[n] = e})
           /\ live'[e] = live[e] - Cardinality({n \in 1 .. size : Sequence[n] = e})
    BY <1>1, DestroyedCounts DEF LiveCopies, DestroyElements
  <1>3. live' \in [Elements -> Int] /\ \A e \in Elements : live'[e] = 0
    <2>1. \A e \in Elements : live[e] \in Int /\ live'[e] = live[e] - live[e]
      BY <1>1, <1>2
    <2>2. \A e \in Elements : live'[e] = 0
      BY <2>1
    <2> QED
      BY <2>2 DEF DestroyElements
  <1>4. TypeOK'
    BY <1>3 DEF TypeOK
  <1>5. Geometry'
    BY DEF Geometry
  <1>6. RingShape'
    BY <1>4, <1>5, NextRing
  <1>7. LiveCopies'
    <2>1. \A e \in Elements : {n \in 1 .. size' : Sequence'[n] = e} = {}
      OBVIOUS
    <2> QED
      BY <1>3, <2>1, FS_EmptySet DEF LiveCopies
  <1>8. Sequence' = <<>>
    <2>1. Sequence' \in [1 .. 0 -> Elements]
      BY <1>5, NextRing
    <2> QED
      BY <2>1, EmptyIs
  <1> QED
    BY <1>6, <1>7, <1>8 DEF Inv

\* A function that returns leaves nothing for later.
LEMMA Returned ==
    ASSUME TypeOK, NEW ret \in {"ok", "error"}, Return(ret)
    PROVE  /\ pc' = "idle" /\ pc' \in Phases /\ i' = 0 /\ i' \in Nat
           /\ call' \in CallRecords /\ ControlShape'
           /\ Geometry' => First' = head'
  <1>1. /\ pc' = "idle" /\ pc' \in Phases /\ i' = 0 /\ i' \in Nat
        /\ call' \in CallRecords /\ call'.ret = ret
    BY DEF TypeOK, Return, CallRecords, Phases
  <1>2. ControlShape'
    BY <1>1 DEF ControlShape
  <1>3. Geometry' => First' = head'
    BY <1>1, NextRing
  <1> QED
    BY <1>1, <1>2, <1>3

-----------------------------------------------------------------------------
(* Each action keeps the invariant, and what it makes of the sequence *)

\* A step that leaves the buffer alone.
LEMMA QuietInv ==
    ASSUME Inv, UNCHANGED queue, UNCHANGED live,
           pc = "fill" => call.op # "push_front",
           pc' = "fill" => call'.op # "push_front",
           i' \in Nat, pc' \in Phases, call' \in CallRecords,
           Sequence' = Sequence => ControlShape'
    PROVE  Inv' /\ Sequence' = Sequence
  <1>1. TypeOK /\ Geometry
    BY InvParts
  <1>2. Geometry' /\ TypeOK'
    BY <1>1 DEF Geometry, TypeOK, queue
  <1>3. First' = First
    BY DEF First, queue
  <1>4. Sequence' = Sequence
    BY <1>3 DEF Sequence, queue
  <1>5. Inv'
    BY <1>2, <1>4, KeptInv DEF queue
  <1> QED
    BY <1>4, <1>5

\* A larger buffer takes the sequence in at its start.
LEMMA GrownInv ==
    ASSUME Inv, NEW cap \in Nat, cap > size, Grow(cap),
           pc = "fill" => call.op # "push_front",
           pc' = "fill" => call'.op # "push_front",
           i' \in Nat, pc' \in Phases, call' \in CallRecords,
           Sequence' = Sequence => ControlShape'
    PROVE  Inv' /\ Sequence' = Sequence
  <1>1. /\ TypeOK /\ Geometry /\ capacity \in Nat /\ size \in Nat /\ head \in Nat
        /\ size <= capacity /\ (head < capacity \/ head = 0)
        /\ data \in [Slots(capacity) -> Elements \cup {None}]
    BY InvParts DEF Geometry, TypeOK
  <1>2. /\ capacity' = cap /\ head' = 0 /\ size' = size /\ live' = live
        /\ data' = [b \in Slots(cap) |-> IF b < size THEN data[Slot(b)] ELSE None]
    BY DEF Grow
  <1>3. Geometry'
    BY <1>1, <1>2 DEF Geometry
  <1>4. ASSUME NEW b \in Slots(cap), b < size
        PROVE  Slot(b) = Pos(head, b) /\ Slot(b) \in Slots(capacity)
    <2>1. b \in 0 .. cap - 1
      BY DEF Slots
    <2>2. b \in Nat /\ b < capacity
      BY <1>1, <1>4, <2>1
    <2> QED
      BY <1>1, <2>2, SlotIs
  <1>5. TypeOK'
    <2>1. data' \in [Slots(cap) -> Elements \cup {None}]
      BY <1>1, <1>2, <1>4
    <2> QED
      BY <1>1, <1>2, <2>1 DEF TypeOK
  <1>6. First = head /\ First' = 0
    BY <1>1, <1>2, <1>3, FirstSlot, NextRing
  <1>7. \A n \in 1 .. size : data'[Pos(First, n - 1)'] = data[Pos(First, n - 1)]
    <2> TAKE n \in 1 .. size
    <2>1. n - 1 \in Slots(cap) /\ n - 1 < size
      BY <1>1 DEF Slots
    <2>2. Pos(First, n - 1)' = n - 1
      BY <1>1, <1>2, <1>6, <2>1 DEF Pos
    <2>3. data'[n - 1] = data[Slot(n - 1)]
      BY <1>2, <2>1
    <2>4. Slot(n - 1) = Pos(First, n - 1)
      BY <1>4, <1>6, <2>1
    <2> QED
      BY <2>2, <2>3, <2>4
  <1>8. Sequence' = Sequence
    BY <1>2, <1>3, <1>7, KeptSequence
  <1>9. Inv'
    BY <1>2, <1>3, <1>5, <1>8, KeptInv
  <1> QED
    BY <1>8, <1>9

\* The caller's choice of a function and of its arguments.
LEMMA CallInv ==
    ASSUME Inv, NEW op \in {"push_back", "push_front", "pop_back", "pop_front",
                            "set", "clear", "destroy", "reserve", "copy"},
           NEW e \in Elements \cup {None}, NEW n \in Nat, NEW s \in Seq(Elements),
           Call(op, e, n, s)
    PROVE  Inv' /\ Sequence' = Sequence
  <1>1. TypeOK /\ ControlShape
    BY InvParts
  <1>2. /\ pc = "idle" /\ pc' = op /\ i' = i /\ UNCHANGED queue /\ UNCHANGED live
        /\ call' = [op |-> op, elem |-> e, at |-> n, source |-> s, ret |-> "pending"]
    BY DEF Call
  <1>3. i = 0
    BY <1>1, <1>2 DEF ControlShape
  <1>4. call' \in CallRecords /\ pc' \in Phases /\ i' \in Nat
    BY <1>2, <1>3 DEF CallRecords, Phases
  <1>5. ControlShape'
    BY <1>2, <1>3 DEF ControlShape
  <1> QED
    BY <1>2, <1>4, <1>5, QuietInv

\* Functions that return without having touched the buffer.
LEMMA ReturnInv ==
    ASSUME Inv, NEW ret \in {"ok", "error"}, Return(ret), UNCHANGED queue,
           UNCHANGED live, pc # "fill"
    PROVE  Inv' /\ Sequence' = Sequence
  <1>1. TypeOK
    BY InvParts
  <1>2. /\ pc' = "idle" /\ pc' \in Phases /\ i' \in Nat
        /\ call' \in CallRecords /\ ControlShape'
    BY <1>1, Returned
  <1> QED
    BY <1>2, QuietInv

\* deque_reserve keeps the sequence.
LEMMA ReserveInv ==
    ASSUME Inv, Reserve
    PROVE  Inv' /\ Sequence' = Sequence
  <1>1. TypeOK /\ pc = "reserve" /\ size \in Nat /\ size <= capacity
    BY InvParts DEF Reserve, Geometry
  <1>2. CASE Return("ok") /\ UNCHANGED <<queue, live>>
    BY <1>1, <1>2, ReturnInv
  <1>3. CASE Fail
    BY <1>1, <1>3, ReturnInv DEF Fail
  <1>4. CASE call.at > capacity /\ Grow(call.at) /\ Return("ok")
    <2>1. call.at \in Nat /\ call.at > size
      BY <1>1, <1>4 DEF TypeOK, CallRecords
    <2>2. /\ pc' = "idle" /\ pc' \in Phases /\ i' \in Nat
          /\ call' \in CallRecords /\ ControlShape'
      BY <1>1, <1>4, Returned
    <2> QED
      BY <1>1, <1>4, <2>1, <2>2, GrownInv
  <1>5. call.at \in Nat /\ capacity \in Nat
    BY <1>1 DEF TypeOK, CallRecords
  <1> QED
    BY <1>2, <1>3, <1>4, <1>5 DEF Reserve

\* deque_copy clears its target when it fails; a push leaves head at h.
LEMMA CopyPushFails ==
    ASSUME Inv, NEW h, call.op = "copy", PushFails(h)
    PROVE  Inv' /\ Sequence' = <<>>
  <1>1. /\ TypeOK /\ Geometry /\ capacity \in Nat
        /\ data \in [Slots(capacity) -> Elements \cup {None}]
    BY InvParts DEF TypeOK
  <1>2. /\ DestroyElements /\ size' = 0 /\ head' = 0 /\ Return("error")
        /\ capacity' = capacity /\ data' = data
    BY DEF PushFails
  <1>3. First = head
    BY <1>1, FirstSlot
  <1>4. /\ pc' \in Phases /\ i' \in Nat /\ call' \in CallRecords /\ ControlShape'
    BY <1>1, <1>2, Returned
  <1> QED
    BY <1>1, <1>2, <1>3, <1>4, EmptiedInv

\* A push with room for its element goes on; deque_copy stops otherwise.
LEMMA MakeRoomInv ==
    ASSUME Inv, MakeRoom
    PROVE  /\ Inv'
           /\ \/ Sequence' = Sequence /\ UNCHANGED call
              \/ Sequence' = Sequence /\ Return("error") /\ call.op # "copy"
              \/ Sequence' = <<>> /\ Return("error") /\ call.op = "copy"
  <1>1. /\ TypeOK /\ Geometry /\ ControlShape /\ size \in Nat /\ size <= capacity
        /\ capacity \in Nat /\ call \in CallRecords /\ i \in Nat
    BY InvParts DEF Geometry, TypeOK
  <1>2. \/ pc \in {"push_back", "push_front"} /\ call.elem # None /\ call.op = pc
        \/ pc = "loop" /\ call.op = "copy" /\ i < Len(call.source)
    BY <1>1 DEF MakeRoom, ControlShape
  <1> DEFINE Goes == /\ pc' = IF call.op = "push_front" THEN "lower" ELSE "fill"
                     /\ UNCHANGED <<call, i>>
  <1>3. ASSUME Goes, size' = size, size < capacity', Sequence' = Sequence
        PROVE  ControlShape'
    <2>1. call' = call /\ i' = i /\ pc' \in {"lower", "fill"}
      BY <1>3
    <2>2. CASE call.op = "copy"
      <3>1. pc = "loop" /\ pc' = "fill" /\ i < Len(call.source)
        BY <1>2, <1>3, <2>2
      <3>2. size = i /\ i <= Len(call.source) /\ call.ret = "pending"
               /\ \A n \in 1 .. i : Sequence[n] = call.source[n]
        BY <1>1, <2>2, <3>1 DEF ControlShape, CallRecords
      <3> QED
        BY <1>3, <2>1, <2>2, <3>1, <3>2 DEF ControlShape
    <2>3. CASE call.op # "copy"
      <3>1. /\ pc \in {"push_back", "push_front"} /\ call.op = pc /\ i = 0
            /\ call.elem # None /\ call.ret = "pending"
        BY <1>1, <1>2, <2>3 DEF ControlShape, CallRecords
      <3> QED
        BY <1>3, <2>1, <2>3, <3>1 DEF ControlShape
    <2> QED
      BY <2>2, <2>3
  <1>4. Goes => /\ i' \in Nat /\ pc' \in Phases /\ call' \in CallRecords
                /\ pc' = "fill" => call'.op # "push_front"
    BY <1>1 DEF Phases
  <1>5. CASE size = capacity /\ Goes
              /\ Grow(IF capacity = 0 THEN InitCapacity ELSE capacity * 2)
    <2> DEFINE cap == IF capacity = 0 THEN InitCapacity ELSE capacity * 2
    <2>1. cap \in Nat /\ cap > size
      BY <1>1, <1>5, DequeAssumption
    <2> HIDE DEF cap
    <2>2. Grow(cap) /\ size' = size /\ size < capacity'
      BY <1>5, <2>1 DEF cap, Grow
    <2>3. Sequence' = Sequence => ControlShape'
      BY <1>3, <1>5, <2>2
    <2>4. Inv' /\ Sequence' = Sequence
      BY <1>2, <1>4, <1>5, <2>1, <2>2, <2>3, GrownInv
    <2> QED
      BY <1>5, <2>4
  <1>6. CASE size # capacity /\ Goes /\ UNCHANGED <<queue, live>>
    <2>1. size' = size /\ size < capacity'
      BY <1>1, <1>6 DEF queue
    <2>2. Sequence' = Sequence => ControlShape'
      BY <1>3, <1>6, <2>1
    <2>3. Inv' /\ Sequence' = Sequence
      BY <1>2, <1>4, <1>6, <2>2, QuietInv
    <2> QED
      BY <1>6, <2>3
  <1>7. CASE PushFails(head)
    <2>1. CASE call.op = "copy"
      BY <1>7, <2>1, CopyPushFails DEF PushFails
    <2>2. CASE call.op # "copy"
      <3>1. Return("error") /\ UNCHANGED queue /\ UNCHANGED live /\ pc # "fill"
        BY <1>2, <1>7, <2>2 DEF PushFails, queue
      <3> QED
        BY <2>2, <3>1, ReturnInv
    <2> QED
      BY <2>1, <2>2
  <1>8. \/ size = capacity /\ Goes
             /\ Grow(IF capacity = 0 THEN InitCapacity ELSE capacity * 2)
        \/ size # capacity /\ Goes /\ UNCHANGED <<queue, live>>
        \/ PushFails(head)
    BY DEF MakeRoom
  <1> QED
    BY <1>5, <1>6, <1>7, <1>8

\* deque_push_front moves head, and the sequence stays behind it.
LEMMA LowerInv ==
    ASSUME Inv, Lower
    PROVE  Inv' /\ Sequence' = Sequence
  <1>1. /\ TypeOK /\ Geometry /\ ControlShape /\ size \in Nat /\ size <= capacity
        /\ capacity \in Nat /\ head \in Nat /\ (head < capacity \/ head = 0)
        /\ size = 0 => head = 0
    BY InvParts DEF Geometry
  <1>2. /\ pc = "lower" /\ pc' = "fill" /\ call.op = "push_front" /\ i = 0
        /\ head' = IF size > 0 THEN Lowered ELSE head
        /\ UNCHANGED <<capacity, size, data, live, call, i>>
    BY <1>1 DEF Lower, ControlShape
  <1>3. Geometry'
    BY <1>1, <1>2 DEF Geometry, Lowered
  <1>4. First = head /\ First' = head
    <2>1. First = head
      BY <1>1, <1>2, FirstSlot
    <2>2. First' = IF size > 0 THEN Pos(head, 1)' ELSE head'
      BY <1>2, <1>3, NextRing
    <2>3. CASE size > 0
      <3>1. Pos(head, 1)' = head
        BY <1>1, <1>2, <2>3 DEF Pos, Lowered
      <3> QED
        BY <2>1, <2>2, <2>3, <3>1
    <2>4. CASE ~ (size > 0)
      BY <1>2, <2>1, <2>2, <2>4
    <2> QED
      BY <2>3, <2>4
  <1>5. Sequence' = Sequence
    BY <1>2, <1>4 DEF Sequence
  <1>6. TypeOK'
    BY <1>1, <1>2, <1>3 DEF TypeOK, Phases, Geometry
  <1>7. ControlShape'
    BY <1>1, <1>2 DEF ControlShape
  <1> QED
    BY <1>2, <1>3, <1>5, <1>6, <1>7, KeptInv

\* A copy has come to its slot: it is one more element at j.
LEMMA AddedLive ==
    ASSUME Inv, NEW j \in 1 .. size + 1, NEW x \in Elements, Sequence'[j] = x,
           \A n \in 1 .. size : Sequence'[IF n < j THEN n ELSE n + 1] = Sequence[n],
           size' = size + 1, live' = [live EXCEPT ![x] = @ + 1]
    PROVE  LiveCopies' /\ live' \in [Elements -> Int]
  <1>1. /\ size \in Nat /\ live \in [Elements -> Int] /\ LiveCopies
    BY InvParts
  <1>2. ASSUME NEW e \in Elements
        PROVE  live'[e] = Cardinality({n \in 1 .. size' : Sequence'[n] = e})
    <2> DEFINE S == {n \in 1 .. size : Sequence[n] = e}
               T == {n \in 1 .. size + 1 : Sequence'[n] = e}
    <2>1. /\ Cardinality(S) \in Nat
          /\ Cardinality(T) = Cardinality(S) + (IF Sequence'[j] = e THEN 1 ELSE 0)
      <3>1. OneMore(size, Sequence, Sequence', j)
        BY DEF OneMore
      <3> HIDE DEF S, T
      <3>2. /\ Occurrences(size, Sequence, e) \in Nat
            /\ Occurrences(size + 1, Sequence', e)
                 = Occurrences(size, Sequence, e)
                     + (IF Sequence'[j] = e THEN 1 ELSE 0)
        BY <1>1, <3>1, CountInsert
      <3> QED
        BY <3>2 DEF S, T, Occurrences
    <2>2. live[e] = Cardinality(S)
      BY <1>1 DEF LiveCopies
    <2> HIDE DEF S, T
    <2>3. live'[e] = Cardinality(T)
      BY <1>1, <2>1, <2>2
    <2> QED
      BY <2>3 DEF T
  <1> QED
    BY <1>1, <1>2 DEF LiveCopies

\* A copy is destroyed: there is one element less, the one at j.
LEMMA RemovedLive ==
    ASSUME Inv, NEW j \in 1 .. size, size' = size - 1,
           \A n \in 1 .. size' : Sequence'[n] = Sequence[IF n < j THEN n ELSE n + 1],
           live' = [live EXCEPT ![Sequence[j]] = @ - 1]
    PROVE  LiveCopies' /\ live' \in [Elements -> Int]
  <1>1. /\ size \in Nat /\ live \in [Elements -> Int] /\ LiveCopies
        /\ Sequence[j] \in Elements
    BY InvParts
  <1>2. size' \in Nat /\ size = size' + 1
    BY <1>1
  <1>3. ASSUME NEW e \in Elements
        PROVE  live'[e] = Cardinality({n \in 1 .. size' : Sequence'[n] = e})
    <2> DEFINE S == {n \in 1 .. size' : Sequence'[n] = e}
               T == {n \in 1 .. size' + 1 : Sequence[n] = e}
    <2>1. j \in 1 .. size' + 1
      BY <1>2
    <2>2. /\ Cardinality(S) \in Nat
          /\ Cardinality(T) = Cardinality(S) + (IF Sequence[j] = e THEN 1 ELSE 0)
      <3>1. OneMore(size', Sequence', Sequence, j)
        BY DEF OneMore
      <3> HIDE DEF S, T
      <3>2. /\ Occurrences(size', Sequence', e) \in Nat
            /\ Occurrences(size' + 1, Sequence, e)
                 = Occurrences(size', Sequence', e)
                     + (IF Sequence[j] = e THEN 1 ELSE 0)
        BY <1>2, <2>1, <3>1, CountInsert
      <3> QED
        BY <3>2 DEF S, T, Occurrences
    <2>3. live[e] = Cardinality(T)
      BY <1>1, <1>2 DEF LiveCopies
    <2> HIDE DEF S, T
    <2>4. live'[e] = Cardinality(S)
      BY <1>1, <2>2, <2>3
    <2> QED
      BY <2>4 DEF S
  <1> QED
    BY <1>1, <1>3 DEF LiveCopies

\* The slots that Fill and the pops read and write are the ends of the ring.
LEMMA EndSlots ==
    ASSUME Inv
    PROVE  /\ size < capacity =>
                /\ Slot(size) = Pos(head, size) /\ Slot(size) \in Slots(capacity)
                /\ head \in Slots(capacity)
           /\ size > 0 => Slot(size - 1) = Pos(head, size - 1)
  <1>1. /\ Geometry /\ size \in Nat /\ size <= capacity /\ capacity \in Nat
        /\ head \in Nat /\ (head < capacity \/ head = 0)
    BY InvParts DEF Geometry
  <1>2. ASSUME size < capacity
        PROVE  /\ Slot(size) = Pos(head, size) /\ Slot(size) \in Slots(capacity)
               /\ head \in Slots(capacity)
    BY <1>1, <1>2, SlotIs DEF Slots
  <1>3. ASSUME size > 0 PROVE Slot(size - 1) = Pos(head, size - 1)
    <2>1. size - 1 \in Nat /\ size - 1 < capacity
      BY <1>1, <1>3
    <2> QED
      BY <1>1, <2>1, SlotIs
  <1> QED
    BY <1>2, <1>3

\* The pushed element is at the front or at the back of the sequence.
LEMMA FillInv ==
    ASSUME Inv, Fill
    PROVE  /\ Inv' /\ Pushed \in Elements
           /\ IF call.op = "push_front" THEN Sequence' = <<Pushed>> \o Sequence
                                        ELSE Sequence' = Append(Sequence, Pushed)
  <1>1. /\ TypeOK /\ Geometry /\ ControlShape /\ size \in Nat /\ size <= capacity
        /\ capacity \in Nat /\ head \in Nat /\ (head < capacity \/ head = 0)
        /\ call \in CallRecords /\ i \in Nat
        /\ data \in [Slots(capacity) -> Elements \cup {None}]
        /\ Sequence \in [1 .. size -> Elements]
        /\ \A n \in 1 .. size : Sequence[n] = data[Pos(First, n - 1)]
    BY InvParts DEF Geometry, TypeOK
  <1> DEFINE front == call.op = "push_front"
             b == IF front THEN head ELSE Slot(size)
             j == IF front THEN 1 ELSE size + 1
  <1>2. /\ pc = "fill" /\ size' = size + 1
        /\ data' = [data EXCEPT ![b] = Pushed]
        /\ live' = [live EXCEPT ![Pushed] = @ + 1]
        /\ UNCHANGED <<capacity, head>>
    BY DEF Fill
  <1>3. /\ size < capacity /\ call.op \in {"push_back", "push_front", "copy"}
        /\ call.op = "copy" \/ call.elem # None
        /\ call.op = "copy" => /\ size = i /\ i < Len(call.source)
                               /\ \A n \in 1 .. i : Sequence[n] = call.source[n]
        /\ call.op # "copy" => i = 0
    BY <1>1, <1>2 DEF ControlShape
  <1>4. Pushed \in Elements
    <2>1. call.elem \in Elements \cup {None} /\ call.source \in Seq(Elements)
      BY <1>1 DEF CallRecords
    <2>2. CASE call.op = "copy"
      <3>1. i + 1 \in 1 .. Len(call.source)
        BY <1>1, <1>3, <2>1, <2>2, LenProperties
      <3> QED
        BY <2>1, <2>2, <3>1, ElementOfSeq DEF Pushed
    <2>3. CASE call.op # "copy"
      BY <1>3, <2>1, <2>3 DEF Pushed
    <2> QED
      BY <2>2, <2>3
  <1>5. /\ Slot(size) = Pos(head, size) /\ Slot(size) \in Slots(capacity)
        /\ head \in Slots(capacity)
    BY <1>3, EndSlots
  <1>6. Geometry'
    BY <1>1, <1>2, <1>3, <1>5 DEF Geometry, Slots
  <1>7. /\ i' \in Nat /\ pc' \in {"idle", "loop"} /\ call' \in CallRecords
        /\ pc' \in Phases
        /\ IF call.op = "copy" THEN pc' = "loop" /\ i' = i + 1 /\ call' = call
                               ELSE pc' = "idle" /\ Return("ok")
    <2>1. CASE call.op = "copy"
      BY <1>1, <1>2, <2>1 DEF Fill, Phases
    <2>2. CASE call.op # "copy"
      <3>1. Return("ok")
        BY <2>2 DEF Fill
      <3> QED
        BY <1>1, <2>2, <3>1, Returned
    <2> QED
      BY <2>1, <2>2
  <1>8. First' = head /\ \A n \in Int : Pos(First, n)' = Pos(head, n)
    BY <1>2, <1>6, <1>7, NextRing DEF Pos
  <1>9. /\ data'[b] = Pushed
        /\ \A c \in Slots(capacity) : c # b => data'[c] = data[c]
    BY <1>1, <1>2, <1>5
  <1>10. Sequence'[j] = Pushed
    <2>1. j \in 1 .. size' /\ j - 1 = IF front THEN 0 ELSE size
      BY <1>1, <1>2
    <2>2. Sequence'[j] = data'[Pos(head, j - 1)]
      BY <1>1, <1>6, <1>8, <2>1, NextRing
    <2>3. Pos(head, j - 1) = b
      BY <1>1, <1>3, <1>5, <2>1 DEF Pos, Slots
    <2> QED
      BY <1>9, <2>2, <2>3
  <1>11. ASSUME NEW n \in 1 .. size
         PROVE  Sequence'[IF n < j THEN n ELSE n + 1] = Sequence[n]
    <2> DEFINE m == IF n < j THEN n ELSE n + 1
    <2>1. m \in 1 .. size' /\ m = IF front THEN n + 1 ELSE n
      BY <1>1, <1>2
    <2>2. Sequence'[m] = data'[Pos(head, m - 1)]
      BY <1>1, <1>6, <1>8, <2>1, NextRing
    <2>3. First = IF front THEN Pos(head, 1) ELSE head
      BY <1>1, <1>2, FirstSlot
    <2>4. Pos(First, n - 1) = Pos(head, m - 1)
      <3>1. CASE front
        BY <1>1, <1>3, <2>1, <2>3, <3>1 DEF Pos
      <3>2. CASE ~front
        BY <2>1, <2>3, <3>2
      <3> QED
        BY <3>1, <3>2
    <2>5. Pos(head, m - 1) \in Slots(capacity) /\ Pos(head, m - 1) # b
      BY <1>1, <1>3, <1>5, <2>1 DEF Pos, Slots
    <2> QED
      BY <1>1, <1>9, <2>2, <2>4, <2>5
  <1>12. LiveCopies' /\ live' \in [Elements -> Int]
    <2>1. j \in 1 .. size + 1
      BY <1>1
    <2> QED
      BY <1>2, <1>4, <1>10, <1>11, <2>1, AddedLive
  <1>13. Sequence' \in [1 .. size + 1 -> Elements]
    <2>1. ASSUME NEW n \in 1 .. size + 1 PROVE Sequence'[n] \in Elements
      <3>1. CASE n = j
        BY <1>4, <1>10, <3>1
      <3>2. CASE n # j
        <4> DEFINE m == IF n < j THEN n ELSE n - 1
        <4>1. m \in 1 .. size /\ n = IF m < j THEN m ELSE m + 1
          BY <1>1, <3>2
        <4>2. Sequence'[n] = Sequence[m]
          BY <1>11, <4>1
        <4> QED
          BY <1>1, <4>1, <4>2
      <3> QED
        BY <3>1, <3>2
    <2>2. Sequence' = [n \in 1 .. size + 1 |-> Sequence'[n]]
      BY <1>2, <1>6, NextRing
    <2> QED
      BY <2>1, <2>2
  <1>14. IF front THEN Sequence' = <<Pushed>> \o Sequence
                  ELSE Sequence' = Append(Sequence, Pushed)
    <2>1. CASE front
      <3>1. \A n \in 1 .. size : Sequence'[n + 1] = Sequence[n]
        BY <1>1, <1>11, <2>1
      <3> QED
        BY <1>1, <1>10, <1>13, <2>1, <3>1, ConsIs
    <2>2. CASE ~front
      <3>1. \A n \in 1 .. size : Sequence'[n] = Sequence[n]
        BY <1>1, <1>11, <2>2
      <3> QED
        BY <1>1, <1>10, <1>13, <2>2, <3>1, AppendIs
    <2> QED
      BY <2>1, <2>2
  <1>15. ControlShape'
    <2>1. CASE call.op = "copy"
      <3>1. \A n \in 1 .. i + 1 : Sequence'[n] = call.source[n]
        <4> TAKE n \in 1 .. i + 1
        <4>1. CASE n = i + 1
          BY <1>1, <1>3, <1>10, <2>1, <4>1 DEF Pushed
        <4>2. CASE n # i + 1
          <5>1. n \in 1 .. size /\ n < j
            BY <1>1, <1>3, <2>1, <4>2
          <5> QED
            BY <1>3, <1>11, <2>1, <5>1
        <4> QED
          BY <4>1, <4>2
      <3>2. call.ret = "pending"
        BY <1>1, <1>2 DEF ControlShape, CallRecords
      <3>3. i + 1 <= Len(call.source)
        <4>1. Len(call.source) \in Nat
          BY <1>1, LenProperties DEF CallRecords
        <4> QED
          BY <1>1, <1>3, <2>1, <4>1
      <3> QED
        BY <1>2, <1>3, <1>7, <2>1, <3>1, <3>2, <3>3 DEF ControlShape
    <2>2. CASE call.op # "copy"
      BY <1>1, <1>7, <2>2, Returned
    <2> QED
      BY <2>1, <2>2
  <1>16. TypeOK'
    <2>1. data' \in [Slots(capacity') -> Elements \cup {None}]
      BY <1>1, <1>2, <1>4
    <2>2. capacity' \in Nat /\ size' \in Nat /\ head' \in Nat
      BY <1>6 DEF Geometry
    <2> QED
      BY <1>7, <1>12, <2>1, <2>2 DEF TypeOK
  <1>17. RingShape'
    <2>1. \A n \in 1 .. size' : Sequence'[n] \in Elements
      BY <1>2, <1>13
    <2> QED
      BY <1>6, <1>15, <1>16, <2>1, NextRing
  <1> QED
    BY <1>4, <1>12, <1>14, <1>17 DEF Inv

\* A push that gets no copy leaves the sequence as it was: deque_push_front
\* has moved head back.
LEMMA FillFailsInv ==
    ASSUME Inv, FillFails
    PROVE  /\ Inv' /\ Return("error")
           /\ IF call.op = "copy" THEN Sequence' = <<>> ELSE Sequence' = Sequence
  <1>1. /\ TypeOK /\ Geometry /\ ControlShape /\ size \in Nat /\ size <= capacity
        /\ pc = "fill" /\ call.op \in {"push_back", "push_front", "copy"}
    BY InvParts DEF Geometry, ControlShape, FillFails
  <1> DEFINE h == IF call.op = "push_front" THEN Restored ELSE head
  <1>2. PushFails(h)
    BY DEF FillFails
  <1>3. CASE call.op = "copy"
    BY <1>2, <1>3, CopyPushFails DEF PushFails
  <1>4. CASE call.op # "copy"
    <2>1. /\ head' = h /\ Return("error") /\ size' = size /\ live' = live
          /\ capacity' = capacity /\ data' = data
      BY <1>2, <1>4 DEF PushFails
    <2>2. h = First
      BY <1>1 DEF First, Restored
    <2>3. Geometry'
      <3>1. First \in Nat /\ (size > 0 => First < capacity)
        BY <1>1, FirstSlot
      <3>2. size = 0 => First = 0
        BY <1>1 DEF First, Geometry
      <3> QED
        BY <1>1, <2>1, <2>2, <3>1, <3>2 DEF Geometry
    <2>4. /\ i' \in Nat /\ pc' \in Phases /\ call' \in CallRecords /\ ControlShape'
          /\ First' = First
      BY <1>1, <2>1, <2>2, <2>3, Returned
    <2>5. Sequence' = Sequence
      BY <2>1, <2>4 DEF Sequence
    <2>6. TypeOK'
      BY <1>1, <2>1, <2>3, <2>4 DEF TypeOK, Geometry
    <2>7. Inv'
      BY <2>1, <2>3, <2>4, <2>5, <2>6, KeptInv
    <2> QED
      BY <1>4, <2>1, <2>5, <2>7
  <1> QED
    BY <1>3, <1>4

\* deque_copy starts from an empty target.
LEMMA CopyBeginInv ==
    ASSUME Inv, CopyBegin
    PROVE  Inv' /\ Sequence' = <<>>
  <1>1. /\ TypeOK /\ Geometry /\ ControlShape /\ call \in CallRecords /\ i \in Nat
    BY InvParts DEF TypeOK
  <1>2. /\ pc = "copy" /\ DestroyElements /\ pc' = "prepare"
        /\ capacity' = 0 /\ size' = 0 /\ head' = 0 /\ data' = <<>>
        /\ call' = call /\ i' = i
    BY DEF CopyBegin
  <1>3. First = head
    BY <1>1, <1>2, FirstSlot
  <1>4. call.op = "copy" /\ call.ret = "pending" /\ i = 0
    BY <1>1, <1>2 DEF ControlShape, CallRecords
  <1>5. data' \in [Slots(capacity') -> Elements \cup {None}]
    <2>1. Slots(capacity') = {}
      BY <1>2 DEF Slots
    <2> QED
      BY <1>2, <2>1
  <1>6. ControlShape' /\ pc' \in Phases /\ call' \in CallRecords /\ i' \in Nat
    BY <1>1, <1>2, <1>4 DEF ControlShape, Phases
  <1> QED
    BY <1>2, <1>3, <1>5, <1>6, EmptiedInv

\* Making room for the whole source changes nothing that callers see.
LEMMA CopyReserveInv ==
    ASSUME Inv, CopyReserve
    PROVE  /\ Inv' /\ Sequence' = Sequence /\ Sequence = <<>>
           /\ UNCHANGED call \/ Return("error")
  <1>1. /\ TypeOK /\ Geometry /\ ControlShape /\ call \in CallRecords /\ i \in Nat
        /\ size \in Nat /\ Sequence \in [1 .. size -> Elements]
    BY InvParts DEF TypeOK
  <1>2. /\ pc = "prepare" /\ size = 0 /\ i = 0
        /\ call.op = "copy" /\ call.ret = "pending"
    BY <1>1 DEF CopyReserve, ControlShape, CallRecords
  <1>3. Sequence = <<>>
    BY <1>1, <1>2, EmptyIs
  <1>4. Len(call.source) \in Nat
    BY <1>1, LenProperties DEF CallRecords
  <1>5. ASSUME pc' = "loop", UNCHANGED <<call, i>>, size' = size
        PROVE  ControlShape' /\ i' \in Nat /\ pc' \in Phases /\ call' \in CallRecords
    BY <1>1, <1>2, <1>4, <1>5 DEF ControlShape, Phases
  <1>6. CASE pc' = "loop" /\ UNCHANGED <<queue, live, call, i>>
    <2>1. ControlShape' /\ i' \in Nat /\ pc' \in Phases /\ call' \in CallRecords
      BY <1>5, <1>6 DEF queue
    <2>2. Inv' /\ Sequence' = Sequence
      BY <1>2, <1>6, <2>1, QuietInv
    <2> QED
      BY <1>3, <1>6, <2>2
  <1>7. CASE /\ Len(call.source) > capacity /\ Grow(Len(call.source))
             /\ pc' = "loop" /\ UNCHANGED <<call, i>>
    <2>1. ControlShape' /\ i' \in Nat /\ pc' \in Phases /\ call' \in CallRecords
      BY <1>5, <1>7 DEF Grow
    <2>2. Len(call.source) > size
      BY <1>1, <1>2, <1>4, <1>7 DEF TypeOK
    <2>3. Inv' /\ Sequence' = Sequence
      BY <1>2, <1>4, <1>7, <2>1, <2>2, GrownInv
    <2> QED
      BY <1>3, <1>7, <2>3
  <1>8. CASE Fail
    BY <1>2, <1>3, <1>8, ReturnInv DEF Fail
  <1> QED
    BY <1>6, <1>7, <1>8 DEF CopyReserve

\* One element less, the one at j.
LEMMA PoppedInv ==
    ASSUME Inv, Return("ok"), NEW j \in 1 .. size, size' = size - 1, Geometry',
           capacity' = capacity, data' = data,
           \A n \in 1 .. size - 1 :
              Sequence'[n] = Sequence[IF n < j THEN n ELSE n + 1],
           live' = [live EXCEPT ![Sequence[j]] = @ - 1]
    PROVE  /\ Inv' /\ size - 1 \in Nat
           /\ Sequence \in [1 .. (size - 1) + 1 -> Elements]
           /\ Sequence' \in [1 .. size - 1 -> Elements]
  <1>1. /\ TypeOK /\ size \in Nat /\ Sequence \in [1 .. size -> Elements]
    BY InvParts
  <1>2. LiveCopies' /\ live' \in [Elements -> Int]
    <2>1. \A n \in 1 .. size' : Sequence'[n] = Sequence[IF n < j THEN n ELSE n + 1]
      OBVIOUS
    <2> QED
      BY <2>1, RemovedLive
  <1>3. /\ i' \in Nat /\ pc' \in Phases /\ call' \in CallRecords /\ ControlShape'
    BY <1>1, Returned
  <1>4. size - 1 \in Nat /\ (size - 1) + 1 = size
    BY <1>1
  <1>5. \A n \in 1 .. size - 1 : Sequence'[n] \in Elements
    <2> TAKE n \in 1 .. size - 1
    <2>1. (IF n < j THEN n ELSE n + 1) \in 1 .. size
      BY <1>1
    <2> QED
      BY <1>1, <2>1
  <1>6. TypeOK'
    BY <1>1, <1>2, <1>3 DEF TypeOK, Geometry
  <1>7. RingShape'
    BY <1>3, <1>5, <1>6, NextRing
  <1>8. Sequence' \in [1 .. size - 1 -> Elements]
    <2>1. Sequence' = [n \in 1 .. size - 1 |-> Sequence'[n]]
      BY NextRing
    <2> QED
      BY <1>5, <2>1
  <1> QED
    BY <1>1, <1>2, <1>4, <1>7, <1>8 DEF Inv

LEMMA PopBackInv ==
    ASSUME Inv, PopBack
    PROVE  /\ Inv' /\ Sequence # <<>>
           /\ Sequence' = SubSeq(Sequence, 1, Len(Sequence) - 1)
  <1>1. /\ TypeOK /\ Geometry /\ capacity \in Nat /\ size \in Nat /\ head \in Nat
        /\ size <= capacity /\ (head < capacity \/ head = 0)
        /\ Sequence \in [1 .. size -> Elements]
        /\ \A n \in 1 .. size : Sequence[n] = data[Pos(First, n - 1)]
    BY InvParts DEF Geometry
  <1>2. /\ pc = "pop_back" /\ size > 0 /\ size' = size - 1 /\ Return("ok")
        /\ live' = [live EXCEPT ![data[Slot(size - 1)]] = @ - 1]
        /\ head' = IF size = 1 THEN 0 ELSE head
        /\ capacity' = capacity /\ data' = data
    BY DEF PopBack
  <1>3. First = head
    BY <1>1, <1>2, FirstSlot
  <1>4. Geometry'
    BY <1>1, <1>2 DEF Geometry
  <1>5. First' = head'
    BY <1>1, <1>2, <1>4, Returned
  <1>6. data[Slot(size - 1)] = Sequence[size]
    <2>1. Slot(size - 1) = Pos(head, size - 1)
      BY <1>2, EndSlots
    <2> QED
      BY <1>1, <1>2, <1>3, <2>1
  <1>7. \A n \in 1 .. size - 1 : Sequence'[n] = Sequence[n]
    <2> TAKE n \in 1 .. size - 1
    <2>1. n \in 1 .. size /\ n \in 1 .. size' /\ size # 1
      BY <1>1, <1>2
    <2>2. Pos(First, n - 1)' = Pos(First, n - 1)
      BY <1>2, <1>3, <1>5, <2>1 DEF Pos
    <2> QED
      BY <1>1, <1>2, <1>4, <2>1, <2>2, NextRing
  <1>8. /\ Inv' /\ size - 1 \in Nat
        /\ Sequence \in [1 .. (size - 1) + 1 -> Elements]
        /\ Sequence' \in [1 .. size - 1 -> Elements]
    <2>1. size \in 1 .. size
      BY <1>1, <1>2
    <2>2. \A n \in 1 .. size - 1 :
             Sequence'[n] = Sequence[IF n < size THEN n ELSE n + 1]
      BY <1>1, <1>7
    <2> QED
      BY <1>2, <1>4, <1>6, <2>1, <2>2, PoppedInv
  <1>9. Sequence' = SubSeq(Sequence, 1, Len(Sequence) - 1)
    BY <1>7, <1>8, AppendIs
  <1>10. Sequence # <<>>
    BY <1>1, <1>2, SequenceOf
  <1> QED
    BY <1>8, <1>9, <1>10

LEMMA PopFrontInv ==
    ASSUME Inv, PopFront
    PROVE  Inv' /\ Sequence # <<>> /\ Sequence' = Tail(Sequence)
  <1>1. /\ TypeOK /\ Geometry /\ capacity \in Nat /\ size \in Nat /\ head \in Nat
        /\ size <= capacity /\ (head < capacity \/ head = 0)
        /\ Sequence \in [1 .. size -> Elements]
        /\ \A n \in 1 .. size : Sequence[n] = data[Pos(First, n - 1)]
    BY InvParts DEF Geometry
  <1>2. /\ pc = "pop_front" /\ size > 0 /\ size' = size - 1 /\ Return("ok")
        /\ live' = [live EXCEPT ![data[head]] = @ - 1]
        /\ head' = IF size = 1 THEN 0 ELSE (head + 1) % capacity
        /\ capacity' = capacity /\ data' = data
    BY DEF PopFront
  <1>3. First = head
    BY <1>1, <1>2, FirstSlot
  <1>4. (head + 1) % capacity = Pos(head, 1)
    <2>1. capacity > 0 /\ head + 1 \in Nat /\ head + 1 < 2 * capacity
      BY <1>1, <1>2
    <2>2. (head + 1) % capacity = IF head + 1 < capacity THEN head + 1
                                                         ELSE head + 1 - capacity
      BY <1>1, <2>1, Wraps
    <2> QED
      BY <2>2 DEF Pos
  <1>5. Geometry'
    BY <1>1, <1>2, <1>4 DEF Geometry, Pos
  <1>6. First' = head'
    BY <1>1, <1>2, <1>5, Returned
  <1>7. data[head] = Sequence[1]
    <2>1. 1 \in 1 .. size /\ Pos(head, 1 - 1) = head
      BY <1>1, <1>2 DEF Pos
    <2> QED
      BY <1>1, <1>3, <2>1
  <1>8. \A n \in 1 .. size - 1 : Sequence'[n] = Sequence[n + 1]
    <2> TAKE n \in 1 .. size - 1
    <2>1. n + 1 \in 1 .. size /\ n \in 1 .. size' /\ size # 1 /\ (n + 1) - 1 = n
      BY <1>1, <1>2
    <2>2. Pos(First, n - 1)' = Pos(head, n)
      <3>1. First' = Pos(head, 1) /\ capacity' = capacity /\ n \in Nat
        BY <1>2, <1>4, <1>6, <2>1
      <3>2. Pos(First, n - 1)' = IF First' + (n - 1) < capacity
                                   THEN First' + (n - 1)
                                   ELSE First' + (n - 1) - capacity
        BY <3>1 DEF Pos
      <3>3. head < capacity /\ n < capacity
        BY <1>1, <1>2, <2>1
      <3> QED
        BY <1>1, <3>1, <3>2, <3>3 DEF Pos
    <2>3. Sequence'[n] = data[Pos(head, n)]
      BY <1>2, <1>5, <2>1, <2>2, NextRing
    <2> QED
      BY <1>1, <1>3, <2>1, <2>3
  <1>9. /\ Inv' /\ size - 1 \in Nat
        /\ Sequence \in [1 .. (size - 1) + 1 -> Elements]
        /\ Sequence' \in [1 .. size - 1 -> Elements]
    <2>1. 1 \in 1 .. size
      BY <1>1, <1>2
    <2>2. \A n \in 1 .. size - 1 :
             Sequence'[n] = Sequence[IF n < 1 THEN n ELSE n + 1]
      BY <1>1, <1>8
    <2> QED
      BY <1>2, <1>5, <1>7, <2>1, <2>2, PoppedInv
  <1>10. Sequence' = Tail(Sequence)
    <2>1. \A n \in 1 .. size - 1 : Sequence[n + 1] = Sequence'[n]
      BY <1>8
    <2> QED
      BY <1>9, <2>1, ConsIs
  <1>11. Sequence # <<>>
    BY <1>1, <1>2, SequenceOf
  <1> QED
    BY <1>9, <1>10, <1>11

\* deque_set exchanges one copy for another.
LEMMA SetInv ==
    ASSUME Inv, Set
    PROVE  /\ Inv' /\ call.elem \in Elements /\ call.at < Len(Sequence)
           /\ Sequence' = [Sequence EXCEPT ![call.at + 1] = call.elem]
  <1>1. /\ TypeOK /\ Geometry /\ capacity \in Nat /\ size \in Nat /\ head \in Nat
        /\ size <= capacity /\ (head < capacity \/ head = 0) /\ LiveCopies
        /\ data \in [Slots(capacity) -> Elements \cup {None}]
        /\ live \in [Elements -> Int] /\ call \in CallRecords
        /\ Sequence \in [1 .. size -> Elements]
        /\ \A n \in 1 .. size : Sequence[n] = data[Pos(First, n - 1)]
    BY InvParts DEF Geometry, TypeOK
  <1> DEFINE b == Slot(call.at)
             j == call.at + 1
             x == call.elem
  <1>2. /\ pc = "set" /\ x # None /\ call.at < size /\ Return("ok")
        /\ live' = [[live EXCEPT ![x] = @ + 1] EXCEPT ![data[b]] = @ - 1]
        /\ data' = [data EXCEPT ![b] = x]
        /\ capacity' = capacity /\ size' = size /\ head' = head
    BY DEF Set
  <1>3. call.at \in Nat /\ x \in Elements /\ j \in 1 .. size /\ j - 1 = call.at
    BY <1>1, <1>2 DEF CallRecords
  <1>4. b = Pos(head, j - 1) /\ b \in Slots(capacity) /\ First = head
    BY <1>1, <1>2, <1>3, SlotIs, FirstSlot
  <1>5. data[b] = Sequence[j] /\ Sequence[j] \in Elements
    BY <1>1, <1>3, <1>4
  <1>6. Geometry'
    BY <1>1, <1>2 DEF Geometry
  <1>7. /\ i' \in Nat /\ pc' \in Phases /\ call' \in CallRecords /\ ControlShape'
        /\ First' = head
    BY <1>1, <1>2, <1>6, Returned
  <1>8. \A n \in 1 .. size : Sequence'[n] = data'[Pos(head, n - 1)]
    <2> TAKE n \in 1 .. size
    <2>1. Pos(First, n - 1)' = Pos(head, n - 1)
      BY <1>2, <1>7 DEF Pos
    <2> QED
      BY <1>2, <1>6, <2>1, NextRing
  <1>9. Sequence'[j] = x
    BY <1>1, <1>2, <1>3, <1>4, <1>8
  <1>10. \A n \in 1 .. size : n # j => Sequence'[n] = Sequence[n]
    <2> SUFFICES ASSUME NEW n \in 1 .. size, n # j
                 PROVE  Sequence'[n] = Sequence[n]
      OBVIOUS
    <2>1. Pos(head, n - 1) # b
      <3> HIDE DEF j
      <3>1. /\ n \in Nat /\ j \in Nat /\ 0 < n /\ n <= capacity
            /\ 0 < j /\ j <= capacity /\ n # j
        BY <1>1, <1>3
      <3>2. head \in Nat /\ capacity \in Nat /\ head < capacity
        BY <1>1, <1>2, <1>3
      <3>3. Pos(head, n - 1) # Pos(head, j - 1)
        BY <3>1, <3>2 DEF Pos
      <3> QED
        BY <1>4, <3>3
    <2>2. Pos(head, n - 1) \in Slots(capacity)
      BY <1>1 DEF Pos, Slots
    <2> QED
      BY <1>1, <1>2, <1>4, <1>8, <2>1, <2>2
  <1> HIDE DEF b, j, x
  <1>11. live' \in [Elements -> Int]
    BY <1>1, <1>2, <1>3, <1>5
  <1>12. LiveCopies'
    <2>1. ASSUME NEW e \in Elements
          PROVE  live'[e] = Cardinality({n \in 1 .. size' : Sequence'[n] = e})
      <3>1. OneOther(size, Sequence, Sequence', j)
        BY <1>10 DEF OneOther
      <3>2. /\ Occurrences(size, Sequence, e) \in Nat
            /\ Occurrences(size, Sequence', e)
                 = Occurrences(size, Sequence, e)
                     - (IF Sequence[j] = e THEN 1 ELSE 0)
                     + (IF Sequence'[j] = e THEN 1 ELSE 0)
        <4>1. size \in Nat /\ j \in 1 .. size
          BY <1>1, <1>3
        <4> QED
          BY <3>1, <4>1, CountReplace
      <3>3. live[e] = Occurrences(size, Sequence, e)
        BY <1>1 DEF LiveCopies, Occurrences
      <3>4. live'[e] = live[e] - (IF Sequence[j] = e THEN 1 ELSE 0)
                               + (IF x = e THEN 1 ELSE 0)
        <4>1. live'[e] = IF e = Sequence[j]
                           THEN (IF e = x THEN live[e] + 1 ELSE live[e]) - 1
                           ELSE (IF e = x THEN live[e] + 1 ELSE live[e])
          BY <1>1, <1>2, <1>3, <1>5
        <4>2. live[e] \in Int
          BY <1>1
        <4> QED
          BY <4>1, <4>2
      <3>5. live'[e] = Occurrences(size, Sequence', e)
        BY <1>9, <3>2, <3>3, <3>4
      <3> QED
        BY <1>2, <3>5 DEF Occurrences
    <2> QED
      BY <2>1 DEF LiveCopies
  <1>13. \A n \in 1 .. size : Sequence'[n] \in Elements
    BY <1>1, <1>3, <1>9, <1>10
  <1>14. TypeOK'
    BY <1>1, <1>2, <1>3, <1>7, <1>11 DEF TypeOK, Geometry
  <1>15. RingShape'
    BY <1>2, <1>6, <1>7, <1>13, <1>14, NextRing
  <1>16. Sequence' = [Sequence EXCEPT ![j] = x]
    <2>1. Sequence' = [n \in 1 .. size |-> Sequence'[n]]
      BY <1>2, <1>6, NextRing
    <2>2. Sequence' = [n \in 1 .. size |-> IF n = j THEN x ELSE Sequence[n]]
      BY <1>9, <1>10, <2>1
    <2> QED
      BY <1>1, <2>2
  <1>17. Len(Sequence) = size
    BY <1>1, SequenceOf
  <1> QED
    BY <1>2, <1>3, <1>12, <1>15, <1>16, <1>17 DEF Inv, x, j

LEMMA ClearInv ==
    ASSUME Inv, Clear
    PROVE  Inv' /\ Sequence' = <<>>
  <1>1. /\ TypeOK /\ Geometry /\ capacity \in Nat
        /\ data \in [Slots(capacity) -> Elements \cup {None}]
    BY InvParts DEF TypeOK
  <1>2. /\ pc \in {"clear", "destroy"} /\ DestroyElements /\ Return("ok")
        /\ size' = 0 /\ head' = 0
    BY DEF Clear
  <1>3. First = head
    BY <1>1, <1>2, FirstSlot
  <1>4. capacity' \in Nat /\ data' \in [Slots(capacity') -> Elements \cup {None}]
    <2>1. CASE pc = "destroy"
      <3>1. capacity' = 0 /\ data' = <<>> /\ Slots(0) = {}
        BY <2>1 DEF Clear, Slots
      <3> QED
        BY <3>1
    <2>2. CASE pc # "destroy"
      <3>1. capacity' = capacity /\ data' = data
        BY <2>2 DEF Clear
      <3> QED
        BY <1>1, <3>1
    <2> QED
      BY <2>1, <2>2
  <1>5. /\ i' \in Nat /\ pc' \in Phases /\ call' \in CallRecords /\ ControlShape'
    BY <1>1, <1>2, Returned
  <1> QED
    BY <1>2, <1>3, <1>4, <1>5, EmptiedInv

\* The functions that refuse their arguments.
LEMMA RefusedInv ==
    ASSUME Inv, PushInvalid \/ PopMissing \/ SetFails
    PROVE  Inv' /\ Sequence' = Sequence /\ Return("error")
  <1>1. /\ pc \in {"push_back", "push_front", "pop_back", "pop_front", "set"}
        /\ Return("error") /\ UNCHANGED queue /\ UNCHANGED live
    BY DEF PushInvalid, PopMissing, SetFails, Fail
  <1> QED
    BY <1>1, ReturnInv

LEMMA CopyEndInv ==
    ASSUME Inv, CopyEnd
    PROVE  Inv' /\ Sequence' = Sequence /\ Return("ok")
  <1>1. pc = "loop" /\ Return("ok") /\ UNCHANGED queue /\ UNCHANGED live
    BY DEF CopyEnd
  <1> QED
    BY <1>1, ReturnInv

-----------------------------------------------------------------------------
(* The invariant holds *)

LEMMA InitInv == Init => Inv /\ Sequence = <<>>
  <1> SUFFICES ASSUME Init PROVE Inv /\ Sequence = <<>>
    OBVIOUS
  <1>1. TypeOK
    <2>1. data \in [Slots(capacity) -> Elements \cup {None}]
      <3>1. Slots(capacity) = {} /\ data = <<>>
        BY DEF Init, Slots
      <3> QED
        BY <3>1
    <2>2. call \in CallRecords
      BY DEF Init, CallRecords
    <2> QED
      BY <2>1, <2>2 DEF Init, TypeOK, Phases
  <1>2. Geometry /\ ControlShape /\ size = 0
    BY DEF Init, Geometry, ControlShape
  <1>3. Sequence = <<>>
    <2>1. Sequence \in [1 .. 0 -> Elements]
      BY <1>2 DEF Sequence
    <2> QED
      BY <2>1, EmptyIs
  <1>4. RingShape
    BY <1>1, <1>2, RingShapeIntro
  <1>5. LiveCopies
    <2>1. \A e \in Elements : {n \in 1 .. size : Sequence[n] = e} = {}
      BY <1>2
    <2> QED
      BY <2>1, FS_EmptySet DEF LiveCopies, Init
  <1> QED
    BY <1>3, <1>4, <1>5 DEF Inv

\* A function is entered with what callers may pass.
LEMMA CallsInv ==
    ASSUME Inv, Calls
    PROVE  /\ Inv' /\ Sequence' = Sequence
           /\ \E op \in {"push_back", "push_front", "pop_back", "pop_front",
                         "set", "clear", "destroy", "reserve", "copy"},
                 e \in Elements \cup {None}, n \in Indices, s \in Sources :
                    Call(op, e, n, s)
  <1>1. PICK op \in {"push_back", "push_front", "pop_back", "pop_front",
                     "set", "clear", "destroy", "reserve", "copy"},
             e \in Elements \cup {None}, n \in Indices, s \in Sources :
                Call(op, e, n, s)
    <2>1. 0 \in Indices /\ <<>> \in Sources /\ None \in Elements \cup {None}
      BY DequeAssumption
    <2>2. CASE \E op \in {"push_back", "push_front"}, e \in Elements \cup {None} :
                  Call(op, e, 0, <<>>)
      BY <2>1, <2>2
    <2>3. CASE \E op \in {"pop_back", "pop_front", "clear", "destroy"} :
                  Call(op, None, 0, <<>>)
      BY <2>1, <2>3
    <2>4. CASE \E e \in Elements \cup {None}, n \in Indices : Call("set", e, n, <<>>)
      BY <2>1, <2>4
    <2>5. CASE \E n \in Indices : Call("reserve", None, n, <<>>)
      BY <2>1, <2>5
    <2>6. CASE \E s \in Sources : Call("copy", None, 0, s)
      BY <2>1, <2>6
    <2> QED
      BY <2>2, <2>3, <2>4, <2>5, <2>6 DEF Calls
  <1>2. n \in Nat /\ s \in Seq(Elements)
    BY DequeAssumption
  <1>3. Inv' /\ Sequence' = Sequence
    BY <1>1, <1>2, CallInv
  <1> QED
    BY <1>1, <1>3

LEMMA NextInv == Inv /\ [Next]_vars => Inv'
  <1> SUFFICES ASSUME Inv, [Next]_vars PROVE Inv'
    OBVIOUS
  <1>1. CASE Calls
    BY <1>1, CallsInv
  <1>2. CASE Reserve
    BY <1>2, ReserveInv
  <1>3. CASE PushInvalid \/ PopMissing \/ SetFails
    BY <1>3, RefusedInv
  <1>4. CASE MakeRoom
    BY <1>4, MakeRoomInv
  <1>5. CASE Lower
    BY <1>5, LowerInv
  <1>6. CASE Fill
    BY <1>6, FillInv
  <1>7. CASE FillFails
    BY <1>7, FillFailsInv
  <1>8. CASE CopyBegin
    BY <1>8, CopyBeginInv
  <1>9. CASE CopyReserve
    BY <1>9, CopyReserveInv
  <1>10. CASE CopyEnd
    BY <1>10, CopyEndInv
  <1>11. CASE PopBack
    BY <1>11, PopBackInv
  <1>12. CASE PopFront
    BY <1>12, PopFrontInv
  <1>13. CASE Set
    BY <1>13, SetInv
  <1>14. CASE Clear
    BY <1>14, ClearInv
  <1>15. CASE UNCHANGED vars
    <2>1. /\ RingShape' = RingShape /\ LiveCopies' = LiveCopies
      BY <1>15 DEF vars, queue, RingShape, TypeOK, ControlShape, LiveCopies,
                   Sequence, First, InUse, Slot
    <2> QED
      BY <2>1 DEF Inv
  <1> QED
    BY <1>1, <1>2, <1>3, <1>4, <1>5, <1>6, <1>7, <1>8, <1>9, <1>10, <1>11,
       <1>12, <1>13, <1>14, <1>15 DEF Next, Body

LEMMA InvHolds == Spec => []Inv
  BY InitInv, NextInv, PTL DEF Spec

\* Whatever the calls and whatever fails, the ring is in shape: head is in
\* the buffer, the slots in use are distinct and hold elements.
THEOREM RingShapeHolds == Spec => []RingShape
  <1>1. Inv => RingShape
    BY DEF Inv
  <1> QED
    BY <1>1, InvHolds, PTL

\* No path of any function, the failing ones included, leaks a copy of an
\* element or destroys one twice.
THEOREM LiveCopiesHold == Spec => []LiveCopies
  <1>1. Inv => LiveCopies
    BY DEF Inv
  <1> QED
    BY <1>1, InvHolds, PTL

-----------------------------------------------------------------------------
(* Callers see a sequence *)

LEMMA SequenceLength ==
    ASSUME Inv
    PROVE  /\ Sequence \in Seq(Elements) /\ Len(Sequence) = size
           /\ Sequence = <<>> <=> size = 0
  <1>1. size \in Nat /\ Sequence \in [1 .. size -> Elements]
    BY InvParts
  <1>2. Sequence \in Seq(Elements) /\ Len(Sequence) = size
    BY <1>1, SequenceOf
  <1>3. size = 0 => Sequence = <<>>
    BY <1>1, EmptyIs
  <1> QED
    BY <1>2, <1>3

\* A function that returns from its own phases answers its call.
LEMMA Answers ==
    ASSUME Inv, NEW ret \in {"ok", "error"}, Return(ret), pc # "idle",
           NEW ops, call.op \in ops, NEW c, Sequence' = c
    PROVE  Seqn!Answer(ops, ret, c)
  <1>1. call.ret = "pending"
    <2>1. ControlShape /\ call \in CallRecords
      BY InvParts DEF TypeOK
    <2> QED
      BY <2>1 DEF ControlShape, CallRecords
  <1> QED
    BY <1>1 DEF Seqn!Answer, Seqn!Idle, Return

LEMMA CallsStep ==
    ASSUME Inv, Calls
    PROVE  [Seqn!Next]_Seqn!seqVars
  <1>1. Sequence' = Sequence
    BY CallsInv
  <1>2. PICK op \in {"push_back", "push_front", "pop_back", "pop_front",
                     "set", "clear", "destroy", "reserve", "copy"},
             e \in Elements \cup {None}, n \in Indices, s \in Sources :
                Call(op, e, n, s)
    BY CallsInv
  <1>3. call.ret # "pending"
    BY <1>2, InvParts DEF Call, ControlShape
  <1>4. Seqn!Call(op, e, n, s)
    BY <1>1, <1>2, <1>3 DEF Call, Seqn!Call, Seqn!Idle
  <1> QED
    BY <1>4 DEF Seqn!Next

LEMMA ReserveStep ==
    ASSUME Inv, Reserve
    PROVE  [Seqn!Next]_Seqn!seqVars
  <1>1. /\ Sequence' = Sequence /\ pc = "reserve" /\ call.op = "reserve"
        /\ Return("ok") \/ Return("error")
    BY ReserveInv, InvParts DEF Reserve, Fail, ControlShape
  <1>2. CASE Return("ok")
    <2>1. Seqn!Answer({"reserve"}, "ok", Sequence)
      BY <1>1, <1>2, Answers
    <2> QED
      BY <2>1 DEF Seqn!Next, Seqn!Reserve
  <1>3. CASE Return("error")
    <2>1. Seqn!Answer({"push_back", "push_front", "insert", "set", "reserve"},
                      "error", Sequence)
      BY <1>1, <1>3, Answers
    <2> QED
      BY <2>1 DEF Seqn!Next, Seqn!Refuse
  <1> QED
    BY <1>1, <1>2, <1>3

LEMMA RefusedStep ==
    ASSUME Inv, PushInvalid \/ PopMissing \/ SetFails
    PROVE  [Seqn!Next]_Seqn!seqVars
  <1>1. Sequence' = Sequence /\ Return("error")
    BY RefusedInv
  <1>2. CASE PushInvalid \/ SetFails
    <2>1. pc \in {"push_back", "push_front", "set"} /\ call.op = pc
      BY <1>2, InvParts DEF PushInvalid, SetFails, ControlShape
    <2>2. Seqn!Answer({"push_back", "push_front", "insert", "set", "reserve"},
                      "error", Sequence)
      BY <1>1, <2>1, Answers
    <2> QED
      BY <2>2 DEF Seqn!Next, Seqn!Refuse
  <1>3. CASE PopMissing
    <2>1. pc \in {"pop_back", "pop_front"} /\ call.op = pc /\ size = 0
      BY <1>3, InvParts DEF PopMissing, ControlShape
    <2>2. Seqn!Answer({"pop_back", "pop_front"}, "error", Sequence)
      BY <1>1, <2>1, Answers
    <2>3. Sequence = <<>>
      BY <2>1, SequenceLength
    <2> QED
      BY <2>2, <2>3 DEF Seqn!Next, Seqn!PopMissing
  <1> QED
    BY <1>2, <1>3

\* A push that stops halfway: a refused push, or the end of deque_copy.
LEMMA StoppedStep ==
    ASSUME Inv, Return("error"), pc # "idle",
           call.op \in {"push_back", "push_front", "copy"},
           IF call.op = "copy" THEN Sequence' = <<>> ELSE Sequence' = Sequence
    PROVE  [Seqn!Next]_Seqn!seqVars
  <1>1. CASE call.op = "copy"
    <2>1. Seqn!Answer({"copy"}, "error", <<>>)
      BY <1>1, Answers
    <2> QED
      BY <2>1 DEF Seqn!Next, Seqn!CopyFails
  <1>2. CASE call.op # "copy"
    <2>1. Seqn!Answer({"push_back", "push_front", "insert", "set", "reserve"},
                      "error", Sequence)
      BY <1>2, Answers
    <2> QED
      BY <2>1 DEF Seqn!Next, Seqn!Refuse
  <1> QED
    BY <1>1, <1>2

LEMMA MakeRoomStep ==
    ASSUME Inv, MakeRoom
    PROVE  [Seqn!Next]_Seqn!seqVars
  <1>1. /\ pc # "idle"
        /\ call.op \in {"push_back", "push_front", "copy"}
    BY InvParts DEF MakeRoom, ControlShape
  <1>2. \/ Sequence' = Sequence /\ UNCHANGED call
        \/ Sequence' = Sequence /\ Return("error") /\ call.op # "copy"
        \/ Sequence' = <<>> /\ Return("error") /\ call.op = "copy"
    BY MakeRoomInv
  <1>3. CASE Sequence' = Sequence /\ UNCHANGED call
    BY <1>3 DEF Seqn!seqVars
  <1>4. CASE /\ Return("error")
             /\ IF call.op = "copy" THEN Sequence' = <<>> ELSE Sequence' = Sequence
    BY <1>1, <1>4, StoppedStep
  <1> QED
    BY <1>2, <1>3, <1>4

LEMMA FillStep ==
    ASSUME Inv, Fill
    PROVE  [Seqn!Next]_Seqn!seqVars
  <1>1. /\ ControlShape /\ pc = "fill" /\ call \in CallRecords /\ size \in Nat
        /\ call.op \in {"push_back", "push_front", "copy"}
        /\ Sequence \in [1 .. size -> Elements]
    BY InvParts DEF Fill, ControlShape, TypeOK
  <1>2. /\ Pushed \in Elements
        /\ IF call.op = "push_front" THEN Sequence' = <<Pushed>> \o Sequence
                                     ELSE Sequence' = Append(Sequence, Pushed)
    BY FillInv
  <1>3. CASE call.op = "push_front"
    <2>1. Pushed = call.elem /\ Return("ok")
      BY <1>3 DEF Pushed, Fill
    <2>2. Seqn!Answer({"push_front"}, "ok", <<call.elem>> \o Sequence)
      BY <1>1, <1>2, <1>3, <2>1, Answers
    <2> QED
      BY <1>2, <2>1, <2>2 DEF Seqn!Next, Seqn!PushFront
  <1>4. CASE call.op = "push_back"
    <2>1. Pushed = call.elem /\ Return("ok")
      BY <1>4 DEF Pushed, Fill
    <2>2. Seqn!Answer({"push_back"}, "ok", Append(Sequence, call.elem))
      BY <1>1, <1>2, <1>4, <2>1, Answers
    <2> QED
      BY <1>2, <2>1, <2>2 DEF Seqn!Next, Seqn!PushBack
  <1>5. CASE call.op = "copy"
    <2>1. /\ call.ret = "pending" /\ size = i /\ i < Len(call.source)
          /\ \A n \in 1 .. size : Sequence[n] = call.source[n]
      BY <1>1, <1>5 DEF ControlShape, CallRecords
    <2>2. Pushed = call.source[Len(Sequence) + 1] /\ UNCHANGED call
      BY <1>5, <2>1, SequenceLength DEF Pushed, Fill
    <2>3. Seqn!IsStrictPrefix(Sequence, call.source)
      <3>1. call.source \in Seq(Elements) /\ Len(call.source) \in Nat
        BY <1>1, LenProperties DEF CallRecords
      <3>2. size <= Len(call.source) /\ size # Len(call.source)
        BY <1>1, <2>1, <3>1
      <3>3. /\ Len(Sequence) <= Len(call.source)
            /\ SubSeq(Sequence, 1, Len(Sequence)) = SubSeq(call.source, 1, Len(Sequence))
            /\ Sequence # call.source
        BY <1>1, <2>1, <3>1, <3>2, PrefixIs
      <3> QED
        BY <3>3 DEF Seqn!IsStrictPrefix, Seqn!IsPrefix
    <2> QED
      BY <1>2, <1>5, <2>1, <2>2, <2>3 DEF Seqn!Next, Seqn!CopyElement, Seqn!Idle
  <1> QED
    BY <1>1, <1>3, <1>4, <1>5

LEMMA FillFailsStep ==
    ASSUME Inv, FillFails
    PROVE  [Seqn!Next]_Seqn!seqVars
  <1>1. /\ pc = "fill" /\ call.op \in {"push_back", "push_front", "copy"}
    BY InvParts DEF FillFails, ControlShape
  <1>2. /\ Return("error")
        /\ IF call.op = "copy" THEN Sequence' = <<>> ELSE Sequence' = Sequence
    BY FillFailsInv
  <1> QED
    BY <1>1, <1>2, StoppedStep

LEMMA CopyStep ==
    ASSUME Inv, CopyBegin \/ CopyReserve \/ CopyEnd
    PROVE  [Seqn!Next]_Seqn!seqVars
  <1>1. /\ ControlShape /\ call \in CallRecords /\ size \in Nat
        /\ pc \in {"copy", "prepare", "loop"} /\ call.op = "copy"
        /\ call.ret = "pending" /\ Sequence \in [1 .. size -> Elements]
    BY InvParts DEF CopyBegin, CopyReserve, CopyEnd, ControlShape, TypeOK, CallRecords
  <1>2. CASE CopyBegin
    <2>1. Sequence' = <<>> /\ UNCHANGED call
      BY <1>2, CopyBeginInv DEF CopyBegin
    <2>2. CASE Sequence = <<>>
      BY <2>1, <2>2 DEF Seqn!seqVars
    <2>3. CASE Sequence # <<>>
      BY <1>1, <2>1, <2>3 DEF Seqn!Next, Seqn!Discard, Seqn!Idle
    <2> QED
      BY <2>2, <2>3
  <1>3. CASE CopyReserve
    <2>1. Sequence' = Sequence /\ Sequence = <<>> /\ (UNCHANGED call \/ Return("error"))
      BY <1>3, CopyReserveInv
    <2>2. CASE UNCHANGED call
      BY <2>1, <2>2 DEF Seqn!seqVars
    <2>3. CASE Return("error")
      BY <1>1, <2>1, <2>3, StoppedStep
    <2> QED
      BY <2>1, <2>2, <2>3
  <1>4. CASE CopyEnd
    <2>1. Sequence' = Sequence /\ Return("ok")
      BY <1>4, CopyEndInv
    <2>2. Seqn!Answer({"copy"}, "ok", Sequence)
      BY <1>1, <2>1, Answers
    <2>3. Sequence = call.source
      <3>1. call.source \in Seq(Elements) /\ Len(call.source) \in Nat
        BY <1>1, LenProperties DEF CallRecords
      <3>2. /\ size = i /\ i <= Len(call.source) /\ i >= Len(call.source)
            /\ \A n \in 1 .. size : Sequence[n] = call.source[n]
        BY <1>1, <1>4 DEF CopyEnd, ControlShape
      <3>3. size = Len(call.source)
        BY <1>1, <3>1, <3>2
      <3> QED
        BY <1>1, <3>1, <3>2, <3>3, PrefixIs
    <2> QED
      BY <2>2, <2>3 DEF Seqn!Next, Seqn!CopyEnd
  <1> QED
    BY <1>2, <1>3, <1>4

LEMMA PopStep ==
    ASSUME Inv, PopBack \/ PopFront
    PROVE  [Seqn!Next]_Seqn!seqVars
  <1>1. CASE PopBack
    <2>1. pc = "pop_back" /\ call.op = "pop_back" /\ Return("ok")
      BY <1>1, InvParts DEF PopBack, ControlShape
    <2>2. Sequence # <<>> /\ Sequence' = Seqn!Front(Sequence)
      BY <1>1, PopBackInv DEF Seqn!Front
    <2>3. Seqn!Answer({"pop_back"}, "ok", Seqn!Front(Sequence))
      BY <2>1, <2>2, Answers
    <2> QED
      BY <2>2, <2>3 DEF Seqn!Next, Seqn!PopBack
  <1>2. CASE PopFront
    <2>1. pc = "pop_front" /\ call.op = "pop_front" /\ Return("ok")
      BY <1>2, InvParts DEF PopFront, ControlShape
    <2>2. Sequence # <<>> /\ Sequence' = Tail(Sequence)
      BY <1>2, PopFrontInv
    <2>3. Seqn!Answer({"pop_front"}, "ok", Tail(Sequence))
      BY <2>1, <2>2, Answers
    <2> QED
      BY <2>2, <2>3 DEF Seqn!Next, Seqn!PopFront
  <1> QED
    BY <1>1, <1>2

LEMMA SetStep ==
    ASSUME Inv, Set
    PROVE  [Seqn!Next]_Seqn!seqVars
  <1>1. pc = "set" /\ call.op = "set" /\ Return("ok")
    BY InvParts DEF Set, ControlShape
  <1>2. /\ call.elem \in Elements /\ call.at < Len(Sequence)
        /\ Sequence' = Seqn!ReplaceAt(Sequence, call.at + 1, call.elem)
    BY SetInv DEF Seqn!ReplaceAt
  <1>3. Seqn!Answer({"set"}, "ok", Seqn!ReplaceAt(Sequence, call.at + 1, call.elem))
    BY <1>1, <1>2, Answers
  <1> QED
    BY <1>2, <1>3 DEF Seqn!Next, Seqn!Set

LEMMA ClearStep ==
    ASSUME Inv, Clear
    PROVE  [Seqn!Next]_Seqn!seqVars
  <1>1. pc \in {"clear", "destroy"} /\ call.op \in {"clear", "destroy"} /\ Return("ok")
    BY InvParts DEF Clear, ControlShape
  <1>2. Sequence' = <<>>
    BY ClearInv
  <1>3. Seqn!Answer({"clear", "destroy"}, "ok", <<>>)
    BY <1>1, <1>2, Answers
  <1> QED
    BY <1>3 DEF Seqn!Next, Seqn!Clear

LEMMA NextStep == Inv /\ [Next]_vars => [Seqn!Next]_Seqn!seqVars
  <1> SUFFICES ASSUME Inv, [Next]_vars PROVE [Seqn!Next]_Seqn!seqVars
    OBVIOUS
  <1>1. CASE Lower \/ UNCHANGED vars
    <2>1. Sequence' = Sequence /\ UNCHANGED call
      <3>1. CASE Lower
        BY <3>1, LowerInv DEF Lower
      <3>2. CASE UNCHANGED vars
        BY <3>2 DEF vars, queue, Sequence, First
      <3> QED
        BY <1>1, <3>1, <3>2
    <2> QED
      BY <2>1 DEF Seqn!seqVars
  <1>2. CASE Calls
    BY <1>2, CallsStep
  <1>3. CASE Reserve
    BY <1>3, ReserveStep
  <1>4. CASE PushInvalid \/ PopMissing \/ SetFails
    BY <1>4, RefusedStep
  <1>5. CASE MakeRoom
    BY <1>5, MakeRoomStep
  <1>6. CASE Fill
    BY <1>6, FillStep
  <1>7. CASE FillFails
    BY <1>7, FillFailsStep
  <1>8. CASE CopyBegin \/ CopyReserve \/ CopyEnd
    BY <1>8, CopyStep
  <1>9. CASE PopBack \/ PopFront
    BY <1>9, PopStep
  <1>10. CASE Set
    BY <1>10, SetStep
  <1>11. CASE Clear
    BY <1>11, ClearStep
  <1> QED
    BY <1>1, <1>2, <1>3, <1>4, <1>5, <1>6, <1>7, <1>8, <1>9, <1>10, <1>11
       DEF Next, Body

\* deque.c implements a sequence: whatever the wrapping of the ring, every
\* call and every failure shows callers a behaviour of SeqSpec.
THEOREM DequeImplementsSequence == Spec => ImplementsSequence
  <1>1. Init => Seqn!Init
    BY InitInv DEF Init, Seqn!Init
  <1>2. Spec => Seqn!Spec
    BY <1>1, InvHolds, NextStep, PTL DEF Spec, Seqn!Spec
  <1> QED
    BY <1>2 DEF ImplementsSequence

-----------------------------------------------------------------------------
(* The sequences of src/legacy *)

LegacyElements == Elements \cup {None}

\* Where the n-th element of a ring is that starts at h.
Behind(cap, h, n) == IF h + n < cap THEN h + n ELSE h + n - cap

\* A ring from h to t holds the sequence x: one slot at least is free.
RingHolds(cap, h, t, d, x) ==
    /\ cap \in Nat /\ cap <= RingMaxCapacity /\ h \in Nat /\ t \in Nat
    /\ x \in Seq(Elements)
    /\ d \in [0 .. RingMaxCapacity - 1 -> LegacyElements]
    /\ cap = 0 => h = 0 /\ t = 0 /\ x = <<>>
    /\ cap > 0 => h < cap /\ Len(x) < cap /\ t = Behind(cap, h, Len(x))
    /\ \A n \in 1 .. Len(x) : d[Behind(cap, h, n - 1)] = x[n]

RingInv == RingHolds(ringCapacity, ringHead, ringTail, ringData, ringExpected)

\* Behind is a remainder.
LEMMA BehindWraps ==
    ASSUME NEW cap \in Nat, NEW h \in Nat, h < cap, NEW n \in Nat, 1 <= n, n - 1 < cap
    PROVE  (h + n - 1) % cap = Behind(cap, h, n - 1)
  <1>1. h + n - 1 \in Nat /\ h + n - 1 < 2 * cap /\ cap > 0
    OBVIOUS
  <1>2. (h + n - 1) % cap = IF h + n - 1 < cap THEN h + n - 1 ELSE h + n - 1 - cap
    BY <1>1, Wraps
  <1> QED
    BY <1>2 DEF Behind

\* The questions of the ring have the answers of the sequence.
LEMMA RingAnswers ==
    ASSUME RingInv
    PROVE  /\ R!Size = Len(ringExpected)
           /\ R!Empty <=> ringExpected = <<>>
           /\ R!IsFull <=> (ringCapacity = 0 \/ Len(ringExpected) = ringCapacity - 1)
           /\ ringExpected # <<>> => Len(ringExpected) > 0 /\ ringCapacity > 0
  <1>1. Len(ringExpected) \in Nat /\ (ringExpected = <<>> <=> Len(ringExpected) = 0)
    BY EmptySeq, LenProperties DEF RingInv, RingHolds
  <1>2. ringCapacity \in Nat /\ ringHead \in Nat /\ ringTail \in Nat
    BY DEF RingInv, RingHolds
  <1>3. CASE ringCapacity = 0
    <2>1. ringHead = 0 /\ ringTail = 0 /\ ringExpected = <<>>
      BY <1>3 DEF RingInv, RingHolds
    <2> QED
      BY <1>1, <1>3, <2>1 DEF R!Size, R!Empty, R!IsFull
  <1>4. CASE ringCapacity > 0
    <2>1. /\ ringHead < ringCapacity /\ Len(ringExpected) < ringCapacity
          /\ ringTail = Behind(ringCapacity, ringHead, Len(ringExpected))
      BY <1>4 DEF RingInv, RingHolds
    <2>2. R!Size = Len(ringExpected)
      BY <1>1, <1>2, <1>4, <2>1 DEF R!Size, Behind
    <2>3. R!Empty <=> Len(ringExpected) = 0
      BY <1>1, <1>2, <1>4, <2>1 DEF R!Empty, Behind
    <2>4. R!IsFull <=> Len(ringExpected) = ringCapacity - 1
      BY <1>1, <1>2, <1>4, <2>1 DEF R!IsFull, Behind
    <2> QED
      BY <1>1, <1>4, <2>2, <2>3, <2>4
  <1> QED
    BY <1>2, <1>3, <1>4

\* The invariant is what the caller asks for.
LEMMA RingMatchesIt == RingInv => R!RingMatches
  <1> SUFFICES ASSUME RingInv PROVE R!RingMatches
    OBVIOUS
  <1>1. /\ Len(ringExpected) \in Nat /\ DOMAIN ringExpected = 1 .. Len(ringExpected)
        /\ ringCapacity \in Nat /\ ringHead \in Nat /\ ringTail \in Nat
        /\ \A n \in 1 .. Len(ringExpected) :
              ringData[Behind(ringCapacity, ringHead, n - 1)] = ringExpected[n]
    BY LenProperties DEF RingInv, RingHolds
  <1>2. ringCapacity = 0 => ringHead = 0 /\ ringTail = 0 /\ Len(ringExpected) = 0
    BY EmptySeq DEF RingInv, RingHolds
  <1>3. ringCapacity > 0 =>
           /\ ringHead < ringCapacity /\ Len(ringExpected) < ringCapacity
           /\ ringTail = Behind(ringCapacity, ringHead, Len(ringExpected))
    BY DEF RingInv, RingHolds
  <1>4. {ringHead, ringTail} \subseteq {0} \cup 0 .. ringCapacity - 1
    <2>1. CASE ringCapacity = 0
      BY <1>2, <2>1
    <2>2. CASE ringCapacity > 0
      BY <1>1, <1>3, <2>2 DEF Behind
    <2> QED
      BY <1>1, <2>1, <2>2
  <1>5. ASSUME NEW n \in 1 .. Len(ringExpected)
        PROVE  ringData[(ringHead + n - 1) % ringCapacity] = ringExpected[n]
    <2>1. /\ ringCapacity > 0 /\ ringHead < ringCapacity /\ n - 1 < ringCapacity
          /\ n \in Nat /\ n >= 1
      BY <1>1, <1>2, <1>3
    <2>2. (ringHead + n - 1) % ringCapacity = Behind(ringCapacity, ringHead, n - 1)
      BY <1>1, <2>1, BehindWraps
    <2> QED
      BY <1>1, <2>2
  <1>6. ASSUME ~R!Empty
        PROVE  /\ ringData[R!FrontSlot] = Head(ringExpected)
               /\ ringData[R!BackSlot] = R!Last(ringExpected)
    <2>1. Len(ringExpected) > 0 /\ ringCapacity > 0 /\ ringExpected # <<>>
      BY <1>6, RingAnswers
    <2>2. Head(ringExpected) = ringExpected[1] /\ R!Last(ringExpected) = ringExpected[Len(ringExpected)]
      BY <2>1, HeadTailProperties DEF R!Last, RingInv, RingHolds
    <2>3. 1 \in 1 .. Len(ringExpected) /\ Len(ringExpected) \in 1 .. Len(ringExpected)
      BY <1>1, <2>1
    <2>4. R!FrontSlot = Behind(ringCapacity, ringHead, 1 - 1)
      BY <1>1, <1>3, <2>1 DEF R!FrontSlot, Behind
    <2>5. R!BackSlot = Behind(ringCapacity, ringHead, Len(ringExpected) - 1)
      BY <1>1, <1>3, <2>1 DEF R!BackSlot, Behind
    <2> QED
      BY <1>1, <2>2, <2>3, <2>4, <2>5
  <1>7. Len(ringExpected) < ringCapacity \/ ringCapacity = 0
    BY <1>1, <1>3
  <1> QED
    BY <1>1, <1>4, <1>5, <1>6, <1>7, RingAnswers DEF R!RingMatches

\* deque_expand keeps the sequence and frees a slot.
LEMMA RingExpanded ==
    ASSUME RingInv, NEW q, q = R!Expanded, q.capacity <= RingMaxCapacity
    PROVE  /\ RingHolds(q.capacity, q.head, q.tail, q.data, ringExpected)
           /\ q.capacity > 0 /\ Len(ringExpected) + 1 < q.capacity
  <1>1. /\ Len(ringExpected) \in Nat /\ ringExpected \in Seq(Elements)
        /\ ringCapacity \in Nat /\ ringHead \in Nat /\ ringTail \in Nat
        /\ \A n \in 1 .. Len(ringExpected) : ringExpected[n] \in Elements
        /\ ringData \in [0 .. RingMaxCapacity - 1 -> LegacyElements]
        /\ \A n \in 1 .. Len(ringExpected) :
              ringData[Behind(ringCapacity, ringHead, n - 1)] = ringExpected[n]
    BY LenProperties DEF RingInv, RingHolds
  <1>2. ringCapacity = 0 => ringHead = 0 /\ ringTail = 0 /\ ringExpected = <<>>
    BY DEF RingInv, RingHolds
  <1>3. ringCapacity > 0 =>
           /\ ringHead < ringCapacity /\ Len(ringExpected) < ringCapacity
           /\ ringTail = Behind(ringCapacity, ringHead, Len(ringExpected))
           /\ ringCapacity <= RingMaxCapacity
    BY DEF RingInv, RingHolds
  <1>4. CASE ~R!IsFull
    <2>1. /\ q.capacity = ringCapacity /\ q.head = ringHead /\ q.tail = ringTail
          /\ q.data = ringData
      BY <1>4 DEF R!Expanded
    <2>2. ringCapacity # 0 /\ Len(ringExpected) # ringCapacity - 1
      BY <1>4, RingAnswers
    <2>3. ringCapacity > 0 /\ Len(ringExpected) + 1 < ringCapacity
      BY <1>1, <1>3, <2>2
    <2> QED
      BY <2>1, <2>3 DEF RingInv
  <1>5. CASE R!IsFull
    <2> DEFINE atEnd == ringCapacity - ringHead
               unrolled(b) == IF ringTail < ringHead
                         THEN IF b < atEnd THEN ringData[ringHead + b]
                              ELSE IF b < atEnd + ringTail THEN ringData[b - atEnd] ELSE None
                         ELSE IF b < ringTail - ringHead THEN ringData[ringHead + b] ELSE None
    <2>1. /\ q.capacity = (IF ringCapacity = 0 THEN RingInitCapacity ELSE ringCapacity * 2)
          /\ q.head = 0 /\ q.tail = (IF ringCapacity = 0 THEN 0 ELSE ringCapacity - 1)
          /\ q.data = [b \in 0 .. RingMaxCapacity - 1 |-> unrolled(b)]
      BY <1>5 DEF R!Expanded, R!Slots
    <2>2. ringCapacity = 0 \/ Len(ringExpected) = ringCapacity - 1
      BY <1>5, RingAnswers
    <2>3. /\ q.capacity \in Nat /\ q.capacity > 0 /\ Len(ringExpected) + 1 < q.capacity
          /\ q.tail \in Nat /\ q.tail = Behind(q.capacity, 0, Len(ringExpected))
      <3>1. CASE ringCapacity = 0
        <4>1. Len(ringExpected) = 0
          BY <1>2, <3>1, EmptySeq
        <4> QED
          BY <2>1, <3>1, <4>1, LegacyAssumption DEF Behind, LegacyAssumption
      <3>2. CASE ringCapacity # 0
        BY <1>1, <2>1, <2>2, <3>2 DEF Behind
      <3> QED
        BY <3>1, <3>2
    <2>4. q.data \in [0 .. RingMaxCapacity - 1 -> LegacyElements]
      <3>1. ASSUME NEW b \in 0 .. RingMaxCapacity - 1 PROVE unrolled(b) \in LegacyElements
        <4>1. None \in LegacyElements /\ RingMaxCapacity \in Nat
          BY LegacyAssumption DEF LegacyElements, LegacyAssumption
        <4>2. ASSUME NEW c \in 0 .. RingMaxCapacity - 1 PROVE ringData[c] \in LegacyElements
          BY <1>1
        <4>3. CASE ringTail < ringHead /\ b < atEnd
          <5>1. ringHead + b \in 0 .. RingMaxCapacity - 1
            BY <1>1, <1>2, <1>3, <4>1, <4>3
          <5> QED
            BY <4>2, <4>3, <5>1
        <4>4. CASE ringTail < ringHead /\ ~(b < atEnd) /\ b < atEnd + ringTail
          <5>1. b - atEnd \in 0 .. RingMaxCapacity - 1
            BY <1>1, <1>2, <1>3, <4>1, <4>4 DEF Behind
          <5> QED
            BY <4>2, <4>4, <5>1
        <4>5. CASE ~(ringTail < ringHead) /\ b < ringTail - ringHead
          <5>1. ringHead + b \in 0 .. RingMaxCapacity - 1
            BY <1>1, <1>2, <1>3, <4>1, <4>5 DEF Behind
          <5> QED
            BY <4>2, <4>5, <5>1
        <4> QED
          BY <4>1, <4>3, <4>4, <4>5
      <3> QED
        BY <2>1, <3>1
    <2>5. ASSUME NEW n \in 1 .. Len(ringExpected)
          PROVE  q.data[Behind(q.capacity, 0, n - 1)] = ringExpected[n]
      <3>1. /\ ringCapacity > 0 /\ Len(ringExpected) = ringCapacity - 1
            /\ n \in Nat /\ n >= 1 /\ n <= Len(ringExpected)
        <4>1. Len(ringExpected) # 0
          BY <1>1
        <4>2. ringExpected # <<>>
          BY <4>1, EmptySeq
        <4> QED
          BY <1>1, <1>2, <2>2, <4>2
      <3>2. Behind(q.capacity, 0, n - 1) = n - 1
        BY <2>3, <3>1, <1>1 DEF Behind
      <3>3. n - 1 \in 0 .. RingMaxCapacity - 1
        BY <1>1, <1>3, <3>1, LegacyAssumption DEF LegacyAssumption
      <3>4. q.data[n - 1] = unrolled(n - 1)
        BY <2>1, <3>3
      <3>5. unrolled(n - 1) = ringData[Behind(ringCapacity, ringHead, n - 1)]
        <4>1. CASE ringTail < ringHead /\ n - 1 < atEnd
          <5>1. ringHead + (n - 1) = Behind(ringCapacity, ringHead, n - 1)
            BY <1>1, <4>1 DEF Behind
          <5> QED
            BY <4>1, <5>1
        <4>2. CASE ringTail < ringHead /\ ~(n - 1 < atEnd)
          <5>1. /\ n - 1 - atEnd = Behind(ringCapacity, ringHead, n - 1)
                /\ n - 1 < atEnd + ringTail
            BY <1>1, <1>3, <3>1, <4>2 DEF Behind
          <5> QED
            BY <4>2, <5>1
        <4>3. CASE ~(ringTail < ringHead)
          <5>1. /\ ringHead + (n - 1) = Behind(ringCapacity, ringHead, n - 1)
                /\ n - 1 < ringTail - ringHead
            BY <1>1, <1>3, <3>1, <4>3 DEF Behind
          <5> QED
            BY <4>3, <5>1
        <4> QED
          BY <4>1, <4>2, <4>3
      <3> QED
        BY <1>1, <3>2, <3>4, <3>5
    <2> QED
      BY <1>1, <2>1, <2>3, <2>4, <2>5 DEF RingHolds
  <1> QED
    BY <1>4, <1>5

\* deque_push_back on a ring with a free slot besides the one kept free.
LEMMA RingAppended ==
    ASSUME NEW cap, NEW h, NEW t, NEW d, NEW x, NEW e \in Elements,
           RingHolds(cap, h, t, d, x), cap > 0, Len(x) + 1 < cap
    PROVE  RingHolds(cap, h, IF t + 1 = cap THEN 0 ELSE t + 1, [d EXCEPT ![t] = e],
                     Append(x, e))
  <1>1. /\ cap \in Nat /\ h \in Nat /\ t \in Nat /\ h < cap /\ cap <= RingMaxCapacity
        /\ d \in [0 .. RingMaxCapacity - 1 -> LegacyElements]
        /\ t = Behind(cap, h, Len(x))
        /\ \A n \in 1 .. Len(x) : d[Behind(cap, h, n - 1)] = x[n]
        /\ x \in Seq(Elements) /\ Len(x) \in Nat /\ e \in LegacyElements
    BY LenProperties DEF RingHolds, LegacyElements
  <1> DEFINE y == Append(x, e)
             d2 == [d EXCEPT ![t] = e]
             t2 == IF t + 1 = cap THEN 0 ELSE t + 1
  <1>2. /\ y \in Seq(Elements) /\ Len(y) = Len(x) + 1 /\ y[Len(x) + 1] = e
        /\ \A n \in 1 .. Len(x) : y[n] = x[n]
    BY <1>1, AppendProperties
  <1> HIDE DEF y
  <1>3. t2 \in Nat /\ t2 = Behind(cap, h, Len(y))
    <2> DEFINE m == Len(x)
    <2>1. /\ cap \in Nat /\ h \in Nat /\ h < cap /\ m \in Nat /\ m + 1 < cap /\ m < cap
          /\ t \in Nat /\ t = Behind(cap, h, m)
      BY <1>1
    <2> HIDE DEF m
    <2>2. t2 = Behind(cap, h, m + 1) /\ t2 \in Nat
      BY <2>1 DEF Behind
    <2> QED
      BY <1>2, <2>2 DEF m
  <1>4. d2 \in [0 .. RingMaxCapacity - 1 -> LegacyElements]
    BY <1>1
  <1>5. ASSUME NEW n \in 1 .. Len(y) PROVE d2[Behind(cap, h, n - 1)] = y[n]
    <2>1. CASE n = Len(x) + 1
      <3>1. Behind(cap, h, n - 1) = t /\ t \in 0 .. RingMaxCapacity - 1
        BY <1>1, <2>1, LegacyAssumption DEF Behind, LegacyAssumption
      <3> QED
        BY <1>1, <1>2, <2>1, <3>1
    <2>2. CASE n # Len(x) + 1
      <3>1. n \in 1 .. Len(x)
        BY <1>1, <1>2, <2>2
      <3>2. Behind(cap, h, n - 1) # t /\ Behind(cap, h, n - 1) \in 0 .. RingMaxCapacity - 1
        BY <1>1, <3>1, LegacyAssumption DEF Behind, LegacyAssumption
      <3> QED
        BY <1>1, <1>2, <3>1, <3>2
    <2> QED
      BY <2>1, <2>2
  <1> QED
    BY <1>1, <1>2, <1>3, <1>4, <1>5 DEF RingHolds, y

\* deque_push_front, likewise.
LEMMA RingPrepended ==
    ASSUME NEW cap, NEW h, NEW t, NEW d, NEW x, NEW e \in Elements,
           RingHolds(cap, h, t, d, x), cap > 0, Len(x) + 1 < cap,
           NEW g, g = IF h > 0 THEN h - 1 ELSE cap - 1
    PROVE  RingHolds(cap, g, t, [d EXCEPT ![g] = e], <<e>> \o x)
  <1>1. /\ cap \in Nat /\ h \in Nat /\ t \in Nat /\ h < cap /\ cap <= RingMaxCapacity
        /\ d \in [0 .. RingMaxCapacity - 1 -> LegacyElements]
        /\ t = Behind(cap, h, Len(x))
        /\ \A n \in 1 .. Len(x) : d[Behind(cap, h, n - 1)] = x[n]
        /\ x \in Seq(Elements) /\ Len(x) \in Nat /\ e \in LegacyElements
    BY LenProperties DEF RingHolds, LegacyElements
  <1> DEFINE y == <<e>> \o x
             d2 == [d EXCEPT ![g] = e]
  <1>2. /\ y \in Seq(Elements) /\ Len(y) = Len(x) + 1 /\ y[1] = e
        /\ \A n \in 2 .. Len(x) + 1 : y[n] = x[n - 1]
    <2>1. <<e>> \in Seq(Elements) /\ Len(<<e>>) = 1 /\ <<e>>[1] = e
      OBVIOUS
    <2>2. /\ y \in Seq(Elements) /\ Len(y) = 1 + Len(x)
          /\ \A n \in 1 .. 1 + Len(x) : y[n] = IF n <= 1 THEN <<e>>[n] ELSE x[n - 1]
      BY <1>1, <2>1, ConcatProperties
    <2> HIDE DEF y
    <2> QED
      BY <1>1, <2>1, <2>2
  <1> HIDE DEF y
  <1>3. g \in Nat /\ g < cap /\ t = Behind(cap, g, Len(y)) /\ g \in 0 .. RingMaxCapacity - 1
    <2> DEFINE m == Len(x)
    <2>1. /\ cap \in Nat /\ h \in Nat /\ h < cap /\ m \in Nat /\ m + 1 < cap /\ m < cap
          /\ t \in Nat /\ t = Behind(cap, h, m)
      BY <1>1
    <2> HIDE DEF m
    <2>2. g \in Nat /\ g < cap /\ t = Behind(cap, g, m + 1)
      BY <2>1 DEF Behind
    <2> QED
      BY <1>1, <1>2, <2>2, LegacyAssumption DEF m, LegacyAssumption
  <1>4. d2 \in [0 .. RingMaxCapacity - 1 -> LegacyElements]
    BY <1>1
  <1>5. ASSUME NEW n \in 1 .. Len(y) PROVE d2[Behind(cap, g, n - 1)] = y[n]
    <2>1. CASE n = 1
      <3>1. Behind(cap, g, n - 1) = g
        BY <1>3, <2>1, <1>1 DEF Behind
      <3> QED
        BY <1>1, <1>2, <1>3, <2>1, <3>1
    <2>2. CASE n # 1
      <3>1. n \in 2 .. Len(x) + 1 /\ n - 1 \in 1 .. Len(x)
        BY <1>1, <1>2, <2>2
      <3>2. Behind(cap, g, n - 1) # g /\ Behind(cap, g, n - 1) = Behind(cap, h, (n - 1) - 1)
            /\ Behind(cap, g, n - 1) \in 0 .. RingMaxCapacity - 1
        BY <1>1, <1>3, <3>1, LegacyAssumption DEF Behind, LegacyAssumption
      <3>3. d2[Behind(cap, g, n - 1)] = x[n - 1]
        BY <1>1, <3>1, <3>2
      <3> QED
        BY <1>2, <3>1, <3>3
    <2> QED
      BY <2>1, <2>2
  <1> QED
    BY <1>1, <1>2, <1>3, <1>4, <1>5 DEF RingHolds, y

\* deque_pop_back
LEMMA RingShortened ==
    ASSUME NEW cap, NEW h, NEW t, NEW d, NEW x, RingHolds(cap, h, t, d, x), x # <<>>
    PROVE  RingHolds(cap, h, IF t > 0 THEN t - 1 ELSE cap - 1, d, SubSeq(x, 1, Len(x) - 1))
  <1>1. /\ cap \in Nat /\ h \in Nat /\ t \in Nat /\ h < cap /\ cap <= RingMaxCapacity
        /\ cap > 0 /\ Len(x) < cap
        /\ d \in [0 .. RingMaxCapacity - 1 -> LegacyElements]
        /\ t = Behind(cap, h, Len(x))
        /\ \A n \in 1 .. Len(x) : d[Behind(cap, h, n - 1)] = x[n]
        /\ x \in Seq(Elements) /\ Len(x) \in Nat /\ Len(x) > 0
    <2>1. cap \in Nat /\ cap # 0
      BY DEF RingHolds
    <2>2. x \in Seq(Elements) /\ Len(x) \in Nat \ {0}
      BY EmptySeq DEF RingHolds
    <2> QED
      BY <2>1, <2>2 DEF RingHolds
  <1> DEFINE y == SubSeq(x, 1, Len(x) - 1)
             t2 == IF t > 0 THEN t - 1 ELSE cap - 1
  <1>2. y \in Seq(Elements) /\ Len(y) = Len(x) - 1 /\ \A n \in 1 .. Len(y) : y[n] = x[n]
    <2>1. \A n \in 1 .. Len(x) - 1 : x[n] \in Elements
      BY <1>1, ElementOfSeq
    <2>2. Len(x) - 1 \in Int /\ 1 \in Int
      BY <1>1
    <2>3. /\ y \in Seq(Elements)
          /\ Len(y) = (IF 1 <= Len(x) - 1 THEN (Len(x) - 1) - 1 + 1 ELSE 0)
          /\ \A n \in 1 .. (Len(x) - 1) - 1 + 1 : y[n] = x[1 + n - 1]
      BY <2>1, <2>2, SubSeqProperties
    <2> HIDE DEF y
    <2>4. Len(y) = Len(x) - 1 /\ (Len(x) - 1) - 1 + 1 = Len(x) - 1
      <3>1. Len(x) \in Nat /\ Len(x) > 0
        BY <1>1
      <3>2. Len(y) = IF 1 <= Len(x) - 1 THEN (Len(x) - 1) - 1 + 1 ELSE 0
        BY <2>3
      <3> QED
        BY <3>1, <3>2
    <2>5. ASSUME NEW n \in 1 .. Len(y) PROVE y[n] = x[n]
      <3>1. n \in 1 .. (Len(x) - 1) - 1 + 1 /\ 1 + n - 1 = n
        BY <2>4
      <3> QED
        BY <2>3, <3>1
    <2> QED
      BY <2>3, <2>4, <2>5
  <1> HIDE DEF y
  <1>3. t2 \in Nat /\ t2 = Behind(cap, h, Len(y))
    <2> DEFINE m == Len(x)
    <2>1. /\ cap \in Nat /\ h \in Nat /\ h < cap /\ m \in Nat /\ m > 0 /\ m < cap
          /\ t \in Nat /\ t = Behind(cap, h, m)
      BY <1>1
    <2> HIDE DEF m
    <2>2. t2 = Behind(cap, h, m - 1) /\ t2 \in Nat
      BY <2>1 DEF Behind
    <2> QED
      BY <1>2, <2>2 DEF m
  <1>4. \A n \in 1 .. Len(y) : d[Behind(cap, h, n - 1)] = y[n]
    BY <1>1, <1>2
  <1> QED
    BY <1>1, <1>2, <1>3, <1>4 DEF RingHolds, y

\* deque_pop_front
LEMMA RingBeheaded ==
    ASSUME NEW cap, NEW h, NEW t, NEW d, NEW x, RingHolds(cap, h, t, d, x), x # <<>>
    PROVE  RingHolds(cap, IF h + 1 = cap THEN 0 ELSE h + 1, t, d, Tail(x))
  <1>1. /\ cap \in Nat /\ h \in Nat /\ t \in Nat /\ h < cap /\ cap <= RingMaxCapacity
        /\ cap > 0 /\ Len(x) < cap
        /\ d \in [0 .. RingMaxCapacity - 1 -> LegacyElements]
        /\ t = Behind(cap, h, Len(x))
        /\ \A n \in 1 .. Len(x) : d[Behind(cap, h, n - 1)] = x[n]
        /\ x \in Seq(Elements) /\ Len(x) \in Nat /\ Len(x) > 0
    <2>1. cap \in Nat /\ cap # 0
      BY DEF RingHolds
    <2>2. x \in Seq(Elements) /\ Len(x) \in Nat \ {0}
      BY EmptySeq DEF RingHolds
    <2> QED
      BY <2>1, <2>2 DEF RingHolds
  <1> DEFINE y == Tail(x)
             g == IF h + 1 = cap THEN 0 ELSE h + 1
  <1>2. y \in Seq(Elements) /\ Len(y) = Len(x) - 1 /\ \A n \in 1 .. Len(y) : y[n] = x[n + 1]
    BY <1>1, HeadTailProperties
  <1> HIDE DEF y
  <1>3. g \in Nat /\ g < cap /\ t = Behind(cap, g, Len(y))
    BY <1>1, <1>2 DEF Behind
  <1>4. ASSUME NEW n \in 1 .. Len(y) PROVE d[Behind(cap, g, n - 1)] = y[n]
    <2>1. n + 1 \in 1 .. Len(x) /\ Behind(cap, g, n - 1) = Behind(cap, h, (n + 1) - 1)
      BY <1>1, <1>2 DEF Behind
    <2> QED
      BY <1>1, <1>2, <2>1
  <1> QED
    BY <1>1, <1>2, <1>3, <1>4 DEF RingHolds, y

\* A ring without elements.
LEMMA RingEmptied ==
    ASSUME NEW cap \in Nat, cap <= RingMaxCapacity,
           NEW d \in [0 .. RingMaxCapacity - 1 -> LegacyElements]
    PROVE  RingHolds(cap, 0, 0, d, <<>>)
  <1>1. <<>> \in Seq(Elements) /\ Len(<<>>) = 0
    BY EmptySeq
  <1>2. cap > 0 => 0 = Behind(cap, 0, 0)
    BY DEF Behind
  <1> QED
    BY <1>1, <1>2 DEF RingHolds

\* Every macro keeps the invariant.
LEMMA RingStep == RingInv /\ [R!Next]_ringVars => RingInv'
  <1> SUFFICES ASSUME RingInv, [R!Next]_ringVars PROVE RingInv'
    OBVIOUS
  <1>0. /\ ringCapacity \in Nat /\ ringCapacity <= RingMaxCapacity
        /\ ringData \in [0 .. RingMaxCapacity - 1 -> LegacyElements]
    BY DEF RingInv, RingHolds
  <1>1. ASSUME NEW e \in Elements, R!PushBack(e) PROVE RingInv'
    <2>1. PICK q \in {R!Expanded} :
            /\ q.capacity <= RingMaxCapacity
            /\ ringData' = [q.data EXCEPT ![q.tail] = e]
            /\ ringTail' = (IF q.tail + 1 = q.capacity THEN 0 ELSE q.tail + 1)
            /\ ringCapacity' = q.capacity /\ ringHead' = q.head
            /\ ringExpected' = Append(ringExpected, e)
      BY <1>1 DEF R!PushBack
    <2>2. /\ RingHolds(q.capacity, q.head, q.tail, q.data, ringExpected)
          /\ q.capacity > 0 /\ Len(ringExpected) + 1 < q.capacity
      BY <2>1, RingExpanded
    <2> QED
      BY <2>1, <2>2, RingAppended DEF RingInv
  <1>2. ASSUME NEW e \in Elements, R!PushFront(e) PROVE RingInv'
    <2>1. PICK q \in {R!Expanded} :
            /\ q.capacity <= RingMaxCapacity
            /\ ringHead' = (IF q.head > 0 THEN q.head - 1 ELSE q.capacity - 1)
            /\ ringData' = [q.data EXCEPT ![ringHead'] = e]
            /\ ringCapacity' = q.capacity /\ ringTail' = q.tail
            /\ ringExpected' = <<e>> \o ringExpected
      BY <1>2 DEF R!PushFront
    <2>2. /\ RingHolds(q.capacity, q.head, q.tail, q.data, ringExpected)
          /\ q.capacity > 0 /\ Len(ringExpected) + 1 < q.capacity
      BY <2>1, RingExpanded
    <2> QED
      BY <2>1, <2>2, RingPrepended DEF RingInv
  <1>3. CASE R!PopBack
    <2>1. /\ ringExpected # <<>>
          /\ ringTail' = (IF ringTail > 0 THEN ringTail - 1 ELSE ringCapacity - 1)
          /\ ringExpected' = SubSeq(ringExpected, 1, Len(ringExpected) - 1)
          /\ ringCapacity' = ringCapacity /\ ringHead' = ringHead /\ ringData' = ringData
      BY <1>3, RingAnswers DEF R!PopBack, R!BackSlot, R!Front
    <2> QED
      BY <2>1, RingShortened DEF RingInv
  <1>4. CASE R!PopFront
    <2>1. /\ ringExpected # <<>>
          /\ ringHead' = (IF ringHead + 1 = ringCapacity THEN 0 ELSE ringHead + 1)
          /\ ringExpected' = Tail(ringExpected)
          /\ ringCapacity' = ringCapacity /\ ringTail' = ringTail /\ ringData' = ringData
      BY <1>4, RingAnswers DEF R!PopFront
    <2> QED
      BY <2>1, RingBeheaded DEF RingInv
  <1>5. CASE R!Clear
    BY <1>0, <1>5, RingEmptied DEF R!Clear, RingInv
  <1>6. CASE R!Free
    <2>1. [b \in 0 .. RingMaxCapacity - 1 |-> None] \in [0 .. RingMaxCapacity - 1 -> LegacyElements]
      BY DEF LegacyElements
    <2>2. 0 \in Nat /\ 0 <= RingMaxCapacity
      BY LegacyAssumption DEF LegacyAssumption
    <2> QED
      BY <1>6, <2>1, <2>2, RingEmptied DEF R!Free, R!Slots, RingInv
  <1>7. CASE UNCHANGED ringVars
    BY <1>7 DEF ringVars, RingInv
  <1> QED
    BY <1>1, <1>2, <1>3, <1>4, <1>5, <1>6, <1>7 DEF R!Next

LEMMA RingBegins == R!Init => RingInv
  <1>1. [b \in 0 .. RingMaxCapacity - 1 |-> None] \in [0 .. RingMaxCapacity - 1 -> LegacyElements]
    BY DEF LegacyElements
  <1>2. 0 \in Nat /\ 0 <= RingMaxCapacity
    BY LegacyAssumption DEF LegacyAssumption
  <1> QED
    BY <1>1, <1>2, RingEmptied DEF R!Init, R!Slots, RingInv

-----------------------------------------------------------------------------
(* An array of capacity cap holds the sequence x in its first slots. *)
ArrayHolds(cap, n, d, x) ==
    /\ cap \in Nat /\ cap <= ArrayMaxCapacity
    /\ x \in Seq(Elements) /\ n = Len(x) /\ n <= cap
    /\ d \in [0 .. ArrayMaxCapacity - 1 -> LegacyElements]
    /\ \A k \in 1 .. n : d[k - 1] = x[k]

ArrayInv == ArrayHolds(arrayCapacity, arraySize, arrayData, arrayExpected)

LEMMA ArrayMatchesIt == ArrayInv => A!ArrayMatches
  <1> SUFFICES ASSUME ArrayInv PROVE A!ArrayMatches
    OBVIOUS
  <1>1. DOMAIN arrayExpected = 1 .. arraySize
    BY LenProperties DEF ArrayInv, ArrayHolds
  <1> QED
    BY <1>1 DEF ArrayInv, ArrayHolds, A!ArrayMatches

\* An array without elements.
LEMMA ArrayEmptied ==
    ASSUME NEW cap \in Nat, cap <= ArrayMaxCapacity,
           NEW d \in [0 .. ArrayMaxCapacity - 1 -> LegacyElements]
    PROVE  ArrayHolds(cap, 0, d, <<>>)
  <1>1. <<>> \in Seq(Elements) /\ Len(<<>>) = 0
    BY EmptySeq
  <1> QED
    BY <1>1 DEF ArrayHolds

\* vector_expand makes room for one more.
LEMMA ArrayExpanded ==
    ASSUME ArrayInv, A!Expand
    PROVE  /\ arrayCapacity' \in Nat /\ arrayCapacity' <= ArrayMaxCapacity
           /\ arraySize \in Nat /\ arraySize < arrayCapacity'
  <1>1. arrayCapacity \in Nat /\ arraySize \in Nat /\ arraySize <= arrayCapacity
    BY LenProperties DEF ArrayInv, ArrayHolds
  <1> QED
    BY <1>1, LegacyAssumption DEF A!Expand, LegacyAssumption

\* vector_push_back
LEMMA ArrayPushBack ==
    ASSUME ArrayInv, NEW e \in Elements, A!PushBack(e)
    PROVE  ArrayInv'
  <1>1. /\ arrayCapacity' \in Nat /\ arrayCapacity' <= ArrayMaxCapacity
        /\ arraySize \in Nat /\ arraySize < arrayCapacity'
        /\ arrayData' = [arrayData EXCEPT ![arraySize] = e]
        /\ arraySize' = arraySize + 1
        /\ arrayExpected' = Append(arrayExpected, e)
    BY ArrayExpanded DEF A!PushBack
  <1>2. /\ arrayExpected \in Seq(Elements) /\ arraySize = Len(arrayExpected)
        /\ arrayData \in [0 .. ArrayMaxCapacity - 1 -> LegacyElements]
        /\ \A k \in 1 .. arraySize : arrayData[k - 1] = arrayExpected[k]
    BY DEF ArrayInv, ArrayHolds
  <1>3. /\ arrayExpected' \in Seq(Elements) /\ Len(arrayExpected') = arraySize'
        /\ \A k \in 1 .. arraySize : arrayExpected'[k] = arrayExpected[k]
        /\ arrayExpected'[arraySize + 1] = e
    BY <1>1, <1>2, AppendProperties
  <1>4. arrayData' \in [0 .. ArrayMaxCapacity - 1 -> LegacyElements]
    BY <1>1, <1>2 DEF LegacyElements
  <1>5. ASSUME NEW k \in 1 .. arraySize' PROVE arrayData'[k - 1] = arrayExpected'[k]
    <2>1. k - 1 \in 0 .. ArrayMaxCapacity - 1
      BY <1>1, LegacyAssumption DEF LegacyAssumption
    <2>2. CASE k = arraySize + 1
      <3>1. k - 1 = arraySize
        BY <1>1, <2>2
      <3>2. arrayData'[k - 1] = e
        BY <1>1, <1>2, <2>1, <3>1
      <3> QED
        BY <1>3, <2>2, <3>2
    <2>3. CASE k # arraySize + 1
      <3>1. k \in 1 .. arraySize /\ k - 1 # arraySize
        BY <1>1, <2>3
      <3> QED
        BY <1>1, <1>2, <1>3, <2>1, <3>1
    <2> QED
      BY <2>2, <2>3
  <1> QED
    BY <1>1, <1>3, <1>4, <1>5 DEF ArrayInv, ArrayHolds

\* vector_pop_back
LEMMA ArrayPopBack ==
    ASSUME ArrayInv, A!PopBack
    PROVE  ArrayInv'
  <1>1. /\ arrayExpected \in Seq(Elements) /\ arraySize = Len(arrayExpected)
        /\ arraySize \in Nat /\ arraySize > 0 /\ arraySize <= arrayCapacity
        /\ arrayCapacity \in Nat
        /\ arrayExpected \in [1 .. arraySize -> Elements]
    BY LenProperties DEF ArrayInv, ArrayHolds, A!PopBack
  <1>2. /\ arrayCapacity' = arrayCapacity /\ arrayData' = arrayData
        /\ arraySize' = arraySize - 1
        /\ arrayExpected' = SubSeq(arrayExpected, 1, Len(arrayExpected) - 1)
    BY DEF A!PopBack, A!Front
  <1> DEFINE m == arraySize - 1
             s == [k \in 1 .. m |-> arrayExpected[k]]
  <1>3. m \in Nat /\ m + 1 = arraySize
    BY <1>1
  <1>4. s \in [1 .. m -> Elements] /\ \A k \in 1 .. m : arrayExpected[k] = s[k]
    BY <1>1, <1>3
  <1> HIDE DEF m, s
  <1>5. s \in Seq(Elements) /\ Len(s) = m
    BY <1>3, <1>4, SequenceOf
  <1>6. s = arrayExpected'
    BY <1>1, <1>2, <1>3, <1>4, AppendIs
  <1>7. /\ arraySize' = m
        /\ \A k \in 1 .. m : k \in 1 .. arraySize
    BY <1>1, <1>2, <1>3 DEF m
  <1>8. arrayData \in [0 .. ArrayMaxCapacity - 1 -> LegacyElements]
        /\ arrayCapacity <= ArrayMaxCapacity
        /\ \A k \in 1 .. arraySize : arrayData[k - 1] = arrayExpected[k]
    BY DEF ArrayInv, ArrayHolds
  <1>9. m <= arrayCapacity
    BY <1>1, <1>3
  <1> QED
    BY <1>1, <1>2, <1>4, <1>5, <1>6, <1>7, <1>8, <1>9 DEF ArrayInv, ArrayHolds

\* vector_insert
LEMMA ArrayInsert ==
    ASSUME ArrayInv, NEW e \in Elements, NEW at \in A!Slots, A!Insert(at, e)
    PROVE  ArrayInv'
  <1>1. /\ arrayCapacity' \in Nat /\ arrayCapacity' <= ArrayMaxCapacity
        /\ arraySize \in Nat /\ arraySize < arrayCapacity'
        /\ at \in Nat /\ at < arraySize
        /\ arrayData' = [b \in 0 .. ArrayMaxCapacity - 1 |->
                            IF b = at THEN e
                            ELSE IF at < b /\ b <= arraySize THEN arrayData[b - 1]
                            ELSE arrayData[b]]
        /\ arraySize' = arraySize + 1
        /\ arrayExpected' = SubSeq(arrayExpected, 1, (at + 1) - 1) \o <<e>>
                               \o SubSeq(arrayExpected, at + 1, Len(arrayExpected))
    BY ArrayExpanded, LegacyAssumption DEF A!Insert, A!InsertAt, A!Slots, LegacyAssumption
  <1>2. /\ arrayExpected \in Seq(Elements) /\ arraySize = Len(arrayExpected)
        /\ arrayExpected \in [1 .. arraySize -> Elements]
        /\ arrayData \in [0 .. ArrayMaxCapacity - 1 -> LegacyElements]
        /\ \A k \in 1 .. arraySize : arrayData[k - 1] = arrayExpected[k]
    BY LenProperties DEF ArrayInv, ArrayHolds
  <1> DEFINE j == at + 1
             t == [k \in 1 .. arraySize + 1 |->
                      IF k < j THEN arrayExpected[k]
                      ELSE IF k = j THEN e ELSE arrayExpected[k - 1]]
  <1>3. /\ j \in 1 .. arraySize + 1 /\ t[j] = e
        /\ t \in [1 .. arraySize + 1 -> Elements]
        /\ OneMore(arraySize, arrayExpected, t, j)
    <2>1. j \in 1 .. arraySize + 1 /\ j \in Nat
      BY <1>1
    <2>2. ASSUME NEW k \in 1 .. arraySize + 1 PROVE t[k] \in Elements
      <3>1. k < j => k \in 1 .. arraySize
        BY <1>1, <2>1
      <3>2. ~(k < j) /\ k # j => k - 1 \in 1 .. arraySize
        BY <1>1, <2>1
      <3> QED
        BY <1>2, <3>1, <3>2
    <2>3. ASSUME NEW n \in 1 .. arraySize
          PROVE  arrayExpected[n] = t[IF n < j THEN n ELSE n + 1]
      <3>1. CASE n < j
        BY <1>1, <3>1
      <3>2. CASE ~(n < j)
        <4>1. n + 1 \in 1 .. arraySize + 1 /\ ~(n + 1 < j) /\ n + 1 # j /\ (n + 1) - 1 = n
          BY <1>1, <2>1, <3>2
        <4> QED
          BY <3>2, <4>1
      <3> QED
        BY <3>1, <3>2
    <2> HIDE DEF j
    <2> QED
      BY <2>1, <2>2, <2>3 DEF OneMore
  <1>4. arrayExpected' = t
    <2>1. (at + 1) - 1 = j - 1 /\ at + 1 = j
      OBVIOUS
    <2> HIDE DEF j, t
    <2>2. t = SubSeq(arrayExpected, 1, j - 1) \o <<t[j]>>
                 \o SubSeq(arrayExpected, j, Len(arrayExpected))
      BY <1>1, <1>2, <1>3, InsertIs
    <2> QED
      BY <1>1, <1>3, <2>1, <2>2
  <1>5. t \in Seq(Elements) /\ Len(t) = arraySize + 1
    <2> HIDE DEF j, t
    <2>1. arraySize + 1 \in Nat
      BY <1>1
    <2> QED
      BY <1>3, <2>1, SequenceOf
  <1>6. arrayData' \in [0 .. ArrayMaxCapacity - 1 -> LegacyElements]
    <2>1. ASSUME NEW b \in 0 .. ArrayMaxCapacity - 1, at < b
          PROVE  b - 1 \in 0 .. ArrayMaxCapacity - 1
      BY <1>1, <2>1, LegacyAssumption DEF LegacyAssumption
    <2> QED
      BY <1>1, <1>2, <2>1 DEF LegacyElements
  <1>7. ASSUME NEW k \in 1 .. arraySize + 1 PROVE arrayData'[k - 1] = t[k]
    <2>1. k - 1 \in 0 .. ArrayMaxCapacity - 1 /\ k \in Nat /\ k >= 1 /\ k <= arraySize + 1
      BY <1>1, LegacyAssumption DEF LegacyAssumption
    <2>2. CASE k < j
      <3>1. k \in 1 .. arraySize /\ k - 1 # at /\ ~(at < k - 1)
        BY <1>1, <2>1, <2>2
      <3> QED
        BY <1>1, <1>2, <2>1, <2>2, <3>1
    <2>3. CASE k = j
      <3>1. k - 1 = at
        BY <1>1, <2>3
      <3> QED
        BY <1>1, <2>1, <2>3, <3>1
    <2>4. CASE k > j
      <3>1. /\ k - 1 \in 1 .. arraySize /\ k - 1 # at /\ at < k - 1 /\ k - 1 <= arraySize
            /\ ~(k < j) /\ k # j
        BY <1>1, <2>1, <2>4
      <3> QED
        BY <1>1, <1>2, <2>1, <3>1
    <2> QED
      BY <1>1, <2>1, <2>2, <2>3, <2>4
  <1> HIDE DEF j, t
  <1>8. arraySize + 1 <= arrayCapacity'
    BY <1>1
  <1> QED
    BY <1>1, <1>4, <1>5, <1>6, <1>7, <1>8 DEF ArrayInv, ArrayHolds

\* vector_erase
LEMMA ArrayErase ==
    ASSUME ArrayInv, NEW at \in A!Slots, A!Erase(at)
    PROVE  ArrayInv'
  <1>1. /\ at \in Nat /\ at < arraySize /\ arrayCapacity' = arrayCapacity
        /\ arrayData' = [b \in 0 .. ArrayMaxCapacity - 1 |->
                            IF at <= b /\ b < arraySize - 1 THEN arrayData[b + 1]
                            ELSE arrayData[b]]
        /\ arraySize' = arraySize - 1
        /\ arrayExpected' = SubSeq(arrayExpected, 1, (at + 1) - 1)
                               \o SubSeq(arrayExpected, (at + 1) + 1, Len(arrayExpected))
    BY LegacyAssumption DEF A!Erase, A!RemoveAt, A!Slots, LegacyAssumption
  <1>2. /\ arrayExpected \in Seq(Elements) /\ arraySize = Len(arrayExpected)
        /\ arraySize \in Nat /\ arraySize <= arrayCapacity
        /\ arrayCapacity \in Nat /\ arrayCapacity <= ArrayMaxCapacity
        /\ arrayExpected \in [1 .. arraySize -> Elements]
        /\ arrayData \in [0 .. ArrayMaxCapacity - 1 -> LegacyElements]
        /\ \A k \in 1 .. arraySize : arrayData[k - 1] = arrayExpected[k]
    BY LenProperties DEF ArrayInv, ArrayHolds
  <1> DEFINE j == at + 1
             m == arraySize - 1
             s == [k \in 1 .. m |->
                      IF k < j THEN arrayExpected[k] ELSE arrayExpected[k + 1]]
  <1>3. m \in Nat /\ m + 1 = arraySize /\ j \in 1 .. m + 1 /\ j \in Nat
    BY <1>1, <1>2
  <1>4. ASSUME NEW k \in 1 .. m
        PROVE  /\ k \in Nat /\ k >= 1 /\ k <= m /\ k \in 1 .. arraySize
               /\ k + 1 \in 1 .. arraySize
    BY <1>3
  <1>5. s \in [1 .. m -> Elements] /\ OneMore(m, s, arrayExpected, j)
    <2>1. s \in [1 .. m -> Elements]
      BY <1>2, <1>4
    <2>2. \A n \in 1 .. m : s[n] = arrayExpected[IF n < j THEN n ELSE n + 1]
      OBVIOUS
    <2> HIDE DEF s, j, m
    <2> QED
      BY <2>1, <2>2 DEF OneMore
  <1>6. arrayExpected' = s
    <2>1. (at + 1) - 1 = j - 1 /\ at + 1 = j
      BY <1>1
    <2> HIDE DEF j, m, s
    <2>2. arrayExpected \in [1 .. m + 1 -> Elements]
      BY <1>2, <1>3
    <2>3. s = SubSeq(arrayExpected, 1, j - 1) \o SubSeq(arrayExpected, j + 1, Len(arrayExpected))
      BY <1>3, <1>5, <2>2, InsertIs
    <2> QED
      BY <1>1, <2>1, <2>3
  <1>7. s \in Seq(Elements) /\ Len(s) = m
    <2> HIDE DEF j, m, s
    <2> QED
      BY <1>3, <1>5, SequenceOf
  <1>8. arrayData' \in [0 .. ArrayMaxCapacity - 1 -> LegacyElements]
    <2>1. ASSUME NEW b \in 0 .. ArrayMaxCapacity - 1, b < arraySize - 1
          PROVE  b + 1 \in 0 .. ArrayMaxCapacity - 1
      BY <1>2, <2>1, LegacyAssumption DEF LegacyAssumption
    <2> QED
      BY <1>1, <1>2, <2>1
  <1>9. ASSUME NEW k \in 1 .. m PROVE arrayData'[k - 1] = s[k]
    <2>1. k - 1 \in 0 .. ArrayMaxCapacity - 1 /\ (k - 1) + 1 = k /\ (k + 1) - 1 = k
      BY <1>2, <1>3, <1>4, LegacyAssumption DEF LegacyAssumption
    <2>2. CASE k < j
      <3>1. ~(at <= k - 1)
        BY <1>1, <1>4, <2>2
      <3> QED
        BY <1>1, <1>2, <1>4, <2>1, <2>2, <3>1
    <2>3. CASE ~(k < j)
      <3>1. at <= k - 1 /\ k - 1 < arraySize - 1
        BY <1>1, <1>2, <1>4, <2>3
      <3>2. arrayData'[k - 1] = arrayData[(k + 1) - 1]
        BY <1>1, <2>1, <3>1
      <3> QED
        BY <1>2, <1>4, <2>3, <3>2
    <2> QED
      BY <2>2, <2>3
  <1>10. arraySize' = m /\ m <= arrayCapacity
    BY <1>1, <1>2
  <1> HIDE DEF j, m, s
  <1> QED
    BY <1>1, <1>2, <1>6, <1>7, <1>8, <1>9, <1>10 DEF ArrayInv, ArrayHolds

\* vector_sort
LEMMA ArraySort ==
    ASSUME ArrayInv, A!Sort
    PROVE  ArrayInv'
  <1>1. PICK p \in [0 .. arraySize - 1 -> 0 .. arraySize - 1] :
           /\ arrayData' = [b \in 0 .. ArrayMaxCapacity - 1 |->
                               IF b < arraySize THEN arrayData[p[b]] ELSE arrayData[b]]
           /\ arrayExpected' = [n \in 1 .. arraySize |-> arrayExpected[p[n - 1] + 1]]
           /\ arrayCapacity' = arrayCapacity /\ arraySize' = arraySize
    BY DEF A!Sort, A!Slots
  <1>2. /\ arraySize \in Nat /\ arraySize <= arrayCapacity
        /\ arrayCapacity \in Nat /\ arrayCapacity <= ArrayMaxCapacity
        /\ arrayExpected \in [1 .. arraySize -> Elements]
        /\ arrayData \in [0 .. ArrayMaxCapacity - 1 -> LegacyElements]
        /\ \A k \in 1 .. arraySize : arrayData[k - 1] = arrayExpected[k]
    BY LenProperties DEF ArrayInv, ArrayHolds
  <1>3. ASSUME NEW k \in 1 .. arraySize
        PROVE  /\ k - 1 \in 0 .. arraySize - 1 /\ p[k - 1] \in 0 .. arraySize - 1
               /\ p[k - 1] + 1 \in 1 .. arraySize /\ (p[k - 1] + 1) - 1 = p[k - 1]
               /\ k - 1 \in 0 .. ArrayMaxCapacity - 1 /\ k - 1 < arraySize
    <2>1. k - 1 \in 0 .. arraySize - 1 /\ k - 1 \in 0 .. ArrayMaxCapacity - 1
      BY <1>2, LegacyAssumption DEF LegacyAssumption
    <2>2. p[k - 1] \in 0 .. arraySize - 1
      BY <2>1
    <2> QED
      BY <1>2, <2>1, <2>2
  <1>4. arrayExpected' \in [1 .. arraySize -> Elements]
    BY <1>1, <1>2, <1>3
  <1>5. arrayExpected' \in Seq(Elements) /\ Len(arrayExpected') = arraySize
    BY <1>2, <1>4, SequenceOf
  <1>6. arrayData' \in [0 .. ArrayMaxCapacity - 1 -> LegacyElements]
    <2>1. ASSUME NEW b \in 0 .. ArrayMaxCapacity - 1, b < arraySize
          PROVE  p[b] \in 0 .. ArrayMaxCapacity - 1
      <3>1. b \in 0 .. arraySize - 1
        BY <1>2, <2>1, LegacyAssumption DEF LegacyAssumption
      <3>2. p[b] \in 0 .. arraySize - 1
        BY <3>1
      <3> QED
        BY <1>2, <3>2, LegacyAssumption DEF LegacyAssumption
    <2> QED
      BY <1>1, <1>2, <2>1
  <1>7. \A k \in 1 .. arraySize : arrayData'[k - 1] = arrayExpected'[k]
    <2> TAKE k \in 1 .. arraySize
    <2>1. arrayData'[k - 1] = arrayData[(p[k - 1] + 1) - 1]
      BY <1>1, <1>3
    <2> QED
      BY <1>1, <1>2, <1>3, <2>1
  <1> QED
    BY <1>1, <1>2, <1>5, <1>6, <1>7 DEF ArrayInv, ArrayHolds

\* Every macro keeps the invariant.
LEMMA ArrayStep == ArrayInv /\ [A!Next]_arrayVars => ArrayInv'
  <1> SUFFICES ASSUME ArrayInv, [A!Next]_arrayVars PROVE ArrayInv'
    OBVIOUS
  <1>1. CASE A!Clear
    <2>1. arrayCapacity \in Nat /\ arrayCapacity <= ArrayMaxCapacity
          /\ arrayData \in [0 .. ArrayMaxCapacity - 1 -> LegacyElements]
      BY DEF ArrayInv, ArrayHolds
    <2> QED
      BY <1>1, <2>1, ArrayEmptied DEF A!Clear, ArrayInv
  <1>2. CASE A!Free
    <2>1. [b \in 0 .. ArrayMaxCapacity - 1 |-> None] \in [0 .. ArrayMaxCapacity - 1 -> LegacyElements]
      BY DEF LegacyElements
    <2>2. 0 \in Nat /\ 0 <= ArrayMaxCapacity
      BY LegacyAssumption DEF LegacyAssumption
    <2> QED
      BY <1>2, <2>1, <2>2, ArrayEmptied DEF A!Free, A!Slots, ArrayInv
  <1>3. CASE UNCHANGED arrayVars
    BY <1>3 DEF arrayVars, ArrayInv
  <1> QED
    BY <1>1, <1>2, <1>3, ArrayPushBack, ArrayPopBack, ArrayInsert, ArrayErase, ArraySort
       DEF A!Next

LEMMA ArrayBegins == A!Init => ArrayInv
  <1>1. [b \in 0 .. ArrayMaxCapacity - 1 |-> None] \in [0 .. ArrayMaxCapacity - 1 -> LegacyElements]
    BY DEF LegacyElements
  <1>2. 0 \in Nat /\ 0 <= ArrayMaxCapacity
    BY LegacyAssumption DEF LegacyAssumption
  <1> QED
    BY <1>1, <1>2, ArrayEmptied DEF A!Init, A!Slots, ArrayInv

\* The legacy ring and the legacy array hold the sequences that their callers
\* have put there: wherever the ring wraps around and grows, whatever an
\* insertion, an erasure or a sort moves, at any first capacity and any bound on
\* memory.
THEOREM LegacySequencesHold == SpecEach => []LegacySequences
  <1>1. InitEach => RingInv /\ ArrayInv
    BY RingBegins, ArrayBegins DEF InitEach
  <1>2. RingInv /\ ArrayInv /\ [NextEach]_<<vars, ringVars, arrayVars, turn>>
           => RingInv' /\ ArrayInv'
    <2> SUFFICES ASSUME RingInv, ArrayInv, [NextEach]_<<vars, ringVars, arrayVars, turn>>
                 PROVE  RingInv' /\ ArrayInv'
      OBVIOUS
    <2>1. [R!Next]_ringVars /\ [A!Next]_arrayVars
      BY DEF NextEach, ringVars, arrayVars
    <2> QED
      BY <2>1, RingStep, ArrayStep
  <1>3. RingInv /\ ArrayInv => LegacySequences
    BY RingMatchesIt, ArrayMatchesIt DEF LegacySequences
  <1> QED
    BY <1>1, <1>2, <1>3, PTL DEF SpecEach
=============================================================================
