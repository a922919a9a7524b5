---------------------------- MODULE VectorProofs ----------------------------
(* What is proved for every instance: of Vector, the copies of elements that *)
(* live, wherever a call stands, and that callers see a sequence; of Graph,  *)
(* that the vectors hold both halves of every edge.                          *)
EXTENDS VectorAndGraph, ContainerLemmas

-----------------------------------------------------------------------------
(* The array and the sequence in it *)

\* What the invariant says in the terms of the proof.
LEMMA InvParts ==
    ASSUME LiveCopies
    PROVE  /\ TypeOK /\ ControlShape
           /\ capacity \in Nat /\ size \in Nat /\ size <= capacity /\ i \in Nat
           /\ data \in [Slots(capacity) -> Elements \cup {None}]
           /\ live \in [Elements -> Int]
           /\ call \in CallRecords /\ call.at \in Nat
           /\ Sequence \in [1 .. size -> Elements]
           /\ \A e \in Elements : live[e] = Occurrences(size, Sequence, e)
           /\ \A n \in 1 .. size :
                 Sequence[n] = IF Gap /\ n > call.at THEN data[n] ELSE data[n - 1]
  <1>1. Sequence \in [1 .. size -> Elements]
    <2>1. Sequence = [n \in 1 .. size |-> Sequence[n]]
      BY DEF Sequence
    <2> QED
      BY <2>1 DEF LiveCopies
  <1>2. \A n \in 1 .. size :
           Sequence[n] = IF Gap /\ n > call.at THEN data[n] ELSE data[n - 1]
    BY DEF Sequence
  <1>3. \A e \in Elements : live[e] = Occurrences(size, Sequence, e)
    BY DEF LiveCopies, Occurrences
  <1> QED
    BY <1>1, <1>2, <1>3 DEF LiveCopies, TypeOK, CallRecords

\* The sequence after a step.
LEMMA NextSequence ==
    /\ Sequence' = [n \in 1 .. size' |-> Sequence'[n]]
    /\ \A n \in 1 .. size' :
          Sequence'[n] = IF Gap' /\ n > call'.at THEN data'[n] ELSE data'[n - 1]
  BY DEF Sequence

\* The invariant after a step that keeps the sequence.
LEMMA KeptInv ==
    ASSUME LiveCopies, TypeOK', ControlShape', Sequence' = Sequence,
           size' = size, live' = live
    PROVE  LiveCopies'
  BY DEF LiveCopies

\* A step that keeps every element at its position.
LEMMA KeptSequence ==
    ASSUME size' = size, \A n \in 1 .. size : Sequence'[n] = Sequence[n]
    PROVE  Sequence' = Sequence
  <1>1. Sequence = [n \in 1 .. size |-> Sequence[n]]
    BY DEF Sequence
  <1>2. Sequence' = [n \in 1 .. size |-> Sequence'[n]]
    BY NextSequence
  <1> QED
    BY <1>1, <1>2

\* The loop of vector_clear goes over the slots of the sequence.
LEMMA DestroyedCounts ==
    ASSUME LiveCopies, ~Gap, NEW e \in Elements
    PROVE  Cardinality({b \in 0 .. size - 1 : data[b] = e})
             = Occurrences(size, Sequence, e)
  <1> DEFINE S == {n \in 1 .. size : Sequence[n] = e}
             T == {b \in 0 .. size - 1 : data[b] = e}
             f == [n \in S |-> n - 1]
  <1>1. size \in Nat /\ \A n \in 1 .. size : Sequence[n] = data[n - 1]
    BY InvParts
  <1>2. IsFiniteSet(S) /\ Cardinality(S) \in Nat
    BY <1>1, PositionsFinite
  <1>3. f \in [S -> T]
    BY <1>1
  <1>4. \A x, y \in S : f[x] = f[y] => x = y
    OBVIOUS
  <1>5. \A b \in T : \E n \in S : f[n] = b
    <2> TAKE b \in T
    <2>1. b + 1 \in 1 .. size /\ (b + 1) - 1 = b /\ data[b] = e
      BY <1>1
    <2>2. b + 1 \in S /\ f[b + 1] = b
      BY <1>1, <2>1
    <2> QED
      BY <2>2
  <1> HIDE DEF f, S, T
  <1>6. Cardinality(T) = Cardinality(S)
    BY <1>2, <1>3, <1>4, <1>5, CountMoved
  <1> QED
    BY <1>6 DEF S, T, Occurrences

\* The invariant after a step that destroys all elements.
LEMMA EmptiedInv ==
    ASSUME LiveCopies, ~Gap, DestroyElements, size' = 0,
           capacity' \in Nat, data' \in [Slots(capacity') -> Elements \cup {None}],
           i' \in Nat, pc' \in Phases \ {"shift", "fill"}, call' \in CallRecords,
           ControlShape'
    PROVE  LiveCopies' /\ Sequence' = <<>>
  <1>1. live \in [Elements -> Int]
    BY InvParts
  <1>2. live' \in [Elements -> Int] /\ \A e \in Elements : live'[e] = 0
    <2>1. \A e \in Elements : live[e] \in Int /\ live'[e] = live[e] - live[e]
      BY <1>1, InvParts, DestroyedCounts DEF DestroyElements
    <2>2. \A e \in Elements : live'[e] = 0
      BY <2>1
    <2> QED
      BY <2>2 DEF DestroyElements
  <1>3. TypeOK'
    BY <1>2 DEF TypeOK
  <1>4. LiveCopies'
    <2>1. \A e \in Elements : {n \in 1 .. size' : Sequence'[n] = e} = {}
      OBVIOUS
    <2> QED
      BY <1>2, <1>3, <2>1, FS_EmptySet DEF LiveCopies
  <1>5. Sequence' = <<>>
    <2>1. Sequence' \in [1 .. 0 -> Elements]
      BY NextSequence
    <2> QED
      BY <2>1, EmptyIs
  <1> QED
    BY <1>4, <1>5

\* A function that returns leaves nothing for later.
LEMMA Returned ==
    ASSUME TypeOK, NEW ret \in {"ok", "error"}, Return(ret)
    PROVE  /\ pc' = "idle" /\ pc' \in Phases \ {"shift", "fill"} /\ i' = 0 /\ i' \in Nat
           /\ call' \in CallRecords /\ ControlShape' /\ ~Gap'
  <1>1. /\ pc' = "idle" /\ pc' \in Phases \ {"shift", "fill"} /\ i' = 0 /\ i' \in Nat
        /\ call' \in CallRecords /\ call'.ret = ret
    BY DEF TypeOK, Return, CallRecords, Phases
  <1> QED
    BY <1>1 DEF ControlShape, Gap

\* Where the call stands when the calling function is in one of its phases.
LEMMA Running ==
    ASSUME LiveCopies, pc # "idle"
    PROVE  call.ret = "pending"
  BY InvParts DEF ControlShape, CallRecords

-----------------------------------------------------------------------------
(* Each action keeps the invariant, and what it makes of the sequence *)

\* A step that leaves the array alone.
LEMMA QuietInv ==
    ASSUME LiveCopies, UNCHANGED array, UNCHANGED live, ~Gap, ~Gap',
           pc' \in {"shift", "fill"} => size < capacity,
           i' \in Nat, pc' \in Phases, call' \in CallRecords,
           Sequence' = Sequence => ControlShape'
    PROVE  LiveCopies' /\ Sequence' = Sequence
  <1>1. TypeOK'
    BY InvParts DEF TypeOK, array
  <1>2. Sequence' = Sequence
    BY DEF Sequence, array
  <1> QED
    BY <1>1, <1>2, KeptInv DEF array

\* A larger array takes over the elements.
LEMMA GrownInv ==
    ASSUME LiveCopies, NEW cap \in Nat, cap >= capacity, Grow(cap), ~Gap, ~Gap',
           pc' \in {"shift", "fill"} => size < cap,
           i' \in Nat, pc' \in Phases, call' \in CallRecords,
           Sequence' = Sequence => ControlShape'
    PROVE  LiveCopies' /\ Sequence' = Sequence
  <1>1. /\ capacity \in Nat /\ size \in Nat /\ size <= capacity
        /\ data \in [Slots(capacity) -> Elements \cup {None}]
        /\ live \in [Elements -> Int]
        /\ \A n \in 1 .. size : Sequence[n] = data[n - 1]
    BY InvParts
  <1>2. /\ capacity' = cap /\ size' = size /\ live' = live
        /\ data' = [b \in Slots(cap) |-> IF b < capacity THEN data[b] ELSE None]
    BY DEF Grow
  <1>3. data' \in [Slots(cap) -> Elements \cup {None}]
    <2>1. ASSUME NEW b \in Slots(cap), b < capacity PROVE b \in Slots(capacity)
      BY <1>1, <2>1 DEF Slots
    <2> QED
      BY <1>1, <1>2, <2>1
  <1>4. TypeOK'
    BY <1>1, <1>2, <1>3 DEF TypeOK
  <1>5. \A n \in 1 .. size : Sequence'[n] = Sequence[n]
    <2> TAKE n \in 1 .. size
    <2>1. n - 1 \in Slots(cap) /\ n - 1 < capacity
      BY <1>1 DEF Slots
    <2>2. Sequence'[n] = data'[n - 1]
      BY <1>2, NextSequence
    <2> QED
      BY <1>1, <1>2, <2>1, <2>2
  <1>6. Sequence' = Sequence
    BY <1>2, <1>5, KeptSequence
  <1> QED
    BY <1>2, <1>4, <1>6, KeptInv

\* The caller's choice of a function and of its arguments.
LEMMA CallInv ==
    ASSUME LiveCopies,
           NEW op \in {"push_back", "pop_back", "insert", "set", "erase", "clear",
                       "destroy", "sort", "reserve", "copy"},
           NEW e \in Elements \cup {None}, NEW n \in Nat, NEW s \in Seq(Elements),
           Call(op, e, n, s)
    PROVE  LiveCopies' /\ Sequence' = Sequence
  <1>1. /\ pc = "idle" /\ pc' = op /\ i' = i /\ UNCHANGED array /\ UNCHANGED live
        /\ call' = [op |-> op, elem |-> e, at |-> n, source |-> s, ret |-> "pending"]
    BY DEF Call
  <1>2. i = 0
    BY <1>1, InvParts DEF ControlShape
  <1>3. call' \in CallRecords /\ pc' \in Phases /\ i' \in Nat /\ ~Gap /\ ~Gap'
    BY <1>1, <1>2 DEF CallRecords, Phases, Gap
  <1>4. ControlShape'
    BY <1>1, <1>2 DEF ControlShape
  <1> QED
    BY <1>1, <1>3, <1>4, QuietInv

\* Functions that return without having touched the array.
LEMMA ReturnInv ==
    ASSUME LiveCopies, NEW ret \in {"ok", "error"}, Return(ret), UNCHANGED array,
           UNCHANGED live, ~Gap
    PROVE  LiveCopies' /\ Sequence' = Sequence
  BY InvParts, Returned, QuietInv

LEMMA ReserveInv ==
    ASSUME LiveCopies, Reserve
    PROVE  /\ LiveCopies' /\ Sequence' = Sequence
           /\ Return("ok") \/ Return("error")
  <1>1. TypeOK /\ pc = "reserve" /\ ~Gap /\ capacity \in Nat /\ call.at \in Nat
    BY InvParts DEF Reserve, Gap
  <1>2. CASE Return("ok") /\ UNCHANGED <<array, live>>
    BY <1>1, <1>2, ReturnInv
  <1>3. CASE Fail
    BY <1>1, <1>3, ReturnInv DEF Fail
  <1>4. CASE call.at > capacity /\ Grow(call.at) /\ Return("ok")
    <2>1. /\ pc' = "idle" /\ pc' \in Phases /\ i' \in Nat
          /\ call' \in CallRecords /\ ControlShape' /\ ~Gap'
      BY <1>1, <1>4, Returned
    <2> QED
      BY <1>1, <1>4, <2>1, GrownInv
  <1> QED
    BY <1>1, <1>2, <1>3, <1>4 DEF Reserve

\* vector_copy clears its target when it fails.
LEMMA CopyAddFails ==
    ASSUME LiveCopies, ~Gap, call.op = "copy", AddFails(data)
    PROVE  LiveCopies' /\ Sequence' = <<>>
  <1>1. /\ TypeOK /\ capacity \in Nat
        /\ data \in [Slots(capacity) -> Elements \cup {None}]
    BY InvParts
  <1>2. /\ DestroyElements /\ size' = 0 /\ Return("error")
        /\ capacity' = capacity /\ data' = data
    BY DEF AddFails
  <1>3. /\ pc' \in Phases \ {"shift", "fill"} /\ i' \in Nat
        /\ call' \in CallRecords /\ ControlShape'
    BY <1>1, <1>2, Returned
  <1> QED
    BY <1>1, <1>2, <1>3, EmptiedInv

\* An addition with room for its element goes on; vector_copy stops otherwise.
LEMMA MakeRoomInv ==
    ASSUME LiveCopies, MakeRoom
    PROVE  /\ LiveCopies'
           /\ \/ Sequence' = Sequence /\ UNCHANGED call
              \/ /\ Return("error")
                 /\ IF call.op = "copy" THEN Sequence' = <<>>
                                        ELSE Sequence' = Sequence
  <1>1. /\ TypeOK /\ ControlShape /\ size \in Nat /\ size <= capacity
        /\ capacity \in Nat /\ call \in CallRecords /\ i \in Nat
    BY InvParts
  <1>2. /\ \/ /\ pc \in {"push_back", "insert"} /\ call.elem # None /\ call.op = pc
              /\ pc = "insert" => call.at <= size
           \/ pc = "loop" /\ call.op = "copy" /\ i < Len(call.source)
        /\ ~Gap /\ call.ret = "pending"
    BY <1>1, Running DEF MakeRoom, ControlShape, Gap
  <1> DEFINE Goes == /\ pc' = IF Inserting THEN "shift" ELSE "fill"
                     /\ UNCHANGED <<call, i>>
  <1>3. ASSUME Goes, size' = size
        PROVE  /\ i' \in Nat /\ pc' \in Phases /\ call' \in CallRecords /\ ~Gap'
               /\ Inserting' = Inserting
    <2>1. Inserting' = Inserting
      BY <1>3 DEF Inserting
    <2> QED
      BY <1>1, <1>3, <2>1 DEF Phases, Gap
  <1>4. ASSUME Goes, size' = size, Sequence' = Sequence
        PROVE  ControlShape'
    <2>1. call' = call /\ i' = i /\ pc' \in {"shift", "fill"} /\ Inserting' = Inserting
      BY <1>3, <1>4
    <2>2. CASE call.op = "copy"
      <3>1. pc = "loop" /\ pc' = "fill" /\ i < Len(call.source)
        BY <1>2, <1>4, <2>2 DEF Inserting
      <3>2. size = i /\ i <= Len(call.source)
               /\ \A n \in 1 .. i : Sequence[n] = call.source[n]
        BY <1>1, <2>2, <3>1 DEF ControlShape
      <3> QED
        BY <1>2, <1>4, <2>1, <2>2, <3>1, <3>2 DEF ControlShape
    <2>3. CASE call.op # "copy"
      <3>1. /\ pc \in {"push_back", "insert"} /\ call.op = pc /\ i = 0
            /\ call.elem # None /\ (pc = "insert" => call.at <= size)
        BY <1>1, <1>2, <2>3 DEF ControlShape
      <3>2. pc' = "shift" => Inserting'
        BY <1>4, <2>1
      <3> QED
        BY <1>2, <1>4, <2>1, <2>3, <3>1, <3>2 DEF ControlShape
    <2> QED
      BY <2>2, <2>3
  <1>5. CASE Full /\ Goes /\ Grow(IF capacity = 0 THEN InitCapacity ELSE capacity * 2)
    <2> DEFINE cap == IF capacity = 0 THEN InitCapacity ELSE capacity * 2
    <2>1. cap \in Nat /\ cap > size /\ cap >= capacity
      BY <1>1, <1>5, VectorAssumption DEF Full
    <2> HIDE DEF cap
    <2>2. Grow(cap) /\ size' = size
      BY <1>5, <2>1 DEF cap, Grow
    <2>3. LiveCopies' /\ Sequence' = Sequence
      BY <1>2, <1>3, <1>4, <1>5, <2>1, <2>2, GrownInv
    <2> QED
      BY <1>5, <2>3
  <1>6. CASE ~Full /\ Goes /\ UNCHANGED <<array, live>>
    <2>1. size' = size /\ size < capacity
      BY <1>1, <1>6 DEF array, Full
    <2>2. LiveCopies' /\ Sequence' = Sequence
      BY <1>2, <1>3, <1>4, <1>6, <2>1, QuietInv
    <2> QED
      BY <1>6, <2>2
  <1>7. CASE AddFails(data)
    <2>1. CASE call.op = "copy"
      BY <1>2, <1>7, <2>1, CopyAddFails DEF AddFails
    <2>2. CASE call.op # "copy"
      <3>1. Return("error") /\ UNCHANGED array /\ UNCHANGED live
        BY <1>7, <2>2 DEF AddFails, array
      <3> QED
        BY <1>2, <2>2, <3>1, ReturnInv
    <2> QED
      BY <2>1, <2>2
  <1> QED
    BY <1>5, <1>6, <1>7 DEF MakeRoom

\* vector_insert opens a gap behind the elements before it.
LEMMA ShiftInv ==
    ASSUME LiveCopies, Shift
    PROVE  LiveCopies' /\ Sequence' = Sequence
  <1>1. /\ TypeOK /\ ControlShape /\ capacity \in Nat /\ size \in Nat
        /\ size <= capacity /\ call.at \in Nat
        /\ data \in [Slots(capacity) -> Elements \cup {None}]
        /\ pc = "shift" /\ Inserting /\ ~Gap /\ size < capacity
        /\ \A n \in 1 .. size : Sequence[n] = data[n - 1]
    BY InvParts DEF Shift, Gap, ControlShape, TypeOK
  <1>2. /\ pc' = "fill" /\ data' = ShiftedUp(call.at)
        /\ UNCHANGED <<capacity, size, live, call, i>>
    BY DEF Shift
  <1>3. Gap' /\ Inserting'
    BY <1>1, <1>2 DEF Gap, Inserting
  <1>4. \A n \in 1 .. size : Sequence'[n] = Sequence[n]
    <2> TAKE n \in 1 .. size
    <2>1. Sequence'[n] = IF n > call.at THEN data'[n] ELSE data'[n - 1]
      BY <1>2, <1>3, NextSequence
    <2>2. n \in Slots(capacity) /\ n - 1 \in Slots(capacity) /\ n <= size
      BY <1>1 DEF Slots
    <2>3. CASE n > call.at
      BY <1>1, <1>2, <2>1, <2>2, <2>3 DEF ShiftedUp
    <2>4. CASE ~ (n > call.at)
      <3>1. data'[n - 1] = data[n - 1]
        BY <1>1, <1>2, <2>2, <2>4 DEF ShiftedUp
      <3> QED
        BY <1>1, <2>1, <2>4, <3>1
    <2> QED
      BY <2>3, <2>4
  <1>5. Sequence' = Sequence
    BY <1>2, <1>4, KeptSequence
  <1>6. data' \in [Slots(capacity) -> Elements \cup {None}]
    <2>1. ASSUME NEW b \in Slots(capacity), call.at < b
          PROVE  b - 1 \in Slots(capacity)
      BY <1>1, <2>1 DEF Slots
    <2> QED
      BY <1>1, <1>2, <2>1 DEF ShiftedUp
  <1>7. TypeOK'
    BY <1>1, <1>2, <1>6 DEF TypeOK, Phases
  <1>8. ControlShape'
    BY <1>1, <1>2, <1>3 DEF ControlShape, Inserting
  <1> QED
    BY <1>2, <1>5, <1>7, <1>8, KeptInv

\* A copy has come to its slot: it is one more element at j.
LEMMA AddedLive ==
    ASSUME LiveCopies, NEW j \in 1 .. size + 1, NEW x \in Elements, Sequence'[j] = x,
           OneMore(size, Sequence, Sequence', j),
           size' = size + 1, live' = [live EXCEPT ![x] = @ + 1],
           TypeOK', ControlShape'
    PROVE  LiveCopies' /\ Sequence' \in [1 .. size + 1 -> Elements]
  <1>1. /\ size \in Nat /\ live \in [Elements -> Int]
        /\ Sequence \in [1 .. size -> Elements]
        /\ \A e \in Elements : live[e] = Occurrences(size, Sequence, e)
    BY InvParts
  <1>2. ASSUME NEW n \in 1 .. size + 1 PROVE Sequence'[n] \in Elements
    <2>1. CASE n = j
      BY <2>1
    <2>2. CASE n # j
      <3> DEFINE m == IF n < j THEN n ELSE n - 1
      <3>1. m \in 1 .. size /\ n = IF m < j THEN m ELSE m + 1
        BY <1>1, <2>2
      <3>2. Sequence'[n] = Sequence[m]
        BY <3>1 DEF OneMore
      <3> QED
        BY <1>1, <3>1, <3>2
    <2> QED
      BY <2>1, <2>2
  <1>3. ASSUME NEW e \in Elements
        PROVE  live'[e] = Cardinality({n \in 1 .. size' : Sequence'[n] = e})
    <2>1. /\ Occurrences(size, Sequence, e) \in Nat
          /\ Occurrences(size + 1, Sequence', e)
               = Occurrences(size, Sequence, e) + (IF Sequence'[j] = e THEN 1 ELSE 0)
      BY <1>1, CountInsert
    <2>2. live'[e] = Occurrences(size + 1, Sequence', e)
      BY <1>1, <2>1
    <2> QED
      BY <2>2 DEF Occurrences
  <1>4. Sequence' = [n \in 1 .. size + 1 |-> Sequence'[n]]
    BY NextSequence
  <1> QED
    BY <1>2, <1>3, <1>4 DEF LiveCopies

\* One element less, the one at j, whose copy is destroyed.
LEMMA RemovedLive ==
    ASSUME LiveCopies, NEW j \in 1 .. size, size' = size - 1,
           OneMore(size - 1, Sequence', Sequence, j),
           live' = [live EXCEPT ![Sequence[j]] = @ - 1],
           live' \in [Elements -> Int] => TypeOK', ControlShape'
    PROVE  /\ LiveCopies' /\ size - 1 \in Nat
           /\ Sequence \in [1 .. (size - 1) + 1 -> Elements]
           /\ Sequence' \in [1 .. size - 1 -> Elements]
  <1>1. /\ size \in Nat /\ live \in [Elements -> Int] /\ Sequence[j] \in Elements
        /\ Sequence \in [1 .. size -> Elements]
        /\ \A e \in Elements : live[e] = Occurrences(size, Sequence, e)
    BY InvParts
  <1>2. size - 1 \in Nat /\ (size - 1) + 1 = size
    BY <1>1
  <1>3. ASSUME NEW n \in 1 .. size - 1 PROVE Sequence'[n] \in Elements
    <2>1. (IF n < j THEN n ELSE n + 1) \in 1 .. size
      BY <1>1
    <2>2. Sequence'[n] = Sequence[IF n < j THEN n ELSE n + 1]
      BY DEF OneMore
    <2> QED
      BY <1>1, <2>1, <2>2
  <1>4. TypeOK'
    BY <1>1
  <1>5. ASSUME NEW e \in Elements
        PROVE  live'[e] = Cardinality({n \in 1 .. size' : Sequence'[n] = e})
    <2>1. /\ Occurrences(size - 1, Sequence', e) \in Nat
          /\ Occurrences((size - 1) + 1, Sequence, e)
               = Occurrences(size - 1, Sequence', e)
                   + (IF Sequence[j] = e THEN 1 ELSE 0)
      <3>1. j \in 1 .. (size - 1) + 1
        BY <1>2
      <3> QED
        BY <1>2, <3>1, CountInsert
    <2>2. Occurrences((size - 1) + 1, Sequence, e) = Occurrences(size, Sequence, e)
      BY <1>2
    <2>3. live'[e] = Occurrences(size - 1, Sequence', e)
      BY <1>1, <2>1, <2>2
    <2> QED
      BY <2>3 DEF Occurrences
  <1>6. Sequence' = [n \in 1 .. size - 1 |-> Sequence'[n]]
    BY NextSequence
  <1> QED
    BY <1>1, <1>2, <1>3, <1>4, <1>5, <1>6 DEF LiveCopies

\* What an addition makes of the sequence: InsertAt, or Append at the end.
Place == IF Inserting THEN call.at + 1 ELSE size + 1

\* The added element has its place in the sequence.
LEMMA FillInv ==
    ASSUME LiveCopies, Fill
    PROVE  /\ LiveCopies' /\ Added \in Elements
           /\ Place \in 1 .. size + 1 /\ Sequence'[Place] = Added
           /\ OneMore(size, Sequence, Sequence', Place)
           /\ Sequence' \in [1 .. size + 1 -> Elements]
  <1>1. /\ TypeOK /\ ControlShape /\ size \in Nat /\ size <= capacity
        /\ capacity \in Nat /\ call \in CallRecords /\ i \in Nat /\ call.at \in Nat
        /\ data \in [Slots(capacity) -> Elements \cup {None}]
        /\ live \in [Elements -> Int]
        /\ \A n \in 1 .. size :
              Sequence[n] = IF Gap /\ n > call.at THEN data[n] ELSE data[n - 1]
    BY InvParts
  <1> DEFINE b == IF Inserting THEN call.at ELSE size
             j == Place
  <1>2. /\ pc = "fill" /\ size' = size + 1 /\ capacity' = capacity
        /\ data' = [data EXCEPT ![b] = Added]
        /\ live' = [live EXCEPT ![Added] = @ + 1]
    BY DEF Fill
  <1>3. /\ size < capacity /\ call.op \in {"push_back", "insert", "copy"}
        /\ call.op = "copy" \/ call.elem # None
        /\ call.op = "copy" => /\ size = i /\ i < Len(call.source)
                               /\ \A n \in 1 .. i : Sequence[n] = call.source[n]
        /\ call.op # "copy" => i = 0
        /\ call.ret = "pending" /\ (Gap <=> Inserting)
    BY <1>1, <1>2, Running DEF ControlShape, TypeOK, Gap
  <1>4. Added \in Elements
    <2>1. call.elem \in Elements \cup {None} /\ call.source \in Seq(Elements)
      BY <1>1 DEF CallRecords
    <2>2. CASE call.op = "copy"
      <3>1. i + 1 \in 1 .. Len(call.source)
        BY <1>1, <1>3, <2>1, <2>2, LenProperties
      <3> QED
        BY <2>1, <2>2, <3>1, ElementOfSeq DEF Added
    <2>3. CASE call.op # "copy"
      BY <1>3, <2>1, <2>3 DEF Added
    <2> QED
      BY <2>2, <2>3
  <1>5. /\ i' \in Nat /\ pc' \in {"idle", "loop"} /\ call' \in CallRecords
        /\ pc' \in Phases /\ ~Gap'
        /\ IF call.op = "copy" THEN pc' = "loop" /\ i' = i + 1 /\ call' = call
                               ELSE pc' = "idle" /\ Return("ok")
    <2>1. CASE call.op = "copy"
      BY <1>1, <1>2, <2>1 DEF Fill, Phases, Gap
    <2>2. CASE call.op # "copy"
      <3>1. Return("ok")
        BY <2>2 DEF Fill
      <3> QED
        BY <1>1, <2>2, <3>1, Returned
    <2> QED
      BY <2>1, <2>2
  <1>6. /\ j \in 1 .. size + 1 /\ b = j - 1 /\ b \in Slots(capacity)
        /\ Inserting => j = call.at + 1
        /\ ~Inserting => j = size + 1
    BY <1>1, <1>3 DEF Place, Inserting, Slots
  <1>7. \A n \in 1 .. size + 1 : Sequence'[n] = data'[n - 1]
    BY <1>2, <1>5, NextSequence
  <1>8. /\ data'[b] = Added
        /\ \A c \in Slots(capacity) : c # b => data'[c] = data[c]
    BY <1>1, <1>2, <1>6
  <1> HIDE DEF b, j
  <1>9. Sequence'[j] = Added
    BY <1>6, <1>7, <1>8
  <1>10. OneMore(size, Sequence, Sequence', j)
    <2> SUFFICES ASSUME NEW n \in 1 .. size
                 PROVE  Sequence'[IF n < j THEN n ELSE n + 1] = Sequence[n]
      BY DEF OneMore
    <2>1. /\ n \in Slots(capacity) /\ n - 1 \in Slots(capacity) /\ n \in Nat
          /\ j \in Nat /\ n \in 1 .. size + 1 /\ n + 1 \in 1 .. size + 1
          /\ (n + 1) - 1 = n
      BY <1>1, <1>3, <1>6 DEF Slots
    <2>2. CASE n < j
      <3>1. Sequence[n] = data[n - 1]
        BY <1>1, <1>3, <1>6, <2>1, <2>2
      <3>2. n - 1 # b
        BY <1>6, <2>1, <2>2
      <3> QED
        BY <1>7, <1>8, <2>1, <2>2, <3>1, <3>2
    <2>3. CASE ~ (n < j)
      <3>1. Inserting /\ n > call.at
        BY <1>1, <1>6, <2>1, <2>3
      <3>2. Sequence[n] = data[n] /\ n # b
        BY <1>1, <1>3, <1>6, <2>1, <2>3, <3>1
      <3> QED
        BY <1>7, <1>8, <2>1, <2>3, <3>2
    <2> QED
      BY <2>2, <2>3
  <1>11. ControlShape'
    <2>1. CASE call.op = "copy"
      <3>1. j = size + 1 /\ size = i
        BY <1>3, <1>6, <2>1 DEF Inserting
      <3>2. \A n \in 1 .. i + 1 : Sequence'[n] = call.source[n]
        <4> TAKE n \in 1 .. i + 1
        <4>1. CASE n = i + 1
          BY <1>9, <2>1, <3>1, <4>1 DEF Added
        <4>2. CASE n # i + 1
          <5>1. n \in 1 .. size /\ n < j
            BY <1>1, <3>1, <4>2
          <5> QED
            BY <1>3, <1>10, <2>1, <3>1, <5>1 DEF OneMore
        <4> QED
          BY <4>1, <4>2
      <3>3. i + 1 <= Len(call.source)
        <4>1. Len(call.source) \in Nat
          BY <1>1, LenProperties DEF CallRecords
        <4> QED
          BY <1>1, <1>3, <2>1, <4>1
      <3> QED
        BY <1>2, <1>3, <1>5, <2>1, <3>1, <3>2, <3>3 DEF ControlShape
    <2>2. CASE call.op # "copy"
      BY <1>1, <1>5, <2>2, Returned
    <2> QED
      BY <2>1, <2>2
  <1>12. TypeOK'
    <2>1. data' \in [Slots(capacity') -> Elements \cup {None}]
      BY <1>1, <1>2, <1>4
    <2>2. size' <= capacity' /\ size' \in Nat /\ capacity' \in Nat
      BY <1>1, <1>2, <1>3
    <2>3. live' \in [Elements -> Int]
      BY <1>1, <1>2, <1>4
    <2> QED
      BY <1>5, <2>1, <2>2, <2>3 DEF TypeOK
  <1>13. LiveCopies' /\ Sequence' \in [1 .. size + 1 -> Elements]
    BY <1>2, <1>4, <1>6, <1>9, <1>10, <1>11, <1>12, AddedLive
  <1> QED
    BY <1>4, <1>6, <1>9, <1>10, <1>13 DEF j

\* An addition that gets no copy leaves the sequence as it was:
\* vector_insert has closed the gap again.
LEMMA FillFailsInv ==
    ASSUME LiveCopies, FillFails
    PROVE  /\ LiveCopies' /\ Return("error")
           /\ IF call.op = "copy" THEN Sequence' = <<>> ELSE Sequence' = Sequence
  <1>1. /\ TypeOK /\ ControlShape /\ size \in Nat /\ capacity \in Nat /\ call.at \in Nat
        /\ pc = "fill" /\ size < capacity /\ (Gap <=> Inserting)
        /\ data \in [Slots(capacity) -> Elements \cup {None}]
        /\ \A n \in 1 .. size :
              Sequence[n] = IF Gap /\ n > call.at THEN data[n] ELSE data[n - 1]
    BY InvParts DEF FillFails, TypeOK, Gap
  <1> DEFINE d == IF Inserting THEN ShiftedDown(call.at, size) ELSE data
  <1>2. AddFails(d)
    BY DEF FillFails
  <1>3. CASE call.op = "copy"
    <2>1. ~Gap /\ AddFails(data)
      BY <1>1, <1>2, <1>3 DEF Inserting
    <2> QED
      BY <1>3, <2>1, CopyAddFails DEF AddFails
  <1>4. CASE call.op # "copy"
    <2>1. /\ data' = d /\ Return("error") /\ size' = size /\ live' = live
          /\ capacity' = capacity
      BY <1>2, <1>4 DEF AddFails
    <2>2. /\ i' \in Nat /\ pc' \in Phases \ {"shift", "fill"} /\ call' \in CallRecords
          /\ ControlShape' /\ ~Gap'
      BY <1>1, <2>1, Returned
    <2>3. d \in [Slots(capacity) -> Elements \cup {None}]
      <3>1. ASSUME NEW b \in Slots(capacity), b < size PROVE b + 1 \in Slots(capacity)
        BY <1>1, <3>1 DEF Slots
      <3> QED
        BY <1>1, <3>1 DEF ShiftedDown
    <2>4. TypeOK'
      BY <1>1, <2>1, <2>2, <2>3 DEF TypeOK
    <2>5. \A n \in 1 .. size : Sequence'[n] = Sequence[n]
      <3> TAKE n \in 1 .. size
      <3>1. Sequence'[n] = d[n - 1]
        BY <2>1, <2>2, NextSequence
      <3>2. n - 1 \in Slots(capacity) /\ n - 1 < size /\ (n - 1) + 1 = n /\ n \in Nat
        BY <1>1 DEF Slots
      <3>3. CASE Inserting
        <4>1. d[n - 1] = IF call.at <= n - 1 THEN data[n] ELSE data[n - 1]
          BY <3>2, <3>3 DEF ShiftedDown
        <4>2. call.at <= n - 1 <=> n > call.at
          BY <1>1, <3>2
        <4> QED
          BY <1>1, <3>1, <3>3, <4>1, <4>2
      <3>4. CASE ~Inserting
        BY <1>1, <3>1, <3>4
      <3> QED
        BY <3>3, <3>4
    <2>6. Sequence' = Sequence
      BY <2>1, <2>5, KeptSequence
    <2> QED
      BY <1>4, <2>1, <2>2, <2>4, <2>6, KeptInv
  <1> QED
    BY <1>3, <1>4

\* vector_copy starts from an empty target.
LEMMA CopyBeginInv ==
    ASSUME LiveCopies, CopyBegin
    PROVE  LiveCopies' /\ Sequence' = <<>>
  <1>1. /\ ControlShape /\ call \in CallRecords /\ i \in Nat
        /\ pc = "copy" /\ ~Gap /\ call.ret = "pending"
    BY InvParts, Running DEF CopyBegin, Gap
  <1>2. /\ DestroyElements /\ pc' = "prepare"
        /\ capacity' = 0 /\ size' = 0 /\ data' = <<>> /\ call' = call /\ i' = i
    BY DEF CopyBegin
  <1>3. call.op = "copy" /\ i = 0
    BY <1>1 DEF ControlShape
  <1>4. data' \in [Slots(capacity') -> Elements \cup {None}]
    <2>1. Slots(capacity') = {}
      BY <1>2 DEF Slots
    <2> QED
      BY <1>2, <2>1
  <1>5. /\ ControlShape' /\ pc' \in Phases \ {"shift", "fill"}
        /\ call' \in CallRecords /\ i' \in Nat
    BY <1>1, <1>2, <1>3 DEF ControlShape, Phases
  <1> QED
    BY <1>1, <1>2, <1>4, <1>5, EmptiedInv

LEMMA CopyReserveInv ==
    ASSUME LiveCopies, CopyReserve
    PROVE  /\ LiveCopies' /\ Sequence' = Sequence /\ Sequence = <<>>
           /\ UNCHANGED call \/ Return("error")
  <1>1. /\ TypeOK /\ ControlShape /\ call \in CallRecords /\ i \in Nat
        /\ pc = "prepare" /\ ~Gap /\ call.ret = "pending" /\ capacity \in Nat
        /\ Sequence \in [1 .. size -> Elements]
    BY InvParts, Running DEF CopyReserve, Gap
  <1>2. size = 0 /\ i = 0 /\ call.op = "copy"
    BY <1>1 DEF ControlShape
  <1>3. Sequence = <<>>
    BY <1>1, <1>2, EmptyIs
  <1>4. Len(call.source) \in Nat
    BY <1>1, LenProperties DEF CallRecords
  <1>5. ASSUME pc' = "loop", UNCHANGED <<call, i>>, size' = size
        PROVE  /\ ControlShape' /\ i' \in Nat /\ pc' \in Phases
               /\ call' \in CallRecords /\ ~Gap'
    BY <1>1, <1>2, <1>4, <1>5 DEF ControlShape, Phases, Gap
  <1>6. CASE pc' = "loop" /\ UNCHANGED <<array, live, call, i>>
    <2>1. /\ ControlShape' /\ i' \in Nat /\ pc' \in Phases /\ call' \in CallRecords
          /\ ~Gap'
      BY <1>5, <1>6 DEF array
    <2>2. LiveCopies' /\ Sequence' = Sequence
      BY <1>1, <1>6, <2>1, QuietInv
    <2> QED
      BY <1>3, <1>6, <2>2
  <1>7. CASE /\ Len(call.source) > capacity /\ Grow(Len(call.source))
             /\ pc' = "loop" /\ UNCHANGED <<call, i>>
    <2>1. /\ ControlShape' /\ i' \in Nat /\ pc' \in Phases /\ call' \in CallRecords
          /\ ~Gap'
      BY <1>5, <1>7 DEF Grow
    <2>2. Len(call.source) >= capacity
      BY <1>1, <1>4, <1>7
    <2>3. LiveCopies' /\ Sequence' = Sequence
      BY <1>1, <1>4, <1>7, <2>1, <2>2, GrownInv
    <2> QED
      BY <1>3, <1>7, <2>3
  <1>8. CASE Fail
    BY <1>1, <1>3, <1>8, ReturnInv DEF Fail
  <1> QED
    BY <1>1, <1>4, <1>6, <1>7, <1>8 DEF CopyReserve

\* Functions that find nothing to do, or refuse their arguments.
LEMMA IdleInv ==
    ASSUME LiveCopies, AddInvalid \/ PopMissing \/ SetFails \/ EraseMissing \/ CopyEnd
    PROVE  /\ LiveCopies' /\ Sequence' = Sequence
           /\ Return(IF pc \in {"erase", "loop"} THEN "ok" ELSE "error")
  <1>1. /\ ~Gap /\ UNCHANGED array /\ UNCHANGED live
        /\ Return(IF pc \in {"erase", "loop"} THEN "ok" ELSE "error")
    BY DEF AddInvalid, PopMissing, SetFails, EraseMissing, CopyEnd, Fail, Gap
  <1> QED
    BY <1>1, ReturnInv

LEMMA PopInv ==
    ASSUME LiveCopies, Pop
    PROVE  /\ LiveCopies' /\ Sequence # <<>>
           /\ Sequence' = SubSeq(Sequence, 1, Len(Sequence) - 1)
  <1>1. /\ TypeOK /\ capacity \in Nat /\ size \in Nat /\ size <= capacity
        /\ pc = "pop_back" /\ size > 0 /\ ~Gap
        /\ Sequence \in [1 .. size -> Elements]
        /\ \A n \in 1 .. size : Sequence[n] = data[n - 1]
    BY InvParts DEF Pop, Gap
  <1>2. /\ live' = [live EXCEPT ![data[size - 1]] = @ - 1] /\ size' = size - 1
        /\ Return("ok") /\ capacity' = capacity /\ data' = data
    BY DEF Pop
  <1>3. /\ i' \in Nat /\ pc' \in Phases \ {"shift", "fill"} /\ call' \in CallRecords
        /\ ControlShape' /\ ~Gap'
    BY <1>1, <1>2, Returned
  <1>4. size \in 1 .. size /\ data[size - 1] = Sequence[size] /\ size - 1 \in Nat
    BY <1>1
  <1>5. \A n \in 1 .. size - 1 : Sequence'[n] = Sequence[n]
    <2> TAKE n \in 1 .. size - 1
    <2>1. n \in 1 .. size
      BY <1>1
    <2>2. Sequence'[n] = data'[n - 1]
      BY <1>2, <1>3, NextSequence
    <2> QED
      BY <1>1, <1>2, <2>1, <2>2
  <1>6. OneMore(size - 1, Sequence', Sequence, size)
    <2>1. \A n \in 1 .. size - 1 : n < size
      BY <1>1
    <2> QED
      BY <1>5, <2>1 DEF OneMore
  <1>7. live' \in [Elements -> Int] => TypeOK'
    BY <1>1, <1>2, <1>3, <1>4 DEF TypeOK
  <1>8. live' \in [Elements -> Int]
    BY <1>1, <1>2, <1>4, InvParts
  <1>9. /\ LiveCopies' /\ Sequence \in [1 .. (size - 1) + 1 -> Elements]
        /\ Sequence' \in [1 .. size - 1 -> Elements]
    BY <1>2, <1>3, <1>4, <1>6, <1>7, <1>8, RemovedLive
  <1>10. Sequence' = SubSeq(Sequence, 1, Len(Sequence) - 1)
    BY <1>4, <1>5, <1>9, AppendIs
  <1>11. Sequence # <<>>
    BY <1>1, SequenceOf
  <1> QED
    BY <1>9, <1>10, <1>11

LEMMA EraseInv ==
    ASSUME LiveCopies, Erase
    PROVE  /\ LiveCopies' /\ call.at < Len(Sequence)
           /\ Sequence' = SubSeq(Sequence, 1, (call.at + 1) - 1)
                            \o SubSeq(Sequence, (call.at + 1) + 1, Len(Sequence))
  <1> DEFINE j == call.at + 1
  <1>1. /\ TypeOK /\ capacity \in Nat /\ size \in Nat /\ size <= capacity
        /\ pc = "erase" /\ call.at \in Nat /\ call.at < size /\ ~Gap
        /\ data \in [Slots(capacity) -> Elements \cup {None}]
        /\ live \in [Elements -> Int] /\ Sequence \in [1 .. size -> Elements]
        /\ \A n \in 1 .. size : Sequence[n] = data[n - 1]
    BY InvParts DEF Erase, Gap
  <1>2. /\ live' = [live EXCEPT ![data[call.at]] = @ - 1] /\ size' = size - 1
        /\ Return("ok") /\ capacity' = capacity
        /\ data' = ShiftedDown(call.at, size - 1)
    BY DEF Erase
  <1>3. /\ i' \in Nat /\ pc' \in Phases \ {"shift", "fill"} /\ call' \in CallRecords
        /\ ControlShape' /\ ~Gap'
    BY <1>1, <1>2, Returned
  <1>4. /\ j \in 1 .. size /\ j - 1 = call.at /\ data[call.at] = Sequence[j]
        /\ Sequence[j] \in Elements /\ size - 1 \in Nat /\ (size - 1) + 1 = size
    <2>1. j \in 1 .. size /\ j - 1 = call.at /\ size - 1 \in Nat /\ (size - 1) + 1 = size
      BY <1>1
    <2> HIDE DEF j
    <2>2. Sequence[j] = data[j - 1] /\ Sequence[j] \in Elements
      BY <1>1, <2>1
    <2> QED
      BY <2>1, <2>2
  <1>5. data' \in [Slots(capacity) -> Elements \cup {None}]
    <2>1. ASSUME NEW b \in Slots(capacity), b < size - 1
          PROVE  b + 1 \in Slots(capacity)
      BY <1>1, <2>1 DEF Slots
    <2> QED
      BY <1>1, <1>2, <2>1 DEF ShiftedDown
  <1> HIDE DEF j
  <1>6. OneMore(size - 1, Sequence', Sequence, j)
    <2> SUFFICES ASSUME NEW n \in 1 .. size - 1
                 PROVE  Sequence[IF n < j THEN n ELSE n + 1] = Sequence'[n]
      BY DEF OneMore
    <2>1. /\ n - 1 \in Slots(capacity) /\ n - 1 < size - 1 /\ (n - 1) + 1 = n
          /\ n \in 1 .. size /\ n + 1 \in 1 .. size /\ (n + 1) - 1 = n
          /\ (call.at <= n - 1 <=> ~ (n < j))
      BY <1>1, <1>4 DEF Slots
    <2>2. Sequence'[n] = data'[n - 1]
      BY <1>2, <1>3, NextSequence
    <2>3. data'[n - 1] = IF n < j THEN data[n - 1] ELSE data[n]
      BY <1>2, <2>1 DEF ShiftedDown
    <2>4. Sequence[n] = data[n - 1] /\ Sequence[n + 1] = data[n]
      BY <1>1, <2>1
    <2> QED
      BY <2>2, <2>3, <2>4
  <1>7. live' \in [Elements -> Int]
    BY <1>1, <1>2, <1>4
  <1>8. TypeOK'
    BY <1>1, <1>2, <1>3, <1>4, <1>5, <1>7 DEF TypeOK
  <1>9. /\ LiveCopies' /\ Sequence \in [1 .. (size - 1) + 1 -> Elements]
        /\ Sequence' \in [1 .. size - 1 -> Elements]
    BY <1>2, <1>3, <1>4, <1>6, <1>8, RemovedLive
  <1>10. Sequence' = SubSeq(Sequence, 1, j - 1) \o SubSeq(Sequence, j + 1, Len(Sequence))
    <2>1. j \in 1 .. (size - 1) + 1
      BY <1>4
    <2> QED
      BY <1>4, <1>6, <1>9, <2>1, InsertIs
  <1>11. Len(Sequence) = size
    BY <1>1, SequenceOf
  <1> QED
    BY <1>1, <1>9, <1>10, <1>11 DEF j

\* vector_set exchanges one copy for another.
LEMMA SetInv ==
    ASSUME LiveCopies, Set
    PROVE  /\ LiveCopies' /\ call.elem \in Elements /\ call.at < Len(Sequence)
           /\ Sequence' = [Sequence EXCEPT ![call.at + 1] = call.elem]
  <1> DEFINE j == call.at + 1
             x == call.elem
  <1>1. /\ TypeOK /\ capacity \in Nat /\ size \in Nat /\ size <= capacity
        /\ call \in CallRecords /\ call.at \in Nat /\ ~Gap
        /\ data \in [Slots(capacity) -> Elements \cup {None}]
        /\ live \in [Elements -> Int] /\ Sequence \in [1 .. size -> Elements]
        /\ \A e \in Elements : live[e] = Occurrences(size, Sequence, e)
        /\ \A n \in 1 .. size : Sequence[n] = data[n - 1]
    BY InvParts DEF Set, Gap
  <1>2. /\ x # None /\ call.at < size /\ Return("ok")
        /\ live' = [[live EXCEPT ![x] = @ + 1] EXCEPT ![data[call.at]] = @ - 1]
        /\ data' = [data EXCEPT ![call.at] = x]
        /\ capacity' = capacity /\ size' = size
    BY DEF Set
  <1>3. /\ i' \in Nat /\ pc' \in Phases \ {"shift", "fill"} /\ call' \in CallRecords
        /\ ControlShape' /\ ~Gap'
    BY <1>1, <1>2, Returned
  <1>4. /\ x \in Elements /\ j \in 1 .. size /\ j - 1 = call.at
        /\ call.at \in Slots(capacity)
    <2>1. x \in Elements
      BY ONLY <1>1, <1>2 DEF CallRecords
    <2>2. j \in 1 .. size /\ j - 1 = call.at /\ call.at \in Slots(capacity)
      <3>1. /\ call.at \in Nat /\ size \in Nat /\ capacity \in Nat
            /\ size <= capacity /\ call.at < size
        BY ONLY <1>1, <1>2
      <3> QED
        BY ONLY <3>1 DEF Slots
    <2> QED
      BY ONLY <2>1, <2>2
  <1>5. data[call.at] = Sequence[j] /\ Sequence[j] \in Elements
    BY <1>1, <1>4
  <1> HIDE DEF j, x
  <1>6. \A n \in 1 .. size : Sequence'[n] = data'[n - 1]
    BY <1>2, <1>3, NextSequence
  <1>7. Sequence'[j] = x
    BY <1>1, <1>2, <1>4, <1>6
  <1>8. OneOther(size, Sequence, Sequence', j)
    <2> SUFFICES ASSUME NEW n \in 1 .. size, n # j PROVE Sequence'[n] = Sequence[n]
      BY DEF OneOther
    <2>1. n - 1 # call.at /\ n - 1 \in Slots(capacity)
      <3>1. n \in Nat /\ j \in Nat /\ n <= capacity /\ 0 < n
        BY <1>1, <1>4
      <3> QED
        BY <1>1, <1>4, <3>1 DEF Slots
    <2> QED
      BY <1>1, <1>2, <1>6, <2>1
  <1>9. live' \in [Elements -> Int]
    BY <1>1, <1>2, <1>4, <1>5
  <1>10. TypeOK'
    BY <1>1, <1>2, <1>3, <1>4, <1>9 DEF TypeOK
  <1>11. ASSUME NEW e \in Elements
         PROVE  live'[e] = Cardinality({n \in 1 .. size' : Sequence'[n] = e})
    <2>1. /\ Occurrences(size, Sequence, e) \in Nat
          /\ Occurrences(size, Sequence', e)
               = Occurrences(size, Sequence, e) - (IF Sequence[j] = e THEN 1 ELSE 0)
                   + (IF Sequence'[j] = e THEN 1 ELSE 0)
      <3>1. size \in Nat /\ j \in 1 .. size
        BY <1>1, <1>4
      <3> QED
        BY <1>8, <3>1, CountReplace
    <2>2. live'[e] = live[e] - (IF Sequence[j] = e THEN 1 ELSE 0)
                             + (IF x = e THEN 1 ELSE 0)
      <3>1. live'[e] = IF e = Sequence[j]
                         THEN (IF e = x THEN live[e] + 1 ELSE live[e]) - 1
                         ELSE (IF e = x THEN live[e] + 1 ELSE live[e])
        BY <1>1, <1>2, <1>4, <1>5
      <3>2. live[e] \in Int
        BY <1>1
      <3> QED
        BY <3>1, <3>2
    <2>3. live'[e] = Occurrences(size, Sequence', e)
      BY <1>1, <1>7, <2>1, <2>2
    <2> QED
      BY <1>2, <2>3 DEF Occurrences
  <1>12. \A n \in 1 .. size : Sequence'[n] \in Elements
    <2> TAKE n \in 1 .. size
    <2>1. CASE n = j
      BY <1>4, <1>7, <2>1
    <2>2. CASE n # j
      BY <1>1, <1>8, <2>2 DEF OneOther
    <2> QED
      BY <2>1, <2>2
  <1>13. LiveCopies'
    BY <1>2, <1>3, <1>10, <1>11, <1>12 DEF LiveCopies
  <1>14. Sequence' = [Sequence EXCEPT ![j] = x]
    <2>1. Sequence' = [n \in 1 .. size |-> Sequence'[n]]
      BY <1>2, NextSequence
    <2>2. Sequence' = [n \in 1 .. size |-> IF n = j THEN x ELSE Sequence[n]]
      BY <1>7, <1>8, <2>1 DEF OneOther
    <2> QED
      BY <1>1, <2>2
  <1>15. Len(Sequence) = size
    BY <1>1, SequenceOf
  <1> QED
    BY <1>2, <1>4, <1>13, <1>14, <1>15 DEF x, j

\* vector_sort brings the elements into another order.
LEMMA SortInv ==
    ASSUME LiveCopies, Sort
    PROVE  /\ LiveCopies'
           /\ \E q : Permuted(size, Sequence, Sequence', q) /\ size' = size
  <1>1. /\ TypeOK /\ capacity \in Nat /\ size \in Nat /\ size <= capacity /\ ~Gap
        /\ data \in [Slots(capacity) -> Elements \cup {None}]
        /\ Sequence \in [1 .. size -> Elements]
        /\ \A e \in Elements : live[e] = Occurrences(size, Sequence, e)
        /\ \A n \in 1 .. size : Sequence[n] = data[n - 1]
    BY InvParts DEF Sort, Gap
  <1>2. PICK p \in [0 .. size - 1 -> 0 .. size - 1] :
           /\ \A m, n \in 0 .. size - 1 : p[m] = p[n] => m = n
           /\ data' = [b \in Slots(capacity) |->
                          IF b < size THEN data[p[b]] ELSE data[b]]
    BY DEF Sort
  <1>3. Return("ok") /\ capacity' = capacity /\ size' = size /\ live' = live
    BY DEF Sort
  <1>4. /\ i' \in Nat /\ pc' \in Phases \ {"shift", "fill"} /\ call' \in CallRecords
        /\ ControlShape' /\ ~Gap'
    BY <1>1, <1>3, Returned
  <1> DEFINE q == [n \in 1 .. size |-> p[n - 1] + 1]
  <1>5. ASSUME NEW n \in 1 .. size
        PROVE  /\ n - 1 \in 0 .. size - 1 /\ p[n - 1] \in 0 .. size - 1
               /\ q[n] \in 1 .. size /\ q[n] - 1 = p[n - 1]
    <2>1. n - 1 \in 0 .. size - 1
      BY <1>1
    <2>2. p[n - 1] \in 0 .. size - 1
      BY <2>1
    <2>3. p[n - 1] + 1 \in 1 .. size /\ (p[n - 1] + 1) - 1 = p[n - 1]
      BY <1>1, <2>2
    <2> QED
      BY <2>1, <2>2, <2>3
  <1>6. q \in [1 .. size -> 1 .. size]
    BY <1>5
  <1>7. \A x, y \in 1 .. size : q[x] = q[y] => x = y
    <2> SUFFICES ASSUME NEW x \in 1 .. size, NEW y \in 1 .. size, q[x] = q[y]
                 PROVE  x = y
      OBVIOUS
    <2>1. p[x - 1] = p[y - 1]
      <3>1. p[x - 1] = q[x] - 1 /\ p[y - 1] = q[y] - 1
        BY <1>5
      <3> QED
        BY <3>1
    <2>2. x - 1 = y - 1
      BY <1>2, <1>5, <2>1
    <2> QED
      BY <2>2
  <1> HIDE DEF q
  <1>8. \A n \in 1 .. size : Sequence'[n] = Sequence[q[n]]
    <2> TAKE n \in 1 .. size
    <2>1. n - 1 \in Slots(capacity) /\ n - 1 < size
      BY <1>1 DEF Slots
    <2>2. Sequence'[n] = data'[n - 1]
      BY <1>3, <1>4, NextSequence
    <2>3. data'[n - 1] = data[q[n] - 1]
      BY <1>2, <1>5, <2>1
    <2> QED
      BY <1>1, <1>5, <2>2, <2>3
  <1>9. Permuted(size, Sequence, Sequence', q)
    BY <1>6, <1>7, <1>8 DEF Permuted
  <1>10. data' \in [Slots(capacity) -> Elements \cup {None}]
    <2>1. ASSUME NEW b \in Slots(capacity), b < size
          PROVE  p[b] \in Slots(capacity)
      <3>1. b \in 0 .. size - 1
        BY <1>1, <2>1 DEF Slots
      <3>2. p[b] \in 0 .. size - 1
        BY <3>1
      <3> QED
        BY <1>1, <3>2 DEF Slots
    <2> QED
      BY <1>1, <1>2, <2>1
  <1>11. TypeOK'
    BY <1>1, <1>3, <1>4, <1>10 DEF TypeOK
  <1>12. \A e \in Elements :
            live'[e] = Cardinality({n \in 1 .. size' : Sequence'[n] = e})
    <2> TAKE e \in Elements
    <2>1. Occurrences(size, Sequence', e) = Occurrences(size, Sequence, e)
      BY <1>1, <1>9, CountPermuted
    <2>2. live'[e] = Occurrences(size, Sequence', e)
      BY <1>1, <1>3, <2>1
    <2> QED
      BY <1>3, <2>2 DEF Occurrences
  <1>13. \A n \in 1 .. size' : Sequence'[n] \in Elements
    BY <1>1, <1>3, <1>6, <1>8
  <1>14. LiveCopies'
    BY <1>4, <1>11, <1>12, <1>13 DEF LiveCopies
  <1> QED
    BY <1>3, <1>9, <1>14

LEMMA ClearInv ==
    ASSUME LiveCopies, Clear
    PROVE  LiveCopies' /\ Sequence' = <<>>
  <1>1. /\ TypeOK /\ capacity \in Nat /\ ~Gap
        /\ data \in [Slots(capacity) -> Elements \cup {None}]
    BY InvParts DEF Clear, Gap
  <1>2. DestroyElements /\ Return("ok") /\ size' = 0
    BY DEF Clear
  <1>3. capacity' \in Nat /\ data' \in [Slots(capacity') -> Elements \cup {None}]
    <2>1. CASE pc = "destroy"
      <3>1. capacity' = 0 /\ data' = <<>> /\ Slots(0) = {}
        BY <2>1 DEF Clear, Slots
      <3> QED
        BY <3>1
    <2>2. CASE pc # "destroy"
      <3>1. capacity' = capacity /\ data' = data
        BY <2>2 DEF Clear
      <3> QED
        BY <1>1, <3>1
    <2> QED
      BY <2>1, <2>2
  <1>4. /\ i' \in Nat /\ pc' \in Phases \ {"shift", "fill"} /\ call' \in CallRecords
        /\ ControlShape'
    BY <1>1, <1>2, Returned
  <1> QED
    BY <1>1, <1>2, <1>3, <1>4, EmptiedInv

-----------------------------------------------------------------------------
(* The invariant holds *)

LEMMA InitInv == Init => LiveCopies /\ Sequence = <<>>
  <1> SUFFICES ASSUME Init PROVE LiveCopies /\ Sequence = <<>>
    OBVIOUS
  <1>1. TypeOK
    <2>1. data \in [Slots(capacity) -> Elements \cup {None}]
      <3>1. Slots(capacity) = {} /\ data = <<>>
        BY DEF Init, Slots
      <3> QED
        BY <3>1
    <2>2. call \in CallRecords
      BY DEF Init, CallRecords
    <2> QED
      BY <2>1, <2>2 DEF Init, TypeOK, Phases
  <1>2. ControlShape /\ size = 0
    BY DEF Init, ControlShape
  <1>3. Sequence = <<>>
    <2>1. Sequence \in [1 .. 0 -> Elements]
      BY <1>2 DEF Sequence
    <2> QED
      BY <2>1, EmptyIs
  <1>4. LiveCopies
    <2>1. \A e \in Elements : {n \in 1 .. size : Sequence[n] = e} = {}
      BY <1>2
    <2>2. \A e \in Elements : live[e] = 0
      BY DEF Init
    <2> QED
      BY <1>1, <1>2, <2>1, <2>2, FS_EmptySet DEF LiveCopies
  <1> QED
    BY <1>3, <1>4

\* A function is entered with what callers may pass.
LEMMA CallsInv ==
    ASSUME LiveCopies, Calls
    PROVE  /\ LiveCopies' /\ Sequence' = Sequence
           /\ \E op \in {"push_back", "pop_back", "insert", "set", "erase",
                         "clear", "destroy", "sort", "reserve", "copy"},
                 e \in Elements \cup {None}, n \in Indices, s \in Sources :
                    Call(op, e, n, s)
  <1>1. PICK op \in {"push_back", "pop_back", "insert", "set", "erase",
                     "clear", "destroy", "sort", "reserve", "copy"},
             e \in Elements \cup {None}, n \in Indices, s \in Sources :
                Call(op, e, n, s)
    <2>1. 0 \in Indices /\ <<>> \in Sources /\ None \in Elements \cup {None}
      BY VectorAssumption
    <2>2. CASE \E e \in Elements \cup {None} : Call("push_back", e, 0, <<>>)
      BY <2>1, <2>2
    <2>3. CASE \E op \in {"pop_back", "clear", "destroy", "sort"} :
                  Call(op, None, 0, <<>>)
      BY <2>1, <2>3
    <2>4. CASE \E op \in {"insert", "set"}, e \in Elements \cup {None}, n \in Indices :
                  Call(op, e, n, <<>>)
      BY <2>1, <2>4
    <2>5. CASE \E op \in {"erase", "reserve"}, n \in Indices : Call(op, None, n, <<>>)
      BY <2>1, <2>5
    <2>6. CASE \E s \in Sources : Call("copy", None, 0, s)
      BY <2>1, <2>6
    <2> QED
      BY <2>2, <2>3, <2>4, <2>5, <2>6 DEF Calls
  <1>2. n \in Nat /\ s \in Seq(Elements)
    BY VectorAssumption
  <1>3. LiveCopies' /\ Sequence' = Sequence
    BY <1>1, <1>2, CallInv
  <1> QED
    BY <1>1, <1>3

LEMMA NextInv == LiveCopies /\ [Next]_vars => LiveCopies'
  <1> SUFFICES ASSUME LiveCopies, [Next]_vars PROVE LiveCopies'
    OBVIOUS
  <1>1. CASE Calls
    BY <1>1, CallsInv
  <1>2. CASE Reserve
    BY <1>2, ReserveInv
  <1>3. CASE AddInvalid \/ PopMissing \/ SetFails \/ EraseMissing \/ CopyEnd
    BY <1>3, IdleInv
  <1>4. CASE MakeRoom
    BY <1>4, MakeRoomInv
  <1>5. CASE Shift
    BY <1>5, ShiftInv
  <1>6. CASE Fill
    BY <1>6, FillInv
  <1>7. CASE FillFails
    BY <1>7, FillFailsInv
  <1>8. CASE CopyBegin
    BY <1>8, CopyBeginInv
  <1>9. CASE CopyReserve
    BY <1>9, CopyReserveInv
  <1>10. CASE Pop
    BY <1>10, PopInv
  <1>11. CASE Erase
    BY <1>11, EraseInv
  <1>12. CASE Set
    BY <1>12, SetInv
  <1>13. CASE Sort
    BY <1>13, SortInv
  <1>14. CASE Clear
    BY <1>14, ClearInv
  <1>15. CASE UNCHANGED vars
    <2>1. TypeOK'
      BY <1>15 DEF vars, array, LiveCopies, TypeOK
    <2>2. Sequence' = Sequence
      BY <1>15 DEF vars, array, Sequence, Gap, Inserting
    <2>3. ControlShape'
      <3>1. Inserting' <=> Inserting
        BY <1>15 DEF vars, array, Inserting
      <3>2. pc' = pc /\ call' = call /\ size' = size /\ i' = i
        BY <1>15 DEF vars, array
      <3> QED
        BY <2>2, <3>1, <3>2 DEF LiveCopies, ControlShape
    <2>4. size' = size /\ live' = live
      BY <1>15 DEF vars, array
    <2> QED
      BY <2>1, <2>2, <2>3, <2>4, KeptInv
  <1> QED
    BY <1>1, <1>2, <1>3, <1>4, <1>5, <1>6, <1>7, <1>8, <1>9, <1>10, <1>11,
       <1>12, <1>13, <1>14, <1>15 DEF Next, Body

\* Whatever the calls and whatever fails, every copy of an element made and
\* not yet destroyed is at exactly one position of the vector.
THEOREM LiveCopiesHold == Spec => []LiveCopies
  BY InitInv, NextInv, PTL DEF Spec

-----------------------------------------------------------------------------
(* Callers see a sequence *)

LEMMA SequenceLength ==
    ASSUME LiveCopies
    PROVE  /\ Sequence \in Seq(Elements) /\ Len(Sequence) = size
           /\ Sequence = <<>> <=> size = 0
  <1>1. size \in Nat /\ Sequence \in [1 .. size -> Elements]
    BY InvParts
  <1>2. Sequence \in Seq(Elements) /\ Len(Sequence) = size
    BY <1>1, SequenceOf
  <1>3. size = 0 => Sequence = <<>>
    BY <1>1, EmptyIs
  <1> QED
    BY <1>2, <1>3

\* A function that returns from its own phases answers its call.
LEMMA Answers ==
    ASSUME LiveCopies, NEW ret \in {"ok", "error"}, Return(ret), pc # "idle",
           NEW ops, call.op \in ops, NEW c, Sequence' = c
    PROVE  Seqn!Answer(ops, ret, c)
  BY Running DEF Seqn!Answer, Seqn!Idle, Return

\* A function that gives up leaves what was there; vector_copy leaves nothing.
LEMMA StoppedStep ==
    ASSUME LiveCopies, Return("error"), pc # "idle",
           call.op \in {"push_back", "insert", "set", "reserve", "copy"},
           IF call.op = "copy" THEN Sequence' = <<>> ELSE Sequence' = Sequence
    PROVE  [Seqn!Next]_Seqn!seqVars
  <1>1. CASE call.op = "copy"
    <2>1. Seqn!Answer({"copy"}, "error", <<>>)
      BY <1>1, Answers
    <2> QED
      BY <2>1 DEF Seqn!Next, Seqn!CopyFails
  <1>2. CASE call.op # "copy"
    <2>1. Seqn!Answer({"push_back", "push_front", "insert", "set", "reserve"},
                      "error", Sequence)
      BY <1>2, Answers
    <2> QED
      BY <2>1 DEF Seqn!Next, Seqn!Refuse
  <1> QED
    BY <1>1, <1>2

LEMMA CallsStep ==
    ASSUME LiveCopies, Calls
    PROVE  [Seqn!Next]_Seqn!seqVars
  <1>1. Sequence' = Sequence
    BY CallsInv
  <1>2. PICK op \in {"push_back", "pop_back", "insert", "set", "erase",
                     "clear", "destroy", "sort", "reserve", "copy"},
             e \in Elements \cup {None}, n \in Indices, s \in Sources :
                Call(op, e, n, s)
    BY CallsInv
  <1>3. call.ret # "pending"
    BY <1>2, InvParts DEF Call, ControlShape
  <1>4. Seqn!Call(op, e, n, s)
    BY <1>1, <1>2, <1>3 DEF Call, Seqn!Call, Seqn!Idle
  <1> QED
    BY <1>4 DEF Seqn!Next

LEMMA ReserveStep ==
    ASSUME LiveCopies, Reserve
    PROVE  [Seqn!Next]_Seqn!seqVars
  <1>1. /\ Sequence' = Sequence /\ pc = "reserve" /\ call.op = "reserve"
        /\ Return("ok") \/ Return("error")
    BY ReserveInv, InvParts DEF Reserve, ControlShape
  <1>2. CASE Return("ok")
    <2>1. Seqn!Answer({"reserve"}, "ok", Sequence)
      BY <1>1, <1>2, Answers
    <2> QED
      BY <2>1 DEF Seqn!Next, Seqn!Reserve
  <1>3. CASE Return("error")
    BY <1>1, <1>3, StoppedStep
  <1> QED
    BY <1>1, <1>2, <1>3

LEMMA IdleStep ==
    ASSUME LiveCopies, AddInvalid \/ PopMissing \/ SetFails \/ EraseMissing
    PROVE  [Seqn!Next]_Seqn!seqVars
  <1>1. /\ Sequence' = Sequence
        /\ Return(IF pc \in {"erase", "loop"} THEN "ok" ELSE "error")
    BY IdleInv
  <1>2. CASE AddInvalid \/ SetFails
    <2>1. pc \in {"push_back", "insert", "set"} /\ call.op = pc /\ Return("error")
      BY <1>1, <1>2, InvParts DEF AddInvalid, SetFails, ControlShape
    <2> QED
      BY <1>1, <2>1, StoppedStep
  <1>3. CASE PopMissing
    <2>1. pc = "pop_back" /\ call.op = pc /\ size = 0 /\ Return("error")
      BY <1>1, <1>3, InvParts DEF PopMissing, ControlShape
    <2>2. Seqn!Answer({"pop_back", "pop_front"}, "error", Sequence)
      BY <1>1, <2>1, Answers
    <2>3. Sequence = <<>>
      BY <2>1, SequenceLength
    <2> QED
      BY <2>2, <2>3 DEF Seqn!Next, Seqn!PopMissing
  <1>4. CASE EraseMissing
    <2>1. pc = "erase" /\ call.op = pc /\ call.at >= size /\ Return("ok")
      BY <1>1, <1>4, InvParts DEF EraseMissing, ControlShape
    <2>2. ~ (call.at < Len(Sequence))
      BY <2>1, SequenceLength, InvParts
    <2>3. Seqn!Answer({"erase"}, "ok", Sequence)
      BY <1>1, <2>1, Answers
    <2> QED
      BY <2>2, <2>3 DEF Seqn!Next, Seqn!Erase
  <1> QED
    BY <1>2, <1>3, <1>4

LEMMA MakeRoomStep ==
    ASSUME LiveCopies, MakeRoom
    PROVE  [Seqn!Next]_Seqn!seqVars
  <1>1. /\ pc # "idle"
        /\ call.op \in {"push_back", "insert", "copy"}
    BY InvParts DEF MakeRoom, ControlShape
  <1>2. CASE Sequence' = Sequence /\ UNCHANGED call
    BY <1>2 DEF Seqn!seqVars
  <1>3. CASE /\ Return("error")
             /\ IF call.op = "copy" THEN Sequence' = <<>> ELSE Sequence' = Sequence
    BY <1>1, <1>3, StoppedStep
  <1> QED
    BY <1>2, <1>3, MakeRoomInv

LEMMA FillStep ==
    ASSUME LiveCopies, Fill
    PROVE  [Seqn!Next]_Seqn!seqVars
  <1>1. /\ ControlShape /\ pc = "fill" /\ call \in CallRecords /\ size \in Nat
        /\ call.op \in {"push_back", "insert", "copy"} /\ call.at \in Nat
        /\ Sequence \in [1 .. size -> Elements] /\ Len(Sequence) = size
        /\ call.op = "insert" => call.at <= size
    BY InvParts, SequenceLength DEF Fill, ControlShape
  <1>2. /\ Added \in Elements /\ Sequence'[Place] = Added
        /\ Place \in 1 .. size + 1
        /\ OneMore(size, Sequence, Sequence', Place)
        /\ Sequence' \in [1 .. size + 1 -> Elements]
    BY FillInv
  <1>3. ASSUME call.op # "insert" PROVE Sequence' = Append(Sequence, Added)
    <2>1. Place = size + 1
      BY <1>3 DEF Place, Inserting
    <2>2. \A n \in 1 .. size : Sequence'[n] = Sequence[n]
      <3>1. \A n \in 1 .. size : n < size + 1
        BY <1>1
      <3> QED
        BY <1>2, <2>1, <3>1 DEF OneMore
    <2> QED
      BY <1>1, <1>2, <2>1, <2>2, AppendIs
  <1>4. CASE call.op = "insert"
    <2>1. /\ Added = call.elem /\ Return("ok") /\ Place = call.at + 1
          /\ call.at <= Len(Sequence)
      BY <1>1, <1>4 DEF Added, Fill, Place, Inserting
    <2>2. Sequence' = SubSeq(Sequence, 1, Place - 1) \o <<Sequence'[Place]>>
                        \o SubSeq(Sequence, Place, Len(Sequence))
      BY <1>1, <1>2, InsertIs
    <2>3. Sequence' = Seqn!InsertAt(Sequence, call.at + 1, call.elem)
      BY <1>2, <2>1, <2>2 DEF Seqn!InsertAt
    <2>4. Seqn!Answer({"insert"}, "ok", Seqn!InsertAt(Sequence, call.at + 1, call.elem))
      BY <1>1, <1>4, <2>1, <2>3, Answers
    <2> QED
      BY <1>2, <2>1, <2>4 DEF Seqn!Next, Seqn!Insert
  <1>5. CASE call.op = "push_back"
    <2>1. Added = call.elem /\ Return("ok")
      BY <1>5 DEF Added, Fill
    <2>2. Seqn!Answer({"push_back"}, "ok", Append(Sequence, call.elem))
      BY <1>1, <1>3, <1>5, <2>1, Answers
    <2> QED
      BY <1>2, <2>1, <2>2 DEF Seqn!Next, Seqn!PushBack
  <1>6. CASE call.op = "copy"
    <2>1. /\ call.ret = "pending" /\ size = i /\ i < Len(call.source)
          /\ \A n \in 1 .. size : Sequence[n] = call.source[n]
      BY <1>1, <1>6, Running DEF ControlShape
    <2>2. Added = call.source[Len(Sequence) + 1] /\ UNCHANGED call
      BY <1>1, <1>6, <2>1 DEF Added, Fill
    <2>3. Seqn!IsStrictPrefix(Sequence, call.source)
      <3>1. call.source \in Seq(Elements) /\ Len(call.source) \in Nat
        BY <1>1, LenProperties DEF CallRecords
      <3>2. size <= Len(call.source) /\ size # Len(call.source)
        BY <1>1, <2>1, <3>1
      <3>3. /\ Len(Sequence) <= Len(call.source)
            /\ SubSeq(Sequence, 1, Len(Sequence)) = SubSeq(call.source, 1, Len(Sequence))
            /\ Sequence # call.source
        BY <1>1, <2>1, <3>1, <3>2, PrefixIs
      <3> QED
        BY <3>3 DEF Seqn!IsStrictPrefix, Seqn!IsPrefix
    <2> QED
      BY <1>3, <1>6, <2>1, <2>2, <2>3 DEF Seqn!Next, Seqn!CopyElement, Seqn!Idle
  <1> QED
    BY <1>1, <1>4, <1>5, <1>6

LEMMA FillFailsStep ==
    ASSUME LiveCopies, FillFails
    PROVE  [Seqn!Next]_Seqn!seqVars
  <1>1. pc = "fill" /\ call.op \in {"push_back", "insert", "copy"}
    BY InvParts DEF FillFails, ControlShape
  <1> QED
    BY <1>1, FillFailsInv, StoppedStep

LEMMA CopyStep ==
    ASSUME LiveCopies, CopyBegin \/ CopyReserve \/ CopyEnd
    PROVE  [Seqn!Next]_Seqn!seqVars
  <1>1. /\ ControlShape /\ call \in CallRecords /\ size \in Nat
        /\ pc \in {"copy", "prepare", "loop"} /\ call.op = "copy"
        /\ call.ret = "pending" /\ Sequence \in [1 .. size -> Elements]
    BY InvParts, Running DEF CopyBegin, CopyReserve, CopyEnd, ControlShape
  <1>2. CASE CopyBegin
    <2>1. Sequence' = <<>> /\ UNCHANGED call
      BY <1>2, CopyBeginInv DEF CopyBegin
    <2>2. CASE Sequence = <<>>
      BY <2>1, <2>2 DEF Seqn!seqVars
    <2>3. CASE Sequence # <<>>
      BY <1>1, <2>1, <2>3 DEF Seqn!Next, Seqn!Discard, Seqn!Idle
    <2> QED
      BY <2>2, <2>3
  <1>3. CASE CopyReserve
    <2>1. Sequence' = Sequence /\ Sequence = <<>> /\ (UNCHANGED call \/ Return("error"))
      BY <1>3, CopyReserveInv
    <2>2. CASE UNCHANGED call
      BY <2>1, <2>2 DEF Seqn!seqVars
    <2>3. CASE Return("error")
      BY <1>1, <2>1, <2>3, StoppedStep
    <2> QED
      BY <2>1, <2>2, <2>3
  <1>4. CASE CopyEnd
    <2>1. Sequence' = Sequence /\ Return("ok")
      BY <1>4, IdleInv DEF CopyEnd
    <2>2. Seqn!Answer({"copy"}, "ok", Sequence)
      BY <1>1, <2>1, Answers
    <2>3. Sequence = call.source
      <3>1. call.source \in Seq(Elements) /\ Len(call.source) \in Nat
        BY <1>1, LenProperties DEF CallRecords
      <3>2. /\ size = i /\ i <= Len(call.source) /\ i >= Len(call.source)
            /\ \A n \in 1 .. size : Sequence[n] = call.source[n]
        BY <1>1, <1>4 DEF CopyEnd, ControlShape
      <3>3. size = Len(call.source)
        BY <1>1, <3>1, <3>2
      <3> QED
        BY <1>1, <3>1, <3>2, <3>3, PrefixIs
    <2> QED
      BY <2>2, <2>3 DEF Seqn!Next, Seqn!CopyEnd
  <1> QED
    BY <1>2, <1>3, <1>4

LEMMA PopStep ==
    ASSUME LiveCopies, Pop
    PROVE  [Seqn!Next]_Seqn!seqVars
  <1>1. pc = "pop_back" /\ call.op = "pop_back" /\ Return("ok")
    BY InvParts DEF Pop, ControlShape
  <1>2. Sequence # <<>> /\ Sequence' = Seqn!Front(Sequence)
    BY PopInv DEF Seqn!Front
  <1>3. Seqn!Answer({"pop_back"}, "ok", Seqn!Front(Sequence))
    BY <1>1, <1>2, Answers
  <1> QED
    BY <1>2, <1>3 DEF Seqn!Next, Seqn!PopBack

LEMMA EraseStep ==
    ASSUME LiveCopies, Erase
    PROVE  [Seqn!Next]_Seqn!seqVars
  <1>1. pc = "erase" /\ call.op = "erase" /\ Return("ok")
    BY InvParts DEF Erase, ControlShape
  <1>2. call.at < Len(Sequence) /\ Sequence' = Seqn!RemoveAt(Sequence, call.at + 1)
    BY EraseInv DEF Seqn!RemoveAt
  <1>3. Seqn!Answer({"erase"}, "ok", Seqn!RemoveAt(Sequence, call.at + 1))
    BY <1>1, <1>2, Answers
  <1> QED
    BY <1>2, <1>3 DEF Seqn!Next, Seqn!Erase

LEMMA SetStep ==
    ASSUME LiveCopies, Set
    PROVE  [Seqn!Next]_Seqn!seqVars
  <1>1. pc = "set" /\ call.op = "set" /\ Return("ok")
    BY InvParts DEF Set, ControlShape
  <1>2. /\ call.elem \in Elements /\ call.at < Len(Sequence)
        /\ Sequence' = Seqn!ReplaceAt(Sequence, call.at + 1, call.elem)
    BY SetInv DEF Seqn!ReplaceAt
  <1>3. Seqn!Answer({"set"}, "ok", Seqn!ReplaceAt(Sequence, call.at + 1, call.elem))
    BY <1>1, <1>2, Answers
  <1> QED
    BY <1>2, <1>3 DEF Seqn!Next, Seqn!Set

LEMMA SortStep ==
    ASSUME LiveCopies, Sort
    PROVE  [Seqn!Next]_Seqn!seqVars
  <1>1. pc = "sort" /\ call.op = "sort" /\ Return("ok")
    BY InvParts DEF Sort, ControlShape
  <1>2. PICK q : Permuted(size, Sequence, Sequence', q) /\ size' = size
    BY SortInv
  <1>3. DOMAIN Sequence = 1 .. size
    BY InvParts
  <1>4. q \in {f \in [DOMAIN Sequence -> DOMAIN Sequence] : Seqn!IsInjective(f)}
    BY <1>2, <1>3 DEF Permuted, Seqn!IsInjective
  <1>5. Sequence' = [n \in DOMAIN Sequence |-> Sequence[q[n]]]
    <2>1. Sequence' = [n \in 1 .. size |-> Sequence'[n]]
      BY <1>2, NextSequence
    <2> QED
      BY <1>2, <1>3, <2>1 DEF Permuted
  <1>6. Seqn!Answer({"sort"}, "ok", [n \in DOMAIN Sequence |-> Sequence[q[n]]])
    BY <1>1, <1>5, Answers
  <1> QED
    BY <1>1, <1>4, <1>6 DEF Seqn!Next, Seqn!Sort

LEMMA ClearStep ==
    ASSUME LiveCopies, Clear
    PROVE  [Seqn!Next]_Seqn!seqVars
  <1>1. pc \in {"clear", "destroy"} /\ call.op \in {"clear", "destroy"} /\ Return("ok")
    BY InvParts DEF Clear, ControlShape
  <1>2. Sequence' = <<>>
    BY ClearInv
  <1>3. Seqn!Answer({"clear", "destroy"}, "ok", <<>>)
    BY <1>1, <1>2, Answers
  <1> QED
    BY <1>3 DEF Seqn!Next, Seqn!Clear

LEMMA NextStep == LiveCopies /\ [Next]_vars => [Seqn!Next]_Seqn!seqVars
  <1> SUFFICES ASSUME LiveCopies, [Next]_vars PROVE [Seqn!Next]_Seqn!seqVars
    OBVIOUS
  <1>1. CASE Shift
    BY <1>1, ShiftInv DEF Shift, Seqn!seqVars
  <1>2. CASE UNCHANGED vars
    <2>1. Sequence' = Sequence /\ UNCHANGED call
      BY <1>2 DEF vars, array, Sequence, Gap, Inserting
    <2> QED
      BY <2>1 DEF Seqn!seqVars
  <1>3. CASE Calls
    BY <1>3, CallsStep
  <1>4. CASE Reserve
    BY <1>4, ReserveStep
  <1>5. CASE AddInvalid \/ PopMissing \/ SetFails \/ EraseMissing
    BY <1>5, IdleStep
  <1>6. CASE MakeRoom
    BY <1>6, MakeRoomStep
  <1>7. CASE Fill
    BY <1>7, FillStep
  <1>8. CASE FillFails
    BY <1>8, FillFailsStep
  <1>9. CASE CopyBegin \/ CopyReserve \/ CopyEnd
    BY <1>9, CopyStep
  <1>10. CASE Pop
    BY <1>10, PopStep
  <1>11. CASE Erase
    BY <1>11, EraseStep
  <1>12. CASE Set
    BY <1>12, SetStep
  <1>13. CASE Sort
    BY <1>13, SortStep
  <1>14. CASE Clear
    BY <1>14, ClearStep
  <1> QED
    BY <1>1, <1>2, <1>3, <1>4, <1>5, <1>6, <1>7, <1>8, <1>9, <1>10, <1>11,
       <1>12, <1>13, <1>14 DEF Next, Body

\* vector.c implements a sequence: through growth, shifted tails and failed
\* copies, every call shows callers a behaviour of SeqSpec.
THEOREM VectorImplementsSequence == Spec => ImplementsSequence
  <1>1. Init => Seqn!Init
    BY InitInv DEF Init, Seqn!Init
  <1>2. Spec => Seqn!Spec
    BY <1>1, LiveCopiesHold, NextStep, PTL DEF Spec, Seqn!Spec
  <1> QED
    BY <1>2 DEF ImplementsSequence

-----------------------------------------------------------------------------
(* Graph: counting what sequences and bags hold *)

\* How often a sequence holds an element.
Count(s, x) == Occurrences(Len(s), s, x)

LEMMA CountIn ==
    ASSUME NEW S, NEW s \in Seq(S), NEW x
    PROVE  /\ Count(s, x) \in Nat
           /\ Count(s, x) = Cardinality({n \in DOMAIN s : s[n] = x})
           /\ Count(s, x) >= 1 <=> \E n \in DOMAIN s : s[n] = x
  <1> DEFINE T == {n \in 1 .. Len(s) : s[n] = x}
  <1>1. Len(s) \in Nat /\ DOMAIN s = 1 .. Len(s)
    BY LenProperties
  <1>2. IsFiniteSet(T) /\ Cardinality(T) \in Nat
    BY <1>1, PositionsFinite
  <1>3. Cardinality(T) = 0 <=> T = {}
    <2> HIDE DEF T
    <2> QED  BY <1>2, FS_EmptySet
  <1>4. Cardinality(T) >= 1 <=> T # {}
    <2> HIDE DEF T
    <2> QED  BY <1>2, <1>3
  <1>5. T # {} <=> \E n \in DOMAIN s : s[n] = x
    BY <1>1
  <1>6. Count(s, x) = Cardinality(T)
    BY DEF Count, Occurrences
  <1>7. T = {n \in DOMAIN s : s[n] = x}
    BY <1>1
  <1> HIDE DEF T
  <1> QED  BY <1>2, <1>4, <1>5, <1>6, <1>7

\* One more element at the end.
LEMMA CountAppended ==
    ASSUME NEW S, NEW s \in Seq(S), NEW y \in S, NEW x
    PROVE  /\ Append(s, y) \in Seq(S) /\ Append(s, y) # <<>>
           /\ Len(Append(s, y)) = Len(s) + 1
           /\ Append(s, y)[Len(s) + 1] = y
           /\ Count(Append(s, y), x) = Count(s, x) + (IF y = x THEN 1 ELSE 0)
  <1> DEFINE m == Len(s)
             t == Append(s, y)
  <1>1. m \in Nat
    BY LenProperties
  <1>2. /\ t \in Seq(S) /\ Len(t) = m + 1 /\ t # <<>>
        /\ \A n \in 1 .. m : t[n] = s[n]
        /\ t[m + 1] = y
    BY AppendProperties
  <1> HIDE DEF t
  <1>3. OneMore(m, s, t, m + 1)
    <2> SUFFICES ASSUME NEW n \in 1 .. m
                 PROVE  t[IF n < m + 1 THEN n ELSE n + 1] = s[n]
      BY DEF OneMore
    <2>1. n < m + 1
      BY <1>1
    <2> QED  BY <1>2, <2>1
  <1>4. m + 1 \in 1 .. m + 1
    BY <1>1
  <1>5. Occurrences(m + 1, t, x) = Occurrences(m, s, x) + (IF t[m + 1] = x THEN 1 ELSE 0)
    <2> HIDE DEF m
    <2> QED  BY <1>1, <1>3, <1>4, CountInsert
  <1> QED  BY <1>2, <1>5 DEF Count, t

\* All but the element at j; in particular all but the last.
LEMMA CountRemoved ==
    ASSUME NEW S, NEW s \in Seq(S), NEW j \in DOMAIN s, NEW x
    PROVE  /\ G!RemoveAt(s, j) \in Seq(S)
           /\ Len(G!RemoveAt(s, j)) = Len(s) - 1
           /\ \A n \in 1 .. Len(s) - 1 :
                 G!RemoveAt(s, j)[n] = IF n < j THEN s[n] ELSE s[n + 1]
           /\ Count(G!RemoveAt(s, j), x) = Count(s, x) - (IF s[j] = x THEN 1 ELSE 0)
  <1> DEFINE m == Len(s) - 1
             t == [n \in 1 .. m |-> IF n < j THEN s[n] ELSE s[n + 1]]
  <1>1. Len(s) \in Nat /\ j \in 1 .. Len(s) /\ s \in [1 .. Len(s) -> S]
    BY LenProperties
  <1>2. m \in Nat /\ m + 1 = Len(s) /\ j \in 1 .. m + 1 /\ j \in Nat /\ s \in [1 .. m + 1 -> S]
    BY <1>1
  <1>3. ASSUME NEW n \in 1 .. m
        PROVE  n \in 1 .. m + 1 /\ n + 1 \in 1 .. m + 1
    BY <1>2
  <1>4. t \in [1 .. m -> S]
    BY <1>2, <1>3
  <1>5. OneMore(m, t, s, j)
    BY <1>3 DEF OneMore
  <1>6. \A n \in 1 .. m : t[n] = IF n < j THEN s[n] ELSE s[n + 1]
    OBVIOUS
  <1> HIDE DEF t, m
  <1>7. t = G!RemoveAt(s, j)
    BY <1>2, <1>4, <1>5, InsertIs DEF G!RemoveAt
  <1>8. t \in Seq(S) /\ Len(t) = m
    BY <1>2, <1>4, SequenceOf
  <1>9. /\ Occurrences(m, t, x) \in Nat
        /\ Occurrences(m + 1, s, x) = Occurrences(m, t, x) + (IF s[j] = x THEN 1 ELSE 0)
    BY <1>2, <1>5, CountInsert
  <1>10. Count(t, x) = Count(s, x) - (IF s[j] = x THEN 1 ELSE 0)
    BY <1>2, <1>8, <1>9 DEF Count
  <1> QED  BY <1>6, <1>7, <1>8, <1>10 DEF m

LEMMA CountFront ==
    ASSUME NEW S, NEW s \in Seq(S), s # <<>>, NEW x
    PROVE  /\ G!Front(s) \in Seq(S)
           /\ Count(G!Front(s), x) = Count(s, x) - (IF s[Len(s)] = x THEN 1 ELSE 0)
  <1> DEFINE m == Len(s) - 1
             t == [n \in 1 .. m |-> s[n]]
  <1>1. Len(s) \in Nat /\ Len(s) # 0 /\ s \in [1 .. Len(s) -> S]
    BY LenProperties, EmptySeq
  <1>2. m \in Nat /\ m + 1 = Len(s) /\ m + 1 \in 1 .. m + 1 /\ s \in [1 .. m + 1 -> S]
    BY <1>1
  <1>3. ASSUME NEW n \in 1 .. m
        PROVE  n \in 1 .. m + 1 /\ n < m + 1
    BY <1>2
  <1>4. t \in [1 .. m -> S]
    BY <1>2, <1>3
  <1>5. OneMore(m, t, s, m + 1) /\ \A n \in 1 .. m : s[n] = t[n]
    BY <1>3 DEF OneMore
  <1> HIDE DEF t, m
  <1>6. t = G!Front(s)
    BY <1>2, <1>4, <1>5, AppendIs DEF G!Front
  <1>7. t \in Seq(S) /\ Len(t) = m
    BY <1>2, <1>4, SequenceOf
  <1>8. /\ Occurrences(m, t, x) \in Nat
        /\ Occurrences(m + 1, s, x) = Occurrences(m, t, x) + (IF s[m + 1] = x THEN 1 ELSE 0)
    BY <1>2, <1>5, CountInsert
  <1>9. Count(t, x) = Count(s, x) - (IF s[Len(s)] = x THEN 1 ELSE 0)
    BY <1>2, <1>7, <1>8 DEF Count
  <1> QED  BY <1>6, <1>7, <1>9

-----------------------------------------------------------------------------
(* Bags *)

\* A bag of edges, with finitely many copies.
Bagged(b) == b \in [DOMAIN b -> Nat \ {0}] /\ IsFiniteSet(G!Each(b))

LEMMA EachIs ==
    ASSUME NEW b
    PROVE  \A p : p \in G!Each(b) <=> \E x \in DOMAIN b : \E n \in 1 .. b[x] : p = <<x, n>>
  BY DEF G!Each

LEMMA CopiesIs ==
    ASSUME NEW b, Bagged(b), NEW x
    PROVE  /\ G!Copies(b, x) \in Nat
           /\ x \in DOMAIN b <=> G!Copies(b, x) >= 1
           /\ G!Copies(b, x) = IF x \in DOMAIN b THEN b[x] ELSE 0
  <1>2. G!Copies(b, x) = IF x \in DOMAIN b THEN b[x] ELSE 0
    BY DEF G!Copies
  <1>3. x \in DOMAIN b => b[x] \in Nat /\ b[x] >= 1
    BY DEF Bagged
  <1> QED  BY <1>2, <1>3

LEMMA EmptyBagged ==
    /\ Bagged(G!NoEdges) /\ DOMAIN G!NoEdges = {}
    /\ Cardinality(G!Each(G!NoEdges)) = 0
  <1>1. DOMAIN G!NoEdges = {} /\ G!NoEdges \in [{} -> Nat \ {0}]
    BY DEF G!NoEdges
  <1>2. G!Each(G!NoEdges) = {}
    BY <1>1, EachIs
  <1> QED  BY <1>1, <1>2, FS_EmptySet DEF Bagged

LEMMA BagAdded ==
    ASSUME NEW b, Bagged(b), NEW x
    PROVE  /\ Bagged(G!BagAdd(b, x))
           /\ DOMAIN G!BagAdd(b, x) = DOMAIN b \cup {x}
           /\ Cardinality(G!Each(b)) \in Nat
           /\ Cardinality(G!Each(G!BagAdd(b, x))) = Cardinality(G!Each(b)) + 1
           /\ \A y : G!Copies(G!BagAdd(b, x), y)
                        = G!Copies(b, y) + (IF x = y THEN 1 ELSE 0)
  <1> DEFINE c == G!BagAdd(b, x)
             N(z) == IF z \in DOMAIN b THEN b[z] ELSE 0
             new == <<x, N(x) + 1>>
  <1>1. /\ DOMAIN c = DOMAIN b \cup {x}
        /\ \A z \in DOMAIN b \cup {x} : c[z] = N(z) + (IF z = x THEN 1 ELSE 0)
    <2>0. \A z \in DOMAIN b : b[z] \in Nat
      BY DEF Bagged
    <2>1. CASE x \in DOMAIN b
      BY <2>0, <2>1 DEF G!BagAdd
    <2>2. CASE x \notin DOMAIN b
      BY <2>0, <2>2 DEF G!BagAdd
    <2> QED  BY <2>1, <2>2
  <1>2. \A z : N(z) \in Nat
    BY DEF Bagged
  <1>3. c \in [DOMAIN c -> Nat \ {0}]
    <2>1. c = [z \in DOMAIN c |-> c[z]]
      BY DEF G!BagAdd
    <2>2. ASSUME NEW z \in DOMAIN c PROVE c[z] \in Nat \ {0}
      <3>1. z \in DOMAIN b \cup {x}
        BY <1>1
      <3>2. c[z] = N(z) + (IF z = x THEN 1 ELSE 0)
        BY <1>1, <3>1
      <3>3. z # x => N(z) # 0
        BY <3>1 DEF Bagged
      <3>4. N(z) \in Nat
        BY <1>2
      <3> HIDE DEF N, c
      <3> QED  BY <3>2, <3>3, <3>4
    <2> HIDE DEF c
    <2> QED  BY <2>1, <2>2
  <1>4. \A p : p \in G!Each(c) <=> p \in G!Each(b) \/ p = new
    <2>1. ASSUME NEW z, NEW n PROVE <<z, n>> \in G!Each(b) <=> n \in 1 .. N(z)
      <3>1. z \notin DOMAIN b => 1 .. N(z) = {}
        OBVIOUS
      <3> QED  BY <3>1, EachIs
    <2>2. ASSUME NEW z, NEW n PROVE <<z, n>> \in G!Each(c) <=> n \in 1 .. N(z) + (IF z = x THEN 1 ELSE 0)
      <3>1. z \notin DOMAIN c => 1 .. N(z) + (IF z = x THEN 1 ELSE 0) = {}
        BY <1>1
      <3>2. z \in DOMAIN c => c[z] = N(z) + (IF z = x THEN 1 ELSE 0)
        BY <1>1
      <3> HIDE DEF c, N
      <3> QED  BY <3>1, <3>2, EachIs
    <2>3. ASSUME NEW z, NEW n
          PROVE  n \in 1 .. N(z) + (IF z = x THEN 1 ELSE 0) <=> n \in 1 .. N(z) \/ <<z, n>> = new
      <3>1. N(z) \in Nat
        BY <1>2
      <3>2. CASE z = x
        <4> HIDE DEF N
        <4> QED  BY <3>1, <3>2
      <3>3. CASE z # x
        <4> HIDE DEF N
        <4> QED  BY <3>1, <3>3
      <3> QED  BY <3>2, <3>3
    <2>4. ASSUME NEW p, p \in G!Each(c) PROVE p \in G!Each(b) \/ p = new
      <3>1. PICK z, n : p = <<z, n>>
        BY <2>4, EachIs
      <3> HIDE DEF new, N, c
      <3> QED  BY <2>1, <2>2, <2>3, <2>4, <3>1
    <2>5. ASSUME NEW p, p \in G!Each(b) PROVE p \in G!Each(c)
      <3>1. PICK z, n : p = <<z, n>>
        BY <2>5, EachIs
      <3> HIDE DEF new, N, c
      <3> QED  BY <2>1, <2>2, <2>3, <2>5, <3>1
    <2>6. new \in G!Each(c)
      <3>1. new = <<x, N(x) + 1>>
        OBVIOUS
      <3> HIDE DEF new, N, c
      <3> QED  BY <2>2, <2>3, <3>1
    <2> HIDE DEF new, c
    <2> QED  BY <2>4, <2>5, <2>6
  <1>5. new \notin G!Each(b)
    <2>1. N(x) \in Nat /\ (x \in DOMAIN b => b[x] = N(x))
      BY <1>2
    <2> HIDE DEF N
    <2>2. \A n \in 1 .. N(x) : n # N(x) + 1
      BY <2>1
    <2> QED  BY <2>1, <2>2, EachIs
  <1>6. IsFiniteSet(G!Each(c)) /\ Cardinality(G!Each(c)) = Cardinality(G!Each(b)) + 1
    <2> HIDE DEF new, c
    <2>1. G!Each(c) = G!Each(b) \cup {new}
      BY <1>4
    <2> QED  BY <1>5, <2>1, FS_AddElement DEF Bagged
  <1>7. Bagged(c)
    BY <1>3, <1>6 DEF Bagged
  <1>8. ASSUME NEW y
        PROVE  G!Copies(c, y) = G!Copies(b, y) + (IF x = y THEN 1 ELSE 0)
    <2>1. G!Copies(b, y) = N(y) /\ N(y) \in Nat
      BY <1>2, CopiesIs
    <2>2. G!Copies(c, y) = IF y \in DOMAIN c THEN c[y] ELSE 0
      BY <1>7, CopiesIs
    <2>3. CASE y \in DOMAIN c
      BY <1>1, <2>1, <2>2, <2>3
    <2>4. CASE y \notin DOMAIN c
      BY <1>1, <2>1, <2>2, <2>4
    <2> QED  BY <2>3, <2>4
  <1>9. Cardinality(G!Each(b)) \in Nat
    BY FS_CardinalityType DEF Bagged
  <1> QED  BY <1>1, <1>6, <1>7, <1>8, <1>9


LEMMA BagRemoved ==
    ASSUME NEW b, Bagged(b), NEW x \in DOMAIN b
    PROVE  /\ Bagged(G!BagRemove(b, x))
           /\ DOMAIN G!BagRemove(b, x) \subseteq DOMAIN b
           /\ Cardinality(G!Each(G!BagRemove(b, x))) = Cardinality(G!Each(b)) - 1
           /\ \A y : /\ G!Copies(b, y) \in Nat
                     /\ G!Copies(b, y) = G!Copies(G!BagRemove(b, x), y)
                                          + (IF x = y THEN 1 ELSE 0)
  <1> DEFINE c == G!BagRemove(b, x)
  <1>1. \A z \in DOMAIN b : b[z] \in Nat /\ b[z] # 0
    BY DEF Bagged
  <1>2. /\ DOMAIN c = IF b[x] = 1 THEN DOMAIN b \ {x} ELSE DOMAIN b
        /\ \A z \in DOMAIN c : c[z] = b[z] - (IF z = x THEN 1 ELSE 0)
        /\ c = [z \in DOMAIN c |-> c[z]]
    <2>1. CASE b[x] = 1
      <3>1. c = [z \in DOMAIN b \ {x} |-> b[z]]
        BY <2>1 DEF G!BagRemove
      <3> HIDE DEF c
      <3> QED  BY <1>1, <2>1, <3>1
    <2>2. CASE b[x] # 1
      <3>1. c = [z \in DOMAIN b |-> IF z = x THEN b[z] - 1 ELSE b[z]]
        BY <2>2 DEF G!BagRemove
      <3> HIDE DEF c
      <3> QED  BY <1>1, <2>2, <3>1
    <2> QED  BY <2>1, <2>2
  <1> HIDE DEF c
  <1>3. \A z \in DOMAIN c : z \in DOMAIN b /\ c[z] \in Nat \ {0} /\ c[z] <= b[z]
    <2> TAKE z \in DOMAIN c
    <2>1. z \in DOMAIN b /\ (b[x] = 1 => z # x)
      BY <1>2
    <2>2. b[z] \in Nat /\ b[z] # 0
      BY <1>1, <2>1
    <2>3. CASE z = x
      <3>1. c[z] = b[z] - 1 /\ b[z] # 1
        BY <1>2, <2>1, <2>3
      <3> QED  BY <2>1, <2>2, <3>1
    <2>4. CASE z # x
      <3>1. c[z] = b[z]
        BY <1>2, <2>2, <2>4
      <3> QED  BY <2>1, <2>2, <3>1
    <2> QED  BY <2>3, <2>4
  <1>4. Bagged(c)
    <2>1. c \in [DOMAIN c -> Nat \ {0}]
      BY <1>2, <1>3
    <2>2. ASSUME NEW p \in G!Each(c) PROVE p \in G!Each(b)
      <3>1. PICK z \in DOMAIN c : \E n \in 1 .. c[z] : p = <<z, n>>
        BY EachIs
      <3>2. PICK n \in 1 .. c[z] : p = <<z, n>>
        BY <3>1
      <3>3. z \in DOMAIN b /\ c[z] \in Nat /\ c[z] <= b[z] /\ b[z] \in Nat
        BY <1>1, <1>3
      <3>4. n \in 1 .. b[z]
        BY <3>3
      <3> QED  BY <3>2, <3>3, <3>4, EachIs
    <2> QED  BY <2>1, <2>2, FS_Subset, G!Each(c) \subseteq G!Each(b) DEF Bagged
  <1>5. b = G!BagAdd(c, x)
    <2> DEFINE d == G!BagAdd(c, x)
    <2>1. b[x] \in Nat /\ b[x] # 0 /\ (x \in DOMAIN c <=> b[x] # 1)
      BY <1>1, <1>2
    <2>2. /\ DOMAIN d = DOMAIN b
          /\ d = [z \in DOMAIN d |-> d[z]]
          /\ \A z \in DOMAIN d : d[z] = (IF z \in DOMAIN c THEN c[z] ELSE 0) + (IF z = x THEN 1 ELSE 0)
      <3>1. CASE x \in DOMAIN c
        BY <1>2, <1>3, <2>1, <3>1 DEF G!BagAdd
      <3>2. CASE x \notin DOMAIN c
        BY <1>2, <1>3, <2>1, <3>2 DEF G!BagAdd
      <3> QED  BY <3>1, <3>2
    <2> HIDE DEF d
    <2>3. ASSUME NEW z \in DOMAIN d PROVE d[z] = b[z]
      <3>1. z \in DOMAIN b /\ b[z] \in Nat
        BY <1>1, <2>2
      <3>2. CASE z = x /\ b[x] = 1
        BY <1>2, <2>1, <2>2, <3>1, <3>2
      <3>3. CASE ~(z = x /\ b[x] = 1)
        <4>1. z \in DOMAIN c
          BY <1>2, <3>1, <3>3
        <4>2. c[z] = b[z] - (IF z = x THEN 1 ELSE 0) /\ d[z] = c[z] + (IF z = x THEN 1 ELSE 0)
          BY <1>2, <2>2, <4>1
        <4> QED  BY <3>1, <4>2
      <3> QED  BY <3>2, <3>3
    <2>4. b = [z \in DOMAIN b |-> b[z]]
      BY DEF Bagged
    <2> QED  BY <2>2, <2>3, <2>4 DEF d
  <1>6. \A z \in DOMAIN c : z \in DOMAIN b
    BY <1>3
  <1>7. /\ Cardinality(G!Each(c)) \in Nat
        /\ Cardinality(G!Each(b)) = Cardinality(G!Each(c)) + 1
        /\ \A y : G!Copies(b, y) = G!Copies(c, y) + (IF x = y THEN 1 ELSE 0)
    <2>1. Cardinality(G!Each(c)) \in Nat
      BY <1>4, BagAdded
    <2>2. Cardinality(G!Each(G!BagAdd(c, x))) = Cardinality(G!Each(c)) + 1
      BY <1>4, BagAdded
    <2>3. \A y : G!Copies(G!BagAdd(c, x), y) = G!Copies(c, y) + (IF x = y THEN 1 ELSE 0)
      BY <1>4, BagAdded
    <2> QED  BY <1>5, <2>1, <2>2, <2>3
  <1>8. Cardinality(G!Each(c)) = Cardinality(G!Each(b)) - 1
    BY <1>7
  <1>9. \A y : G!Copies(b, y) \in Nat
    BY CopiesIs
  <1> QED  BY <1>4, <1>6, <1>7, <1>8, <1>9 DEF c

-----------------------------------------------------------------------------
(* Graph: what the vectors hold *)

One(P) == IF P THEN 1 ELSE 0

Hop(n) == [to : 0 .. n - 1, weight : Weights]
Lists(n) == [0 .. n - 1 -> Seq(Hop(n))]
WithHalf(a, f) == [a EXCEPT ![f.from] = Append(@, G!Half(f))]
WithVector(a, v, t) == [a EXCEPT ![v] = t]
EdgesOf(n) == [from : 0 .. n - 1, to : 0 .. n - 1, weight : Weights]

\* How many halves of e the vectors hold when the caller has the edges of es.
Due(isDirected, es, e) ==
    (IF e.from = e.to /\ ~isDirected THEN 2 ELSE 1) * G!Copies(es, G!Named(isDirected, e))

\* What the invariant says: the vectors hold the halves that are due, and
\* between the two pushes of an edge its first half in excess.
GraphTypes ==
    /\ graphPc \in {"idle", "half", "failed"}
    /\ vertex_count \in Nat /\ directed \in BOOLEAN
    /\ Bagged(edges) /\ DOMAIN edges \subseteq G!AllNamed(directed, vertex_count)
    /\ edge_count = Cardinality(G!Each(edges))

HalfPushed ==
    /\ ~directed
    /\ graphCall \in EdgesOf(vertex_count)
    /\ adj[graphCall.from] # <<>>
    /\ adj[graphCall.from][Len(adj[graphCall.from])] = G!Half(graphCall)

HalvesDue ==
    /\ adj \in Lists(vertex_count)
    /\ \A e \in EdgesOf(vertex_count) :
          Count(adj[e.from], G!Half(e))
              = Due(directed, edges, e) + One(graphPc = "half" /\ e = graphCall)

GraphInv ==
    /\ GraphTypes
    /\ graphPc = "half" => HalfPushed
    /\ graphPc # "failed" => HalvesDue

LEMMA DueIs ==
    ASSUME NEW isDirected, NEW es, Bagged(es), NEW e
    PROVE  /\ Due(isDirected, es, e) \in Nat
           /\ e.from = e.to /\ ~isDirected =>
                 Due(isDirected, es, e) = 2 * G!Copies(es, G!Named(isDirected, e))
           /\ ~(e.from = e.to /\ ~isDirected) =>
                 Due(isDirected, es, e) = G!Copies(es, G!Named(isDirected, e))
  <1> DEFINE c == G!Copies(es, G!Named(isDirected, e))
  <1>1. c \in Nat
    BY CopiesIs
  <1> HIDE DEF c
  <1>2. Due(isDirected, es, e) = (IF e.from = e.to /\ ~isDirected THEN 2 ELSE 1) * c
    BY DEF Due, c
  <1>3. CASE e.from = e.to /\ ~isDirected
    BY <1>1, <1>2, <1>3 DEF c
  <1>4. CASE ~(e.from = e.to /\ ~isDirected)
    BY <1>1, <1>2, <1>4 DEF c
  <1> QED  BY <1>3, <1>4

\* A vertex and what its vector holds make an edge.
LEMMA SameHalf ==
    ASSUME NEW n, NEW e \in EdgesOf(n), NEW f \in EdgesOf(n)
    PROVE  e = f <=> e.from = f.from /\ G!Half(e) = G!Half(f)
  <1>1. e = f <=> e.from = f.from /\ e.to = f.to /\ e.weight = f.weight
    BY DEF EdgesOf
  <1>2. G!Half(e) = G!Half(f) <=> e.to = f.to /\ e.weight = f.weight
    BY DEF G!Half
  <1> QED  BY <1>1, <1>2

\* An edge has one half at each of its ends.
LEMMA NamedTwice ==
    ASSUME NEW n, NEW isDirected \in BOOLEAN,
           NEW e \in EdgesOf(n), NEW f \in EdgesOf(n)
    PROVE  /\ isDirected => (G!Named(isDirected, e) = G!Named(isDirected, f) <=> e = f)
           /\ ~isDirected => (G!Named(isDirected, e) = G!Named(isDirected, f)
                                <=> e = f \/ e = G!Backward(f))
           /\ e = f <=> e.from = f.from /\ e.to = f.to /\ e.weight = f.weight
           /\ e = G!Backward(f) <=> e.from = f.to /\ e.to = f.from /\ e.weight = f.weight
           /\ G!Backward(f) \in EdgesOf(n) /\ G!Half(f) \in Hop(n)
  <1> DEFINE b == G!Backward(f)
  <1>1. \A x, y \in EdgesOf(n) : x = y <=> x.from = y.from /\ x.to = y.to /\ x.weight = y.weight
    BY DEF EdgesOf
  <1>2. /\ b \in EdgesOf(n)
        /\ b.from = f.to /\ b.to = f.from /\ b.weight = f.weight
        /\ G!Half(f) \in Hop(n)
    BY DEF G!Edge, G!Backward, G!Half, EdgesOf, Hop
  <1>3. e = b <=> e.from = f.to /\ e.to = f.from /\ e.weight = f.weight
    <2> HIDE DEF b
    <2> QED  BY <1>1, <1>2
  <1>4. isDirected => (G!Named(isDirected, e) = G!Named(isDirected, f) <=> e = f)
    BY <1>1 DEF G!Named
  <1>5. ASSUME ~isDirected
        PROVE  G!Named(isDirected, e) = G!Named(isDirected, f) <=> e = f \/ e = b
    <2>1. /\ G!Named(isDirected, e) = [ends |-> {e.from, e.to}, weight |-> e.weight]
          /\ G!Named(isDirected, f) = [ends |-> {f.from, f.to}, weight |-> f.weight]
      BY <1>5 DEF G!Named
    <2>2. {e.from, e.to} = {f.from, f.to}
             <=> (e.from = f.from /\ e.to = f.to) \/ (e.from = f.to /\ e.to = f.from)
      OBVIOUS
    <2>3. \A x, y, w, z : [ends |-> x, weight |-> w] = [ends |-> y, weight |-> z] <=> x = y /\ w = z
      OBVIOUS
    <2>4. e = f <=> e.from = f.from /\ e.to = f.to /\ e.weight = f.weight
      BY <1>1
    <2>5. G!Named(isDirected, e) = G!Named(isDirected, f)
             <=> {e.from, e.to} = {f.from, f.to} /\ e.weight = f.weight
      BY <2>1, <2>3
    <2> HIDE DEF b
    <2> QED  BY <1>3, <2>2, <2>4, <2>5
  <1>6. e = f <=> e.from = f.from /\ e.to = f.to /\ e.weight = f.weight
    BY <1>1
  <1> QED  BY <1>2, <1>3, <1>4, <1>5, <1>6

\* So one more edge f makes as many more halves of e due.
LEMMA DueAdded ==
    ASSUME NEW n, NEW isDirected \in BOOLEAN, NEW es, Bagged(es), NEW es2, Bagged(es2),
           NEW e \in EdgesOf(n), NEW f \in EdgesOf(n),
           G!Copies(es2, G!Named(isDirected, e)) = G!Copies(es, G!Named(isDirected, e))
                  + (IF G!Named(isDirected, f) = G!Named(isDirected, e) THEN 1 ELSE 0)
    PROVE  /\ Due(isDirected, es, e) \in Nat
           /\ Due(isDirected, es2, e) = Due(isDirected, es, e)
                  + One(e = f) + One(~isDirected /\ e = G!Backward(f))
  <1> DEFINE a == G!Copies(es, G!Named(isDirected, e))
             b == G!Copies(es2, G!Named(isDirected, e))
             d == Due(isDirected, es, e)
             d2 == Due(isDirected, es2, e)
             same == G!Named(isDirected, f) = G!Named(isDirected, e)
             loop == e.from = e.to /\ ~isDirected
             s1 == One(same)
             s2 == One(e = f)
             s3 == One(~isDirected /\ e = G!Backward(f))
  <1>1. a \in Nat /\ b \in Nat /\ b = a + s1
    BY CopiesIs DEF One
  <1>2. /\ loop => d = 2 * a /\ d2 = 2 * b
        /\ ~loop => d = a /\ d2 = b
        /\ d \in Nat
    BY DueIs
  <1>3. /\ isDirected => (same <=> e = f)
        /\ ~isDirected => (same <=> e = f \/ e = G!Backward(f))
        /\ e.from = e.to => (e = f <=> e = G!Backward(f))
        /\ e.from # e.to => ~(e = f /\ e = G!Backward(f))
    <2>1. /\ isDirected => (G!Named(isDirected, e) = G!Named(isDirected, f) <=> e = f)
          /\ ~isDirected => (G!Named(isDirected, e) = G!Named(isDirected, f)
                                    <=> e = f \/ e = G!Backward(f))
          /\ e = f <=> e.from = f.from /\ e.to = f.to /\ e.weight = f.weight
          /\ e = G!Backward(f) <=> e.from = f.to /\ e.to = f.from /\ e.weight = f.weight
      BY NamedTwice
    <2> QED  BY <2>1
  <1>4. /\ s1 = (IF same THEN 1 ELSE 0) /\ s2 = (IF e = f THEN 1 ELSE 0)
        /\ s3 = (IF ~isDirected /\ e = G!Backward(f) THEN 1 ELSE 0)
    BY DEF One
  <1>5. /\ loop => s2 + s3 = 2 * s1
        /\ ~loop => s2 + s3 = s1
        /\ s1 \in Nat /\ s2 \in Nat /\ s3 \in Nat
    <2> HIDE DEF same, s1, s2, s3
    <2>1. CASE isDirected
      BY <1>3, <1>4, <2>1
    <2>2. CASE ~isDirected /\ e.from = e.to
      BY <1>3, <1>4, <2>2
    <2>3. CASE ~isDirected /\ e.from # e.to
      BY <1>3, <1>4, <2>3
    <2> QED  BY <2>1, <2>2, <2>3
  <1>6. d2 = d + s2 + s3
    <2> HIDE DEF a, b, d, d2, loop, s1, s2, s3
    <2> QED  BY <1>1, <1>2, <1>5
  <1> QED  BY <1>2, <1>6

\* A half of f goes to the end of its vector, or one of them goes.
LEMMA HalfPushes ==
    ASSUME NEW n, NEW a \in Lists(n), NEW f \in EdgesOf(n),
           NEW b, b = WithHalf(a, f)
    PROVE  /\ b \in Lists(n)
           /\ b[f.from] # <<>> /\ b[f.from][Len(b[f.from])] = G!Half(f)
           /\ \A e \in EdgesOf(n) :
                 /\ Count(a[e.from], G!Half(e)) \in Nat
                 /\ Count(b[e.from], G!Half(e)) = Count(a[e.from], G!Half(e)) + One(e = f)
  <1>1. f.from \in 0 .. n - 1 /\ G!Half(f) \in Hop(n) /\ a[f.from] \in Seq(Hop(n))
    BY DEF EdgesOf, Hop, G!Half, Lists
  <1> DEFINE s == a[f.from]
             t == Append(s, G!Half(f))
  <1>2. b = [v \in 0 .. n - 1 |-> IF v = f.from THEN t ELSE a[v]]
    BY DEF Lists, WithHalf
  <1>3. /\ t \in Seq(Hop(n)) /\ t # <<>> /\ t[Len(t)] = G!Half(f)
        /\ \A x : Count(t, x) = Count(s, x) + (IF G!Half(f) = x THEN 1 ELSE 0)
    BY <1>1, CountAppended
  <1> HIDE DEF t
  <1>4. b \in Lists(n) /\ b[f.from] = t
    BY <1>1, <1>2, <1>3 DEF Lists
  <1>5. ASSUME NEW e \in EdgesOf(n)
        PROVE  /\ Count(a[e.from], G!Half(e)) \in Nat
               /\ Count(b[e.from], G!Half(e)) = Count(a[e.from], G!Half(e)) + One(e = f)
    <2>1. e.from \in 0 .. n - 1 /\ a[e.from] \in Seq(Hop(n))
      BY DEF EdgesOf, Lists
    <2>2. Count(a[e.from], G!Half(e)) \in Nat
      BY <2>1, CountIn
    <2>3. e = f <=> e.from = f.from /\ G!Half(e) = G!Half(f)
      BY SameHalf
    <2>4. b[e.from] = IF e.from = f.from THEN t ELSE a[e.from]
      BY <1>2, <2>1
    <2>5. CASE e.from = f.from
      BY <1>3, <2>2, <2>3, <2>4, <2>5 DEF One
    <2>6. CASE e.from # f.from
      BY <2>2, <2>3, <2>4, <2>6 DEF One
    <2> QED  BY <2>2, <2>5, <2>6
  <1> QED  BY <1>3, <1>4, <1>5

LEMMA HalfGoes ==
    ASSUME NEW n, NEW a \in Lists(n), NEW f \in EdgesOf(n),
           NEW t \in Seq(Hop(n)),
           \A x : Count(t, x) = Count(a[f.from], x) - (IF G!Half(f) = x THEN 1 ELSE 0),
           NEW b, b = WithVector(a, f.from, t)
    PROVE  /\ b \in Lists(n) /\ b[f.from] = t
           /\ \A e \in EdgesOf(n) :
                 /\ Count(a[e.from], G!Half(e)) \in Nat
                 /\ Count(b[e.from], G!Half(e)) = Count(a[e.from], G!Half(e)) - One(e = f)
  <1>1. f.from \in 0 .. n - 1
    BY DEF EdgesOf
  <1>2. b = [v \in 0 .. n - 1 |-> IF v = f.from THEN t ELSE a[v]]
    BY DEF Lists, WithVector
  <1>4. b \in Lists(n) /\ b[f.from] = t
    BY <1>1, <1>2 DEF Lists
  <1>5. ASSUME NEW e \in EdgesOf(n)
        PROVE  /\ Count(a[e.from], G!Half(e)) \in Nat
               /\ Count(b[e.from], G!Half(e)) = Count(a[e.from], G!Half(e)) - One(e = f)
    <2>1. e.from \in 0 .. n - 1 /\ a[e.from] \in Seq(Hop(n))
      BY DEF EdgesOf, Lists
    <2>2. Count(a[e.from], G!Half(e)) \in Nat
      BY <2>1, CountIn
    <2>3. e = f <=> e.from = f.from /\ G!Half(e) = G!Half(f)
      BY SameHalf
    <2>4. b[e.from] = IF e.from = f.from THEN t ELSE a[e.from]
      BY <1>2, <2>1
    <2>5. CASE e.from = f.from
      BY <2>2, <2>3, <2>4, <2>5 DEF One
    <2>6. CASE e.from # f.from
      BY <2>2, <2>3, <2>4, <2>6 DEF One
    <2> QED  BY <2>2, <2>5, <2>6
  <1> QED  BY <1>4, <1>5

-----------------------------------------------------------------------------
(* Graph: the search for an edge *)

\* graph_find_directed_edge finds the first such half behind a position.
LEMMA FindsFirst ==
    ASSUME NEW n, adj \in Lists(n), NEW e \in EdgesOf(n),
           NEW start \in Nat, NEW k, k = G!FindFrom(e, start)
    PROVE  \/ /\ k = 0
              /\ \A j \in DOMAIN adj[e.from] : j > start => adj[e.from][j] # G!Half(e)
           \/ /\ k \in DOMAIN adj[e.from] /\ k > start /\ k # 0 /\ k \in Nat
              /\ adj[e.from][k] = G!Half(e)
              /\ \A j \in DOMAIN adj[e.from] :
                    j > start /\ adj[e.from][j] = G!Half(e) => k <= j
  <1> DEFINE s == adj[e.from]
             hits == {j \in DOMAIN s : j > start /\ s[j] = G!Half(e)}
  <1>1. s \in Seq(Hop(n))
    BY DEF EdgesOf, Lists
  <1>2. DOMAIN s = 1 .. Len(s) /\ Len(s) \in Nat
    BY <1>1, LenProperties
  <1>3. k = IF hits = {} THEN 0 ELSE CHOOSE j \in hits : \A l \in hits : j <= l
    BY DEF G!FindFrom, G!NotFound
  <1>4. CASE hits = {}
    BY <1>3, <1>4
  <1>5. CASE hits # {}
    <2>1. hits \subseteq Nat
      BY <1>2
    <2>2. \E j \in hits : \A l \in hits : j <= l
      <3> HIDE DEF hits
      <3> QED  BY <1>5, <2>1, LeastNatural
    <2>3. k \in hits /\ \A l \in hits : k <= l
      <3> HIDE DEF hits
      <3> QED  BY <1>3, <1>5, <2>2
    <2>4. k \in DOMAIN s /\ k > start /\ s[k] = G!Half(e) /\ k \in 1 .. Len(s)
      BY <1>2, <2>3
    <2>5. k \in Nat /\ k # 0
      BY <1>2, <2>4
    <2> QED  BY <2>3, <2>4, <2>5
  <1> QED  BY <1>4, <1>5

\* Of two halves one comes after the first.
LEMMA SecondFollows ==
    ASSUME NEW S, NEW s \in Seq(S), NEW x, Count(s, x) >= 2,
           NEW k \in DOMAIN s, \A j \in DOMAIN s : s[j] = x => k <= j
    PROVE  \E j \in DOMAIN s : j > k /\ s[j] = x
  <1> SUFFICES ASSUME \A j \in DOMAIN s : j > k => s[j] # x
               PROVE  FALSE
    OBVIOUS
  <1> DEFINE T == {j \in DOMAIN s : s[j] = x}
  <1>1. Count(s, x) = Cardinality(T)
    BY CountIn
  <1>2. DOMAIN s = 1 .. Len(s) /\ Len(s) \in Nat /\ DOMAIN s \subseteq Int
    BY LenProperties
  <1>3. \A j \in T : j = k
    <2> TAKE j \in T
    <2>1. j \in DOMAIN s /\ j \in Int /\ k \in Int /\ k <= j /\ ~(j > k)
      BY <1>2
    <2> HIDE DEF T
    <2> QED  BY <2>1
  <1>4. IsFiniteSet({k}) /\ Cardinality({k}) = 1
    BY FS_Singleton
  <1>5. Cardinality(T) <= 1 /\ Cardinality(T) \in Nat
    <2>1. T \subseteq {k}
      BY <1>3
    <2> HIDE DEF T
    <2> QED  BY <1>4, <2>1, FS_Subset, FS_CardinalityType
  <1> HIDE DEF T
  <1> QED  BY <1>1, <1>5

\* What the two searches find when there is an edge, and that they do.
LEMMA EdgeFound ==
    ASSUME GraphTypes, HalvesDue, graphPc = "idle", NEW e \in EdgesOf(vertex_count)
    PROVE  /\ G!Exists(e) <=> G!Named(directed, e) \in DOMAIN edges
           /\ G!Exists(e) =>
                 /\ G!FromIndex(e) \in DOMAIN adj[e.from]
                 /\ adj[e.from][G!FromIndex(e)] = G!Half(e)
           /\ G!Exists(e) /\ ~directed =>
                 /\ G!ToIndex(e) \in DOMAIN adj[e.to]
                 /\ adj[e.to][G!ToIndex(e)] = G!Half(G!Backward(e))
                 /\ e.from = e.to => G!ToIndex(e) > G!FromIndex(e)
  <1> DEFINE n == vertex_count
             r == G!Backward(e)
             k == G!FromIndex(e)
             l == G!ToIndex(e)
             c == G!Copies(edges, G!Named(directed, e))
  <1>1. /\ adj \in Lists(n)
        /\ \A f \in EdgesOf(n) : Count(adj[f.from], G!Half(f)) = Due(directed, edges, f) + 0
        /\ directed \in BOOLEAN /\ Bagged(edges)
    BY DEF GraphTypes, HalvesDue, One
  <1>2. /\ r \in EdgesOf(n) /\ r.from = e.to /\ r.to = e.from
        /\ ~directed => G!Named(directed, r) = G!Named(directed, e)
        /\ e.from = e.to => r = e
    <2>1. r \in EdgesOf(n) /\ r.from = e.to /\ r.to = e.from /\ r.weight = e.weight
      BY DEF EdgesOf, G!Backward, G!Edge
    <2>2. e = r <=> e.from = e.to /\ e.to = e.from /\ e.weight = e.weight
      BY <1>1, NamedTwice
    <2>3. ~directed => G!Named(directed, r) = G!Named(directed, e)
      <3>1. {r.from, r.to} = {e.from, e.to}
        BY <2>1
      <3> HIDE DEF r
      <3> QED  BY <2>1, <3>1 DEF G!Named
    <2> QED  BY <2>1, <2>2, <2>3
  <1>3. c \in Nat /\ (G!Named(directed, e) \in DOMAIN edges <=> c >= 1)
    BY <1>1, CopiesIs
  <1>4. /\ e.from = e.to /\ ~directed => Count(adj[e.from], G!Half(e)) = 2 * c
        /\ ~(e.from = e.to /\ ~directed) => Count(adj[e.from], G!Half(e)) = c
        /\ e.from # e.to /\ ~directed => Count(adj[e.to], G!Half(r)) = c
    <2>1. /\ Due(directed, edges, e) \in Nat /\ Due(directed, edges, r) \in Nat
          /\ e.from = e.to /\ ~directed => Due(directed, edges, e) = 2 * c
          /\ ~(e.from = e.to /\ ~directed) => Due(directed, edges, e) = c
          /\ e.from # e.to /\ ~directed => Due(directed, edges, r) = c
      <3> HIDE DEF r
      <3> QED  BY <1>1, <1>2, DueIs
    <2>2. /\ Count(adj[e.from], G!Half(e)) = Due(directed, edges, e)
          /\ Count(adj[e.to], G!Half(r)) = Due(directed, edges, r)
      <3> HIDE DEF r, c
      <3> QED  BY <1>1, <1>2, <2>1
    <2> HIDE DEF c, r
    <2> QED  BY <2>1, <2>2
  <1>5. /\ adj[e.from] \in Seq(Hop(n)) /\ adj[e.to] \in Seq(Hop(n))
        /\ DOMAIN adj[e.from] \subseteq Nat \ {0} /\ DOMAIN adj[e.to] \subseteq Nat \ {0}
    <2>1. adj[e.from] \in Seq(Hop(n)) /\ adj[e.to] \in Seq(Hop(n))
      BY <1>1 DEF EdgesOf, Lists
    <2> QED  BY <2>1, LenProperties
  <1>6. /\ Count(adj[e.from], G!Half(e)) >= 1 <=>
              \E j \in DOMAIN adj[e.from] : adj[e.from][j] = G!Half(e)
        /\ Count(adj[e.to], G!Half(r)) >= 1 <=>
              \E j \in DOMAIN adj[e.to] : adj[e.to][j] = G!Half(r)
    BY <1>5, CountIn
  <1>7. \/ /\ k = 0 /\ \A j \in DOMAIN adj[e.from] : adj[e.from][j] # G!Half(e)
        \/ /\ k \in DOMAIN adj[e.from] /\ k # 0 /\ k \in Nat /\ adj[e.from][k] = G!Half(e)
           /\ \A j \in DOMAIN adj[e.from] : adj[e.from][j] = G!Half(e) => k <= j
    <2>1. k = G!FindFrom(e, 0)
      BY DEF G!FromIndex
    <2>2. \A j \in DOMAIN adj[e.from] : j > 0
      BY <1>5
    <2> HIDE DEF k
    <2>3. \/ /\ k = 0
             /\ \A j \in DOMAIN adj[e.from] : j > 0 => adj[e.from][j] # G!Half(e)
          \/ /\ k \in DOMAIN adj[e.from] /\ k > 0 /\ k # 0 /\ k \in Nat
             /\ adj[e.from][k] = G!Half(e)
             /\ \A j \in DOMAIN adj[e.from] :
                   j > 0 /\ adj[e.from][j] = G!Half(e) => k <= j
      BY <1>1, <2>1, FindsFirst
    <2> QED  BY <2>2, <2>3
  <1>8. k # 0 <=> c >= 1
    <2> HIDE DEF k, l, c, r, n
    <2>1. k # 0 <=> Count(adj[e.from], G!Half(e)) >= 1
      BY <1>6, <1>7
    <2>2. Count(adj[e.from], G!Half(e)) = c \/ Count(adj[e.from], G!Half(e)) = 2 * c
      BY <1>4
    <2> QED  BY <1>3, <2>1, <2>2
  <1>9. ASSUME ~directed, k # 0
        PROVE  /\ l # 0 /\ l \in DOMAIN adj[e.to] /\ adj[e.to][l] = G!Half(r)
               /\ e.from = e.to => l > k
    <2> DEFINE start == IF e.from = e.to THEN k ELSE 0
    <2>1. l = G!FindFrom(r, start) /\ start \in Nat
      BY <1>7, <1>9 DEF G!ToIndex
    <2>2. \/ /\ l = 0
             /\ \A j \in DOMAIN adj[r.from] : j > start => adj[r.from][j] # G!Half(r)
          \/ /\ l \in DOMAIN adj[r.from] /\ l > start /\ l # 0
             /\ adj[r.from][l] = G!Half(r)
      <3> HIDE DEF r, l, k, start
      <3> QED  BY <1>1, <1>2, <2>1, FindsFirst
    <2>3. \E j \in DOMAIN adj[r.from] : j > start /\ adj[r.from][j] = G!Half(r)
      <3>1. CASE e.from = e.to
        <4>1. Count(adj[e.from], G!Half(e)) >= 2
          <5> HIDE DEF c, k
          <5> QED  BY <1>3, <1>4, <1>8, <1>9, <3>1
        <4>2. k \in DOMAIN adj[e.from]
              /\ \A j \in DOMAIN adj[e.from] : adj[e.from][j] = G!Half(e) => k <= j
          BY <1>7, <1>9
        <4>3. \E j \in DOMAIN adj[e.from] : j > k /\ adj[e.from][j] = G!Half(e)
          <5> HIDE DEF k
          <5> QED  BY <1>5, <4>1, <4>2, SecondFollows
        <4>4. r = e /\ start = k
          BY <1>2, <3>1
        <4> HIDE DEF r, start, k
        <4> QED  BY <4>3, <4>4
      <3>2. CASE e.from # e.to
        <4>1. Count(adj[e.to], G!Half(r)) >= 1
          <5> HIDE DEF c, k, r
          <5> QED  BY <1>3, <1>4, <1>8, <1>9, <3>2
        <4>2. start = 0 /\ r.from = e.to
          BY <1>2, <3>2
        <4> HIDE DEF r, start
        <4>3. \A j \in DOMAIN adj[e.to] : j > 0
          BY <1>5
        <4> QED  BY <1>6, <4>1, <4>2, <4>3
      <3> QED  BY <3>1, <3>2
    <2> HIDE DEF r, l
    <2>4. l \in DOMAIN adj[r.from] /\ l > start /\ l # 0 /\ adj[r.from][l] = G!Half(r)
      <3> HIDE DEF start
      <3> QED  BY <2>2, <2>3
    <2> QED  BY <1>2, <2>4
  <1>10. G!Exists(e) <=> k # 0 /\ (~directed => l # 0)
    BY DEF G!Exists, G!NotFound
  <1>11. G!Exists(e) <=> k # 0
    BY <1>9, <1>10
  <1> QED  BY <1>3, <1>7, <1>8, <1>9, <1>11

\* The instance has an operator of its own by that name.
LEMMA SameNumbers ==
    ASSUME NEW S
    PROVE  G!Cardinality(S) = Cardinality(S) /\ (G!IsFiniteSet(S) <=> IsFiniteSet(S))
  <1>1. G!Cardinality(S) = Cardinality(S)
    BY DEF G!Cardinality, Cardinality
  <1>2. G!IsFiniteSet(S) <=> IsFiniteSet(S)
    BY DEF G!IsFiniteSet, IsFiniteSet
  <1> QED  BY <1>1, <1>2

\* What callers see while the invariant holds.
LEMMA AdjacencyFollows == GraphInv => G!AdjacencyMatches
  <1> SUFFICES ASSUME GraphInv, graphPc = "idle" PROVE G!AdjacencyMatches
    BY DEF G!AdjacencyMatches
  <1>1. GraphTypes /\ HalvesDue
    BY DEF GraphInv
  <1>2. adj \in [G!Vertices -> Seq(Hop(vertex_count))] /\ G!Vertices = 0 .. vertex_count - 1
    BY <1>1 DEF HalvesDue, G!Vertices, Lists
  <1>3. ASSUME NEW from \in G!Vertices, NEW to \in G!Vertices, NEW w \in Weights
        PROVE  /\ G!Halves(adj, G!Edge(from, to, w)) =
                     (IF from = to /\ ~directed THEN 2 ELSE 1)
                     * G!Copies(edges, G!Named(directed, G!Edge(from, to, w)))
               /\ G!Exists(G!Edge(from, to, w))
                     <=> G!Named(directed, G!Edge(from, to, w)) \in DOMAIN edges
               /\ G!Named(directed, G!Edge(from, to, w)) \in DOMAIN edges
                     <=> \E j \in DOMAIN adj[from] : adj[from][j] = [to |-> to, weight |-> w]
    <2>0. PICK e : e = G!Edge(from, to, w)
      OBVIOUS
    <2>1. /\ e \in EdgesOf(vertex_count) /\ e.from = from /\ e.to = to
          /\ G!Half(e) = [to |-> to, weight |-> w]
      BY <1>2, <2>0 DEF G!Edge, EdgesOf, G!Half
    <2>2. Count(adj[from], G!Half(e)) = Due(directed, edges, e)
      <3>1. /\ Count(adj[e.from], G!Half(e))
                  = Due(directed, edges, e) + One(graphPc = "half" /\ e = graphCall)
            /\ Bagged(edges)
        BY <1>1, <2>1 DEF HalvesDue, GraphTypes
      <3>2. One(graphPc = "half" /\ e = graphCall) = 0
        BY DEF One
      <3>3. Due(directed, edges, e) \in Nat
        BY <3>1, DueIs
      <3> QED  BY <2>1, <3>1, <3>2, <3>3
    <2>3. /\ Count(adj[from], G!Half(e))
               = Cardinality({j \in DOMAIN adj[from] : adj[from][j] = G!Half(e)})
          /\ Count(adj[from], G!Half(e)) >= 1 <=>
                \E j \in DOMAIN adj[from] : adj[from][j] = G!Half(e)
      BY <1>2, CountIn
    <2>4. G!Exists(e) <=> G!Named(directed, e) \in DOMAIN edges
      BY <1>1, <2>1, EdgeFound
    <2>5. Due(directed, edges, e) >= 1 <=> G!Named(directed, e) \in DOMAIN edges
      <3> DEFINE c == G!Copies(edges, G!Named(directed, e))
                 d == Due(directed, edges, e)
      <3>1. c \in Nat /\ (G!Named(directed, e) \in DOMAIN edges <=> c >= 1)
        BY <1>1, CopiesIs DEF GraphTypes
      <3>2. d = c \/ d = 2 * c
        BY <1>1, DueIs DEF GraphTypes
      <3> HIDE DEF c, d
      <3> QED  BY <3>1, <3>2 DEF d
    <2>6. G!Halves(adj, e) = Due(directed, edges, e)
      BY <2>1, <2>2, <2>3, SameNumbers DEF G!Halves
    <2>7. G!Halves(adj, e) = (IF from = to /\ ~directed THEN 2 ELSE 1)
                             * G!Copies(edges, G!Named(directed, e))
      BY <2>1, <2>6 DEF Due
    <2>8. G!Named(directed, e) \in DOMAIN edges
             <=> \E j \in DOMAIN adj[from] : adj[from][j] = [to |-> to, weight |-> w]
      BY <2>1, <2>2, <2>3, <2>5
    <2> QED  BY <2>0, <2>4, <2>7, <2>8
  <1>4. ASSUME NEW from \in G!Vertices, NEW to \in G!Vertices
        PROVE  G!HasEdge(from, to) <=>
                  \E w \in Weights : G!Named(directed, G!Edge(from, to, w)) \in DOMAIN edges
    <2>1. G!HasEdge(from, to) <=> \E j \in DOMAIN adj[from] : adj[from][j].to = to
      BY DEF G!HasEdge
    <2>2. ASSUME NEW j \in DOMAIN adj[from], adj[from][j].to = to
          PROVE  \E w \in Weights : adj[from][j] = [to |-> to, weight |-> w]
      <3>1. adj[from] \in Seq(Hop(vertex_count))
        BY <1>2
      <3>2. adj[from][j] \in Hop(vertex_count)
        BY <3>1, LenProperties
      <3>3. adj[from][j].weight \in Weights
            /\ adj[from][j] = [to |-> adj[from][j].to, weight |-> adj[from][j].weight]
        BY <3>2 DEF Hop
      <3> QED  BY <2>2, <3>3
    <2>3. ASSUME NEW w \in Weights
          PROVE  G!Named(directed, G!Edge(from, to, w)) \in DOMAIN edges <=>
                   \E j \in DOMAIN adj[from] : adj[from][j] = [to |-> to, weight |-> w]
      BY <1>3
    <2>4. \A h, w : h = [to |-> to, weight |-> w] => h.to = to
      OBVIOUS
    <2>5. ASSUME NEW j \in DOMAIN adj[from], adj[from][j].to = to
          PROVE  \E w \in Weights : G!Named(directed, G!Edge(from, to, w)) \in DOMAIN edges
      BY <2>2, <2>3, <2>5
    <2>6. ASSUME NEW w \in Weights, G!Named(directed, G!Edge(from, to, w)) \in DOMAIN edges
          PROVE  \E j \in DOMAIN adj[from] : adj[from][j].to = to
      BY <2>3, <2>4, <2>6
    <2> QED  BY <2>1, <2>5, <2>6
  <1>5. G!IsGraph([size |-> vertex_count, count |-> edge_count,
                   directed |-> directed, adj |-> adj, edges |-> edges])
    <2> DEFINE g == [size |-> vertex_count, count |-> edge_count,
                     directed |-> directed, adj |-> adj, edges |-> edges]
    <2>1. g.count = Cardinality(G!Each(g.edges)) /\ DOMAIN g.adj = 0 .. g.size - 1
      BY <1>1, <1>2 DEF GraphTypes
    <2>2. ASSUME NEW from \in DOMAIN g.adj, NEW to \in DOMAIN g.adj, NEW w \in Weights
          PROVE  G!Halves(g.adj, G!Edge(from, to, w)) =
                    (IF from = to /\ ~g.directed THEN 2 ELSE 1)
                    * G!Copies(g.edges, G!Named(g.directed, G!Edge(from, to, w)))
      <3>1. from \in G!Vertices /\ to \in G!Vertices
        BY <1>2
      <3>4. g.adj = adj /\ g.directed = directed /\ g.edges = edges
        OBVIOUS
      <3> HIDE DEF g
      <3> QED  BY <1>3, <3>1, <3>4
    <2> HIDE DEF g
    <2>3. \A from, to \in DOMAIN g.adj, w \in Weights :
             G!Halves(g.adj, G!Edge(from, to, w)) =
                (IF from = to /\ ~g.directed THEN 2 ELSE 1)
                * G!Copies(g.edges, G!Named(g.directed, G!Edge(from, to, w)))
      BY <2>2
    <2>4. G!IsGraph(g)
      BY <2>1, <2>3, SameNumbers DEF G!IsGraph
    <2> QED  BY <2>4 DEF g
  <1> QED  BY <1>3, <1>4, <1>5 DEF G!AdjacencyMatches

-----------------------------------------------------------------------------
(* Graph: the invariant is kept *)

\* A whole graph, as calls leave it.
Whole(g) ==
    /\ g.size \in Nat /\ g.directed \in BOOLEAN
    /\ Bagged(g.edges) /\ DOMAIN g.edges \subseteq G!AllNamed(g.directed, g.size)
    /\ g.count = Cardinality(G!Each(g.edges))
    /\ g.adj \in Lists(g.size)
    /\ \A e \in EdgesOf(g.size) :
          Count(g.adj[e.from], G!Half(e)) = Due(g.directed, g.edges, e)

LEMMA WholeBegins ==
    ASSUME NEW g, Whole(g), G!Becomes(g), graphPc' = "idle"
    PROVE  GraphInv'
  <1>1. /\ vertex_count' = g.size /\ edge_count' = g.count /\ directed' = g.directed
        /\ adj' = g.adj /\ edges' = g.edges
    BY DEF G!Becomes
  <1>2. GraphTypes'
    BY <1>1 DEF Whole, GraphTypes
  <1>3. HalvesDue'
    <2>1. adj' \in Lists(vertex_count')
      BY <1>1 DEF Whole
    <2>2. ASSUME NEW e \in EdgesOf(vertex_count')
          PROVE  Count(adj'[e.from], G!Half(e))
                   = Due(directed', edges', e) + One(graphPc' = "half" /\ e = graphCall')
      <3>1. Count(adj'[e.from], G!Half(e)) = Due(directed', edges', e)
        BY <1>1 DEF Whole
      <3>2. Due(directed', edges', e) \in Nat
        BY <1>1, DueIs DEF Whole
      <3>3. One(graphPc' = "half" /\ e = graphCall') = 0
        BY DEF One
      <3> QED  BY <3>1, <3>2, <3>3
    <2> QED  BY <2>1, <2>2 DEF HalvesDue
  <1> QED  BY <1>2, <1>3 DEF GraphInv

LEMMA EmptyWhole ==
    ASSUME NEW isDirected \in BOOLEAN, NEW n \in Nat
    PROVE  Whole(G!Empty(isDirected, n))
  <1> DEFINE g == G!Empty(isDirected, n)
  <1>1. /\ g.directed = isDirected /\ g.size = n /\ g.count = 0
        /\ g.adj = [v \in 0 .. n - 1 |-> <<>>] /\ g.edges = G!NoEdges
    BY DEF G!Empty
  <1> HIDE DEF g
  <1>2. <<>> \in Seq(Hop(n))
    BY EmptySeq
  <1>3. g.adj \in Lists(n)
    BY <1>1, <1>2 DEF Lists
  <1>4. ASSUME NEW e \in EdgesOf(n)
        PROVE  Count(g.adj[e.from], G!Half(e)) = Due(isDirected, G!NoEdges, e)
    <2>1. g.adj[e.from] = <<>>
      BY <1>1 DEF EdgesOf
    <2>2. /\ Count(<<>>, G!Half(e)) \in Nat
          /\ Count(<<>>, G!Half(e)) >= 1 <=> \E j \in DOMAIN <<>> : <<>>[j] = G!Half(e)
      BY <1>2, CountIn
    <2>3. ~ \E j \in DOMAIN <<>> : <<>>[j] = G!Half(e)
      OBVIOUS
    <2>4. Count(<<>>, G!Half(e)) = 0
      BY <2>2, <2>3
    <2>5. G!Copies(G!NoEdges, G!Named(isDirected, e)) = 0
      BY EmptyBagged, CopiesIs
    <2>6. Due(isDirected, G!NoEdges, e) = 0
      BY <2>5, EmptyBagged, DueIs
    <2> QED  BY <2>1, <2>4, <2>6
  <1>5. DOMAIN G!NoEdges \subseteq G!AllNamed(isDirected, n)
    BY EmptyBagged
  <1> QED  BY <1>1, <1>3, <1>4, <1>5, EmptyBagged DEF Whole, g

\* What is assumed of the graphs that callers copy.
LEMMA SourceWhole ==
    ASSUME NEW g \in Graphs
    PROVE  Whole(g)
  <1>1. /\ g.size \in Nat /\ g.directed \in BOOLEAN
        /\ g.adj \in [0 .. g.size - 1 -> Seq([to : 0 .. g.size - 1, weight : Weights])]
        /\ DOMAIN g.edges \subseteq G!AllNamed(g.directed, g.size)
        /\ g.edges \in [DOMAIN g.edges -> Nat \ {0}]
        /\ G!IsFiniteSet(G!Each(g.edges))
        /\ G!IsGraph(g)
    BY GraphsAssumption DEF G!GraphAssumption
  <1>2. g.adj \in Lists(g.size) /\ Bagged(g.edges)
    BY <1>1, SameNumbers DEF Hop, Bagged, Lists
  <1>3. g.count = Cardinality(G!Each(g.edges))
    BY <1>1, SameNumbers DEF G!IsGraph
  <1>4. ASSUME NEW e \in EdgesOf(g.size)
        PROVE  Count(g.adj[e.from], G!Half(e)) = Due(g.directed, g.edges, e)
    <2>1. /\ e.from \in DOMAIN g.adj /\ e.to \in DOMAIN g.adj /\ e.weight \in Weights
          /\ e = G!Edge(e.from, e.to, e.weight)
      BY <1>2 DEF EdgesOf, G!Edge, Lists
    <2>2. G!Halves(g.adj, G!Edge(e.from, e.to, e.weight)) =
             (IF e.from = e.to /\ ~g.directed THEN 2 ELSE 1)
             * G!Copies(g.edges, G!Named(g.directed, G!Edge(e.from, e.to, e.weight)))
      BY <1>1, <2>1 DEF G!IsGraph
    <2>3. G!Halves(g.adj, e) = Due(g.directed, g.edges, e)
      BY <2>1, <2>2 DEF Due
    <2>4. g.adj[e.from] \in Seq(Hop(g.size))
      BY <1>2, <2>1 DEF Lists
    <2>5. Count(g.adj[e.from], G!Half(e))
            = Cardinality({j \in DOMAIN g.adj[e.from] : g.adj[e.from][j] = G!Half(e)})
      BY <2>4, CountIn
    <2>6. G!Halves(g.adj, e)
            = Cardinality({j \in DOMAIN g.adj[e.from] : g.adj[e.from][j] = G!Half(e)})
      BY SameNumbers DEF G!Halves
    <2> QED  BY <2>3, <2>5, <2>6
  <1> QED  BY <1>1, <1>2, <1>3, <1>4 DEF Whole

\* A call that refuses or finds nothing.
LEMMA IdleStays ==
    ASSUME GraphTypes, HalvesDue, graphPc = "idle", graphPc' = "idle",
           UNCHANGED <<vertex_count, edge_count, directed, adj, edges>>
    PROVE  GraphInv'
  <1>1. GraphTypes'
    BY DEF GraphTypes
  <1>2. ASSUME NEW e
        PROVE  One(graphPc = "half" /\ e = graphCall) = One(graphPc' = "half" /\ e = graphCall')
    BY DEF One
  <1>3. HalvesDue'
    BY <1>2 DEF HalvesDue
  <1> QED  BY <1>1, <1>3 DEF GraphInv

\* The edge counts once both its halves, or its only one, are in.
LEMMA AddedWhole ==
    ASSUME GraphTypes, NEW f \in EdgesOf(vertex_count), G!Added(f),
           UNCHANGED <<vertex_count, directed>>,
           adj' \in Lists(vertex_count),
           \A e \in EdgesOf(vertex_count) :
              Count(adj'[e.from], G!Half(e)) = Due(directed, edges, e)
                 + One(e = f) + One(~directed /\ e = G!Backward(f))
    PROVE  GraphInv'
  <1>1. /\ edge_count' = edge_count + 1 /\ graphPc' = "idle"
        /\ edges' = G!BagAdd(edges, G!Named(directed, f))
    BY DEF G!Added, G!Return
  <1>2. /\ Bagged(edges) /\ directed \in BOOLEAN /\ vertex_count \in Nat
        /\ DOMAIN edges \subseteq G!AllNamed(directed, vertex_count)
        /\ edge_count = Cardinality(G!Each(edges))
    BY DEF GraphTypes
  <1>3. /\ Bagged(edges') /\ DOMAIN edges' = DOMAIN edges \cup {G!Named(directed, f)}
        /\ Cardinality(G!Each(edges)) \in Nat
        /\ Cardinality(G!Each(edges')) = Cardinality(G!Each(edges)) + 1
    BY <1>1, <1>2, BagAdded
  <1>4. \A y : G!Copies(edges', y)
                  = G!Copies(edges, y) + (IF G!Named(directed, f) = y THEN 1 ELSE 0)
    <2>1. PICK x : x = G!Named(directed, f)
      OBVIOUS
    <2>2. Bagged(edges)
      BY <1>2
    <2>3. \A y : G!Copies(G!BagAdd(edges, x), y)
                  = G!Copies(edges, y) + (IF x = y THEN 1 ELSE 0)
      BY ONLY <2>2, BagAdded, Zenon
    <2> QED  BY <1>1, <2>1, <2>3
  <1>5. G!Named(directed, f) \in G!AllNamed(directed, vertex_count)
    <2>1. f = G!Edge(f.from, f.to, f.weight) /\ f.from \in 0 .. vertex_count - 1
          /\ f.to \in 0 .. vertex_count - 1 /\ f.weight \in Weights
      BY DEF EdgesOf, G!Edge
    <2> QED  BY <2>1 DEF G!AllNamed
  <1>6. GraphTypes'
    BY <1>1, <1>2, <1>3, <1>5 DEF GraphTypes
  <1>7. ASSUME NEW e \in EdgesOf(vertex_count)
        PROVE  Count(adj'[e.from], G!Half(e))
                 = Due(directed', edges', e) + One(graphPc' = "half" /\ e = graphCall')
    <2>1. G!Copies(edges', G!Named(directed, e)) = G!Copies(edges, G!Named(directed, e))
             + (IF G!Named(directed, f) = G!Named(directed, e) THEN 1 ELSE 0)
      BY <1>4
    <2>2. Due(directed, edges', e) = Due(directed, edges, e)
                  + One(e = f) + One(~directed /\ e = G!Backward(f))
      BY <1>2, <1>3, <2>1, DueAdded
    <2>3. Due(directed, edges', e) \in Nat
      BY <1>3, DueIs
    <2>4. One(graphPc' = "half" /\ e = graphCall') = 0
      BY <1>1 DEF One
    <2> QED  BY <2>2, <2>3, <2>4
  <1>8. HalvesDue'
    BY <1>7 DEF HalvesDue
  <1> QED  BY <1>1, <1>6, <1>8 DEF GraphInv

LEMMA AddsEdge ==
    ASSUME GraphTypes, HalvesDue, graphPc = "idle", NEW f \in EdgesOf(vertex_count),
           G!AddEdge(f)
    PROVE  GraphInv'
  <1>1. /\ adj \in Lists(vertex_count)
        /\ directed \in BOOLEAN
    BY DEF GraphTypes, HalvesDue
  <1>2. /\ adj' = WithHalf(adj, f)
        /\ UNCHANGED <<vertex_count, directed>>
    BY DEF G!AddEdge, G!Pushed, WithHalf
  <1>3. /\ adj' \in Lists(vertex_count)
        /\ adj'[f.from] # <<>> /\ adj'[f.from][Len(adj'[f.from])] = G!Half(f)
        /\ \A e \in EdgesOf(vertex_count) :
              /\ Count(adj[e.from], G!Half(e)) \in Nat
              /\ Count(adj'[e.from], G!Half(e)) = Count(adj[e.from], G!Half(e)) + One(e = f)
    <2>1. /\ adj' \in Lists(vertex_count)
          /\ adj'[f.from] # <<>> /\ adj'[f.from][Len(adj'[f.from])] = G!Half(f)
      BY <1>1, <1>2, HalfPushes
    <2>2. ASSUME NEW e \in EdgesOf(vertex_count)
          PROVE  /\ Count(adj[e.from], G!Half(e)) \in Nat
                 /\ Count(adj'[e.from], G!Half(e))
                       = Count(adj[e.from], G!Half(e)) + One(e = f)
      BY <1>1, <1>2, HalfPushes
    <2> QED  BY <2>1, <2>2
  <1>4. ASSUME NEW e \in EdgesOf(vertex_count)
        PROVE  Count(adj'[e.from], G!Half(e)) = Due(directed, edges, e) + One(e = f)
    <2>1. One(graphPc = "half" /\ e = graphCall) = 0
      BY DEF One
    <2>2. Due(directed, edges, e) \in Nat
      BY DueIs DEF GraphTypes
    <2>3. Count(adj[e.from], G!Half(e))
             = Due(directed, edges, e) + One(graphPc = "half" /\ e = graphCall)
      BY DEF HalvesDue
    <2> QED  BY <1>3, <2>1, <2>2, <2>3
  <1>5. CASE directed
    <2>1. G!Added(f)
      BY <1>5 DEF G!AddEdge
    <2>2. ASSUME NEW e \in EdgesOf(vertex_count)
          PROVE  Count(adj'[e.from], G!Half(e)) = Due(directed, edges, e)
                   + One(e = f) + One(~directed /\ e = G!Backward(f))
      <3>1. One(~directed /\ e = G!Backward(f)) = 0
        BY <1>5 DEF One
      <3>2. Due(directed, edges, e) \in Nat /\ One(e = f) \in Nat
        BY DueIs DEF GraphTypes, One
      <3> QED  BY <1>4, <3>1, <3>2
    <2> QED  BY <1>2, <1>3, <2>1, <2>2, AddedWhole
  <1>6. CASE ~directed
    <2>1. graphPc' = "half" /\ graphCall' = f /\ UNCHANGED <<edge_count, edges>>
      BY <1>6 DEF G!AddEdge
    <2>2. GraphTypes'
      BY <1>2, <2>1 DEF GraphTypes
    <2>3. HalfPushed'
      BY <1>2, <1>3, <1>6, <2>1 DEF HalfPushed
    <2>4. ASSUME NEW e
          PROVE  One(graphPc' = "half" /\ e = graphCall') = One(e = f)
      BY <2>1 DEF One
    <2>5. HalvesDue'
      BY <1>2, <1>3, <1>4, <2>1, <2>4 DEF HalvesDue
    <2> QED  BY <2>1, <2>2, <2>3, <2>5 DEF GraphInv
  <1> QED  BY <1>1, <1>5, <1>6

LEMMA AddsReverse ==
    ASSUME GraphTypes, HalvesDue, HalfPushed, graphPc = "half", G!AddReverse
    PROVE  GraphInv'
  <1>0. PICK f, r : f = graphCall /\ r = G!Backward(graphCall)
    OBVIOUS
  <1>1. /\ adj \in Lists(vertex_count)
        /\ ~directed /\ f \in EdgesOf(vertex_count)
        /\ r \in EdgesOf(vertex_count)
    BY <1>0 DEF HalvesDue, HalfPushed, EdgesOf, G!Backward, G!Edge
  <1>2. /\ adj' = WithHalf(adj, r)
        /\ UNCHANGED <<vertex_count, directed>> /\ G!Added(f)
    BY <1>0 DEF G!AddReverse, G!Pushed, WithHalf
  <1>3. /\ adj' \in Lists(vertex_count)
        /\ \A e \in EdgesOf(vertex_count) :
              /\ Count(adj[e.from], G!Half(e)) \in Nat
              /\ Count(adj'[e.from], G!Half(e)) = Count(adj[e.from], G!Half(e)) + One(e = r)
    <2>1. adj' \in Lists(vertex_count)
      BY <1>1, <1>2, HalfPushes
    <2>2. adj \in Lists(vertex_count) /\ r \in EdgesOf(vertex_count) /\ adj' = WithHalf(adj, r)
      BY <1>1, <1>2
    <2>3. \A e \in EdgesOf(vertex_count) :
             /\ Count(adj[e.from], G!Half(e)) \in Nat
             /\ Count(adj'[e.from], G!Half(e)) = Count(adj[e.from], G!Half(e)) + One(e = r)
      BY ONLY <2>2, HalfPushes
    <2> QED  BY <2>1, <2>3
  <1>4. ASSUME NEW e \in EdgesOf(vertex_count)
        PROVE  Count(adj'[e.from], G!Half(e)) = Due(directed, edges, e)
                   + One(e = f) + One(~directed /\ e = G!Backward(f))
    <2>1. One(graphPc = "half" /\ e = graphCall) = One(e = f)
      BY <1>0 DEF One
    <2>2. One(~directed /\ e = G!Backward(f)) = One(e = r)
      BY <1>0, <1>1 DEF One
    <2>3. Count(adj[e.from], G!Half(e))
             = Due(directed, edges, e) + One(graphPc = "half" /\ e = graphCall)
      BY DEF HalvesDue
    <2> QED  BY <1>3, <2>1, <2>2, <2>3
  <1> QED  BY <1>1, <1>2, <1>3, <1>4, AddedWhole

\* The first half is popped.
LEMMA ReverseFails ==
    ASSUME GraphTypes, HalvesDue, HalfPushed, graphPc = "half", G!AddReverseFails
    PROVE  GraphInv'
  <1>0. PICK f : f = graphCall
    OBVIOUS
  <1>1. /\ adj \in Lists(vertex_count) /\ f \in EdgesOf(vertex_count)
        /\ adj[f.from] # <<>> /\ adj[f.from][Len(adj[f.from])] = G!Half(f)
    BY <1>0 DEF HalvesDue, HalfPushed
  <1>2. /\ adj' = [adj EXCEPT ![f.from] = G!Front(@)]
        /\ graphPc' = "idle" /\ UNCHANGED <<vertex_count, edge_count, directed, edges>>
    BY <1>0 DEF G!AddReverseFails, G!Return
  <1>3. PICK t : t = G!Front(adj[f.from])
    OBVIOUS
  <1>4. adj[f.from] \in Seq(Hop(vertex_count))
    BY <1>1 DEF Lists, EdgesOf
  <1>5. /\ t \in Seq(Hop(vertex_count))
        /\ \A x : Count(t, x) = Count(adj[f.from], x) - (IF G!Half(f) = x THEN 1 ELSE 0)
    BY <1>1, <1>3, <1>4, CountFront
  <1>6. adj' = WithVector(adj, f.from, t)
    BY <1>2, <1>3 DEF WithVector
  <1>7. /\ adj' \in Lists(vertex_count)
        /\ \A e \in EdgesOf(vertex_count) :
              /\ Count(adj[e.from], G!Half(e)) \in Nat
              /\ Count(adj'[e.from], G!Half(e)) = Count(adj[e.from], G!Half(e)) - One(e = f)
    <2>1. adj \in Lists(vertex_count) /\ f \in EdgesOf(vertex_count)
      BY <1>1
    <2> QED  BY ONLY <2>1, <1>5, <1>6, HalfGoes
  <1>8. GraphTypes'
    BY <1>2 DEF GraphTypes
  <1>9. ASSUME NEW e \in EdgesOf(vertex_count)
        PROVE  Count(adj'[e.from], G!Half(e))
                 = Due(directed', edges', e) + One(graphPc' = "half" /\ e = graphCall')
    <2>1. One(graphPc = "half" /\ e = graphCall) = One(e = f)
      BY <1>0 DEF One
    <2>2. One(graphPc' = "half" /\ e = graphCall') = 0 /\ One(e = f) \in Nat
      BY <1>2 DEF One
    <2>3. Count(adj[e.from], G!Half(e))
             = Due(directed, edges, e) + One(graphPc = "half" /\ e = graphCall)
      BY DEF HalvesDue
    <2>4. Due(directed, edges, e) \in Nat
      BY DueIs DEF GraphTypes
    <2>5. Count(adj'[e.from], G!Half(e)) = Due(directed, edges, e)
      BY <1>7, <2>1, <2>2, <2>3, <2>4
    <2> QED  BY <1>2, <2>2, <2>4, <2>5
  <1>10. HalvesDue'
    BY <1>2, <1>7, <1>9 DEF HalvesDue
  <1> QED  BY <1>2, <1>8, <1>10 DEF GraphInv

\* The halves that a deletion takes out of the vectors; of a loop both.
LEMMA HalvesTaken ==
    ASSUME GraphTypes, HalvesDue, graphPc = "idle", NEW f \in EdgesOf(vertex_count),
           G!DeleteEdge(f)
    PROVE  /\ adj' \in Lists(vertex_count)
           /\ \A e \in EdgesOf(vertex_count) :
                 /\ Count(adj[e.from], G!Half(e)) \in Nat
                 /\ Count(adj[e.from], G!Half(e)) = Count(adj'[e.from], G!Half(e))
                       + One(e = f) + One(~directed /\ e = G!Backward(f))
  <1>0. PICK n, r, k, l : /\ n = vertex_count /\ r = G!Backward(f)
                          /\ k = G!FromIndex(f) /\ l = G!ToIndex(f)
    OBVIOUS
  <1>1. /\ adj \in Lists(n) /\ f \in EdgesOf(n) /\ directed \in BOOLEAN
        /\ r \in EdgesOf(n) /\ r.from = f.to
    BY <1>0 DEF GraphTypes, HalvesDue, EdgesOf, G!Backward, G!Edge
  <1>2. /\ k \in DOMAIN adj[f.from] /\ adj[f.from][k] = G!Half(f)
        /\ ~directed => /\ l \in DOMAIN adj[f.to] /\ adj[f.to][l] = G!Half(r)
                        /\ f.from = f.to => l > k
    <2>1. G!Exists(f)
      BY DEF G!DeleteEdge
    <2> QED  BY <1>0, <2>1, EdgeFound
  <1>3. /\ directed => adj' = [adj EXCEPT ![f.from] = G!RemoveAt(@, k)]
        /\ ~directed => adj' = [[adj EXCEPT ![f.to] = G!RemoveAt(@, l)]
                                     EXCEPT ![f.from] = G!RemoveAt(@, k)]
    BY <1>0 DEF G!DeleteEdge
  <1>4. /\ adj[f.from] \in Seq(Hop(n)) /\ adj[f.to] \in Seq(Hop(n))
        /\ f.from \in 0 .. n - 1 /\ f.to \in 0 .. n - 1
    BY <1>1 DEF Lists, EdgesOf
  <1>6. CASE directed
    <2>1. PICK t : t = G!RemoveAt(adj[f.from], k)
      OBVIOUS
    <2>2. /\ t \in Seq(Hop(n))
          /\ \A x : Count(t, x) = Count(adj[f.from], x) - (IF G!Half(f) = x THEN 1 ELSE 0)
      BY <1>2, <1>4, <2>1, CountRemoved
    <2>3. adj' = WithVector(adj, f.from, t)
      BY <1>3, <1>6, <2>1 DEF WithVector
    <2>4. /\ adj' \in Lists(n)
          /\ \A e \in EdgesOf(n) :
                /\ Count(adj[e.from], G!Half(e)) \in Nat
                /\ Count(adj'[e.from], G!Half(e)) = Count(adj[e.from], G!Half(e)) - One(e = f)
      <3>1. adj \in Lists(n) /\ f \in EdgesOf(n)
        BY <1>1
      <3> QED  BY ONLY <3>1, <2>2, <2>3, HalfGoes
    <2>5. ASSUME NEW e \in EdgesOf(n)
          PROVE  /\ Count(adj[e.from], G!Half(e)) \in Nat
                 /\ Count(adj[e.from], G!Half(e)) = Count(adj'[e.from], G!Half(e))
                       + One(e = f) + One(~directed /\ e = G!Backward(f))
      <3>1. One(e = f) \in Nat /\ One(~directed /\ e = G!Backward(f)) = 0
        BY <1>6 DEF One
      <3>2. /\ Count(adj[e.from], G!Half(e)) \in Nat
            /\ Count(adj'[e.from], G!Half(e)) = Count(adj[e.from], G!Half(e)) - One(e = f)
        BY <2>4
      <3> QED  BY <3>1, <3>2
    <2> QED  BY <1>0, <2>4, <2>5
  <1>7. CASE ~directed
    <2>1. PICK u, a : u = G!RemoveAt(adj[f.to], l) /\ a = WithVector(adj, r.from, u)
      OBVIOUS
    <2>2. /\ u \in Seq(Hop(n)) /\ Len(u) = Len(adj[f.to]) - 1
          /\ \A z \in 1 .. Len(adj[f.to]) - 1 :
                u[z] = IF z < l THEN adj[f.to][z] ELSE adj[f.to][z + 1]
      BY <1>2, <1>4, <1>7, <2>1, CountRemoved
    <2>3. \A x : Count(u, x) = Count(adj[r.from], x) - (IF G!Half(r) = x THEN 1 ELSE 0)
      BY <1>1, <1>2, <1>4, <1>7, <2>1, CountRemoved
    <2>4. /\ a \in Lists(n) /\ a[r.from] = u
          /\ \A e \in EdgesOf(n) :
                /\ Count(adj[e.from], G!Half(e)) \in Nat
                /\ Count(a[e.from], G!Half(e)) = Count(adj[e.from], G!Half(e)) - One(e = r)
      <3>1. adj \in Lists(n) /\ r \in EdgesOf(n) /\ u \in Seq(Hop(n))
        BY <1>1, <2>2
      <3>2. a = WithVector(adj, r.from, u)
        BY <2>1
      <3> QED  BY ONLY <3>1, <3>2, <2>3, HalfGoes
    <2>5. k \in DOMAIN a[f.from] /\ a[f.from][k] = G!Half(f) /\ a[f.from] \in Seq(Hop(n))
      <3>1. a[f.from] \in Seq(Hop(n))
        BY <1>4, <2>4 DEF Lists
      <3>2. CASE f.from = f.to
        <4>1. a[f.from] = u
          BY <1>1, <2>4, <3>2
        <4>2. /\ k \in 1 .. Len(adj[f.to]) /\ l \in 1 .. Len(adj[f.to]) /\ l > k
              /\ Len(adj[f.to]) \in Nat /\ adj[f.to][k] = G!Half(f)
          BY <1>2, <1>4, <1>7, <3>2, LenProperties
        <4>3. k \in 1 .. Len(adj[f.to]) - 1 /\ k < l
          BY <4>2
        <4>4. u[k] = G!Half(f)
          BY <2>2, <4>2, <4>3
        <4>5. DOMAIN u = 1 .. Len(adj[f.to]) - 1
          BY <2>2, LenProperties
        <4> QED  BY <3>1, <4>1, <4>3, <4>4, <4>5
      <3>3. CASE f.from # f.to
        <4>1. a[f.from] = adj[f.from]
          BY <1>1, <1>4, <2>1, <3>3 DEF WithVector, Lists
        <4> QED  BY <1>2, <3>1, <4>1
      <3> QED  BY <3>2, <3>3
    <2>6. PICK t : t = G!RemoveAt(a[f.from], k)
      OBVIOUS
    <2>7. /\ t \in Seq(Hop(n))
          /\ \A x : Count(t, x) = Count(a[f.from], x) - (IF G!Half(f) = x THEN 1 ELSE 0)
      BY <2>5, <2>6, CountRemoved
    <2>8. adj' = WithVector(a, f.from, t)
      <3>1. a = [adj EXCEPT ![f.to] = G!RemoveAt(@, l)]
        BY <1>1, <2>1 DEF WithVector
      <3>2. adj' = [a EXCEPT ![f.from] = G!RemoveAt(@, k)]
        BY <1>3, <1>7, <3>1
      <3> QED  BY <2>6, <3>2 DEF WithVector
    <2>9. /\ adj' \in Lists(n)
          /\ \A e \in EdgesOf(n) :
                /\ Count(a[e.from], G!Half(e)) \in Nat
                /\ Count(adj'[e.from], G!Half(e)) = Count(a[e.from], G!Half(e)) - One(e = f)
      <3>1. a \in Lists(n) /\ f \in EdgesOf(n)
        BY <1>1, <2>4
      <3> QED  BY ONLY <3>1, <2>7, <2>8, HalfGoes
    <2>10. ASSUME NEW e \in EdgesOf(n)
          PROVE  /\ Count(adj[e.from], G!Half(e)) \in Nat
                 /\ Count(adj[e.from], G!Half(e)) = Count(adj'[e.from], G!Half(e))
                       + One(e = f) + One(~directed /\ e = G!Backward(f))
      <3>1. /\ One(e = f) \in Nat /\ One(e = r) \in Nat
            /\ One(~directed /\ e = G!Backward(f)) = One(e = r)
        BY <1>0, <1>7 DEF One
      <3>2. /\ Count(adj[e.from], G!Half(e)) \in Nat
            /\ Count(a[e.from], G!Half(e)) = Count(adj[e.from], G!Half(e)) - One(e = r)
            /\ Count(adj'[e.from], G!Half(e)) = Count(a[e.from], G!Half(e)) - One(e = f)
        BY <2>4, <2>9
      <3> QED  BY <3>1, <3>2
    <2> QED  BY <1>0, <2>9, <2>10
  <1> QED  BY <1>1, <1>6, <1>7

LEMMA DeletesEdge ==
    ASSUME GraphTypes, HalvesDue, graphPc = "idle", NEW f \in EdgesOf(vertex_count),
           G!DeleteEdge(f)
    PROVE  GraphInv'
  <1>1. PICK x, b : x = G!Named(directed, f) /\ b = edges'
    OBVIOUS
  <1>2. /\ edge_count' = edge_count - 1 /\ graphPc' = "idle"
        /\ b = G!BagRemove(edges, x)
        /\ UNCHANGED <<vertex_count, directed>>
    BY <1>1 DEF G!DeleteEdge, G!Return
  <1>3. /\ Bagged(edges) /\ directed \in BOOLEAN /\ vertex_count \in Nat
        /\ DOMAIN edges \subseteq G!AllNamed(directed, vertex_count)
        /\ edge_count = Cardinality(G!Each(edges))
    BY DEF GraphTypes
  <1>4. x \in DOMAIN edges
    <2>1. G!Exists(f)
      BY DEF G!DeleteEdge
    <2> QED  BY <1>1, <2>1, EdgeFound
  <1>5. /\ Bagged(b) /\ DOMAIN b \subseteq DOMAIN edges
        /\ Cardinality(G!Each(b)) = Cardinality(G!Each(edges)) - 1
    BY <1>2, <1>3, <1>4, BagRemoved
  <1>6. \A y : /\ G!Copies(edges, y) \in Nat
               /\ G!Copies(edges, y) = G!Copies(b, y) + (IF x = y THEN 1 ELSE 0)
    <2>1. Bagged(edges) /\ x \in DOMAIN edges
      BY <1>3, <1>4
    <2>2. \A y : /\ G!Copies(edges, y) \in Nat
                 /\ G!Copies(edges, y) = G!Copies(G!BagRemove(edges, x), y)
                                         + (IF x = y THEN 1 ELSE 0)
      BY ONLY <2>1, BagRemoved, Zenon
    <2> QED  BY <1>2, <2>2
  <1>7. GraphTypes'
    BY <1>1, <1>2, <1>3, <1>5 DEF GraphTypes
  <1>8. ASSUME NEW e \in EdgesOf(vertex_count)
        PROVE  Count(adj'[e.from], G!Half(e))
                 = Due(directed', edges', e) + One(graphPc' = "half" /\ e = graphCall')
    <2>1. G!Copies(edges, G!Named(directed, e)) = G!Copies(b, G!Named(directed, e))
             + (IF G!Named(directed, f) = G!Named(directed, e) THEN 1 ELSE 0)
      BY <1>1, <1>6
    <2>2. /\ Due(directed, b, e) \in Nat
          /\ Due(directed, edges, e) = Due(directed, b, e)
                  + One(e = f) + One(~directed /\ e = G!Backward(f))
      BY <1>3, <1>5, <2>1, DueAdded
    <2>3. /\ One(graphPc' = "half" /\ e = graphCall') = 0
          /\ One(graphPc = "half" /\ e = graphCall) = 0
          /\ One(e = f) \in Nat /\ One(~directed /\ e = G!Backward(f)) \in Nat
      BY <1>2 DEF One
    <2>4. Count(adj[e.from], G!Half(e))
             = Due(directed, edges, e) + One(graphPc = "half" /\ e = graphCall)
      BY DEF HalvesDue
    <2>5. /\ Count(adj[e.from], G!Half(e)) = Count(adj'[e.from], G!Half(e))
                       + One(e = f) + One(~directed /\ e = G!Backward(f))
          /\ Count(adj'[e.from], G!Half(e)) \in Nat
      <3>1. adj' \in Lists(vertex_count)
            /\ Count(adj[e.from], G!Half(e)) = Count(adj'[e.from], G!Half(e))
                       + One(e = f) + One(~directed /\ e = G!Backward(f))
        BY HalvesTaken
      <3>2. adj'[e.from] \in Seq(Hop(vertex_count))
        BY <3>1 DEF Lists, EdgesOf
      <3> QED  BY <3>1, <3>2, CountIn
    <2>6. Count(adj'[e.from], G!Half(e)) = Due(directed, b, e)
      BY <2>2, <2>3, <2>4, <2>5
    <2> QED  BY <1>1, <1>2, <2>2, <2>3, <2>6
  <1>9. HalvesDue'
    <2>1. adj' \in Lists(vertex_count)
      BY HalvesTaken
    <2> QED  BY <1>2, <1>8, <2>1 DEF HalvesDue
  <1> QED  BY <1>2, <1>7, <1>9 DEF GraphInv

LEMMA GraphStep == GraphInv /\ [G!Next]_graphVars => GraphInv'
  <1> SUFFICES ASSUME GraphInv, [G!Next]_graphVars PROVE GraphInv'
    OBVIOUS
  <1>1. GraphTypes /\ (graphPc = "half" => HalfPushed) /\ (graphPc # "failed" => HalvesDue)
    BY DEF GraphInv
  <1>2. ASSUME NEW m \in Sizes, NEW isDirected \in BOOLEAN, G!Create(isDirected, m)
        PROVE  GraphInv'
    <2>1. m \in Nat
      BY GraphsAssumption DEF G!GraphAssumption
    <2>2. G!Becomes(G!Empty(isDirected, m)) /\ graphPc' = "idle"
      BY <1>2 DEF G!Create, G!Return
    <2> QED  BY <2>1, <2>2, EmptyWhole, WholeBegins
  <1>3. ASSUME NEW m \in Sizes, NEW isDirected \in BOOLEAN, G!CreateFails(isDirected, m)
        PROVE  GraphInv'
    <2>1. m \in Nat
      BY GraphsAssumption DEF G!GraphAssumption
    <2>2. /\ vertex_count' = m /\ edge_count' = 0 /\ directed' = isDirected
          /\ edges' = G!NoEdges /\ graphPc' = "failed"
      BY <1>3 DEF G!CreateFails
    <2>3. GraphTypes'
      BY <2>1, <2>2, EmptyBagged DEF GraphTypes
    <2> QED  BY <2>2, <2>3 DEF GraphInv
  <1>4. CASE G!Destroy
    <2>1. G!Becomes(G!Empty(FALSE, 0)) /\ graphPc' = "idle"
      BY <1>4 DEF G!Destroy, G!Return
    <2> QED  BY <2>1, EmptyWhole, WholeBegins
  <1>5. CASE G!Clear
    <2>1. G!Becomes(G!Empty(directed, vertex_count)) /\ graphPc' = "idle"
      BY <1>5 DEF G!Clear, G!Return
    <2> QED  BY <1>1, <2>1, EmptyWhole, WholeBegins DEF GraphTypes
  <1>6. ASSUME NEW g \in Graphs, G!Copy(g) PROVE GraphInv'
    <2>1. G!Becomes(g) /\ graphPc' = "idle"
      BY <1>6 DEF G!Copy, G!Return
    <2> QED  BY <2>1, SourceWhole, WholeBegins
  <1>7. ASSUME graphPc = "idle", NEW answer, G!Fail(answer) PROVE GraphInv'
    <2>1. graphPc' = "idle" /\ UNCHANGED <<vertex_count, edge_count, directed, adj, edges>>
      BY <1>7 DEF G!Fail, G!Return, G!graph
    <2> QED  BY <1>1, <1>7, <2>1, IdleStays
  <1>8. ASSUME NEW from \in 0 .. vertex_count, NEW to \in 0 .. vertex_count, NEW w \in Weights,
               NEW e, e = G!Edge(from, to, w),
               \/ G!InvalidVertex(e) \/ G!AddEdge(e) \/ G!AddEdgeFails(e)
               \/ G!DeleteEdge(e) \/ G!DeleteMissing(e)
        PROVE  GraphInv'
    <2>1. graphPc = "idle"
      BY <1>8 DEF G!InvalidVertex, G!AddEdge, G!AddEdgeFails, G!DeleteEdge, G!DeleteMissing
    <2>2. ASSUME G!AddEdge(e) \/ G!DeleteEdge(e) PROVE e \in EdgesOf(vertex_count)
      <3>1. {e.from, e.to} \subseteq 0 .. vertex_count - 1
        BY <2>2 DEF G!AddEdge, G!DeleteEdge, G!Vertices
      <3> QED  BY <1>8, <3>1 DEF G!Edge, EdgesOf
    <2>3. CASE G!AddEdge(e)
      BY <1>1, <2>1, <2>2, <2>3, AddsEdge
    <2>4. CASE G!DeleteEdge(e)
      BY <1>1, <2>1, <2>2, <2>4, DeletesEdge
    <2>5. CASE G!InvalidVertex(e) \/ G!AddEdgeFails(e) \/ G!DeleteMissing(e)
      BY <1>7, <2>1, <2>5 DEF G!InvalidVertex, G!AddEdgeFails, G!DeleteMissing
    <2> QED  BY <1>8, <2>3, <2>4, <2>5
  <1>9. CASE G!AddReverse
    <2>1. graphPc = "half"
      BY <1>9 DEF G!AddReverse
    <2> QED  BY <1>1, <1>9, <2>1, AddsReverse
  <1>10. CASE G!AddReverseFails
    <2>1. graphPc = "half"
      BY <1>10 DEF G!AddReverseFails
    <2> QED  BY <1>1, <1>10, <2>1, ReverseFails
  <1>11. CASE G!CopyFails
    BY <1>7, <1>11 DEF G!CopyFails
  <1>12. CASE UNCHANGED graphVars
    BY <1>12 DEF graphVars, GraphInv, GraphTypes, HalfPushed, HalvesDue
  <1>13. CASE \E from, to \in 0 .. vertex_count, w \in Weights :
                 LET e == G!Edge(from, to, w)
                 IN  \/ G!InvalidVertex(e) \/ G!AddEdge(e) \/ G!AddEdgeFails(e)
                     \/ G!DeleteEdge(e) \/ G!DeleteMissing(e)
    BY <1>8, <1>13
  <1> QED
    BY <1>2, <1>3, <1>4, <1>5, <1>6, <1>9, <1>10, <1>11, <1>12, <1>13 DEF G!Next

LEMMA GraphBegins == G!Init => GraphInv
  <1> SUFFICES ASSUME G!Init PROVE GraphInv
    OBVIOUS
  <1>1. /\ vertex_count = 0 /\ edge_count = 0 /\ directed = FALSE /\ adj = <<>>
        /\ graphPc = "idle" /\ edges = G!NoEdges
    BY DEF G!Init
  <1>2. GraphTypes
    BY <1>1, EmptyBagged DEF GraphTypes
  <1>3. adj \in Lists(vertex_count) /\ EdgesOf(vertex_count) = {}
    BY <1>1 DEF Lists, EdgesOf
  <1>4. HalvesDue
    BY <1>3 DEF HalvesDue
  <1> QED  BY <1>1, <1>2, <1>4 DEF GraphInv

\* The vectors of a graph hold every edge that was added and not deleted, as
\* often as it was added, at both its ends, twice for a loop: whatever calls
\* fail half way, however large the graphs.
THEOREM AdjacencyHolds == SpecEach => []AdjacencyMatches
  <1>1. InitEach => GraphInv
    BY GraphBegins DEF InitEach
  <1>2. GraphInv /\ [NextEach]_<<vars, graphVars, turn>> => GraphInv'
    <2> SUFFICES ASSUME GraphInv, [NextEach]_<<vars, graphVars, turn>>
                 PROVE  GraphInv'
      OBVIOUS
    <2>1. [G!Next]_graphVars
      BY DEF NextEach, graphVars
    <2> QED
      BY <2>1, GraphStep
  <1>3. GraphInv => AdjacencyMatches
    BY AdjacencyFollows DEF AdjacencyMatches
  <1> QED
    BY <1>1, <1>2, <1>3, PTL DEF SpecEach
=============================================================================
