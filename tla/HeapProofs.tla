---------------------------- MODULE HeapProofs ----------------------------
(* What is proved of Heap for every instance: the order of the elements in  *)
(* every state, also within a push or a pop, the copies that live, and that *)
(* callers see a bag whose pops remove a greatest element.                  *)
EXTENDS Heap, ContainerLemmas

Inv == HeapAssumption /\ HeapOrder

-----------------------------------------------------------------------------
(* The tree and what its slots hold *)

\* A slot is one of the two children of its parent, and behind it.
LEMMA Parents ==
    ASSUME NEW i \in Nat, i # 0
    PROVE  /\ Parent(i) \in Nat /\ Parent(i) < i
           /\ \A j \in Nat : Parent(i) = j <=> i = Left(j) \/ i = Left(j) + 1
  BY DEF Parent, Left

\* The children of a slot are behind it.
LEMMA Children ==
    ASSUME NEW i \in Nat
    PROVE  /\ Left(i) \in Nat /\ Left(i) > i
           /\ Parent(Left(i)) = i /\ Parent(Left(i) + 1) = i
  BY DEF Parent, Left

\* The slots in use are part of the array.
LEMMA UsedSlots ==
    ASSUME TypeOK, HeapAssumption
    PROVE  /\ size \in Nat /\ capacity \in Nat /\ size <= capacity
           /\ hole \in Nat
           /\ IsFiniteSet(Used)
           /\ Used \subseteq Slots
           /\ \A i : i \in Used <=> i \in Nat /\ i < size
  <1>1. /\ size \in Nat /\ capacity \in Nat /\ size <= capacity /\ MaxCapacity \in Nat
        /\ capacity <= MaxCapacity /\ hole \in Nat
    BY DEF TypeOK, HeapAssumption, Slots
  <1>2. \A i : i \in Used <=> i \in Nat /\ i < size
    BY <1>1 DEF Used
  <1>3. ASSUME NEW i \in Used
        PROVE  i \in Slots
    BY <1>1, <1>3 DEF Used, Slots
  <1>4. IsFiniteSet(0 .. size - 1)
    BY <1>1, FS_Interval
  <1> QED
    BY <1>1, <1>2, <1>3, <1>4 DEF Used

\* The elements by slot, and how often one of them is there.
Held == [i \in Used |-> Holding(i)]
Contents(e) == OccurrencesIn(Used, Held, e)

LEMMA ContentsAre ==
    \A e : Contents(e) = Cardinality({i \in Used : Holding(i) = e})
  <1> SUFFICES ASSUME NEW e
               PROVE  Contents(e) = Cardinality({i \in Used : Holding(i) = e})
    OBVIOUS
  <1>1. {i \in Used : Held[i] = e} = {i \in Used : Holding(i) = e}
    BY DEF Held
  <1> QED
    BY <1>1 DEF Contents, OccurrencesIn

LEMMA CopiesAre ==
    Copies <=> /\ \A i \in Used : Holding(i) \in Elements
               /\ \A e \in Elements : live[e] = Contents(e)
  BY ContentsAre, Zenon DEF Copies

\* What the invariant says of a state.
LEMMA InvParts ==
    Inv => /\ HeapAssumption /\ TypeOK /\ ControlShape /\ Copies /\ Ordered
           /\ \A i \in Used : Holding(i) \in Elements
           /\ \A i \in Used : Holding(i) \in Int
           /\ \A e \in Elements : live[e] = Contents(e)
  BY CopiesAre DEF Inv, HeapOrder, HeapAssumption

\* The same elements in the same slots, outside of the loops.
LEMMA QuietInv ==
    ASSUME Inv, UNCHANGED <<size, data, live>>,
           pc \notin {"up", "down"}, pc' \notin {"up", "down"},
           TypeOK', ControlShape'
    PROVE  Inv' /\ Held' = Held
  <1>1. Used' = Used /\ \A i : Holding(i)' = Holding(i)
    BY DEF Used, Holding
  <1>2. Copies'
    BY <1>1 DEF Inv, HeapOrder, Copies
  <1>3. Ordered'
    BY <1>1 DEF Inv, HeapOrder, Ordered
  <1>4. Held' = Held
    BY <1>1 DEF Held
  <1> QED
    BY <1>2, <1>3, <1>4 DEF Inv, HeapOrder

-----------------------------------------------------------------------------
(* The calls, and the steps that move nothing *)

LEMMA CallInv ==
    ASSUME Inv, Calls
    PROVE  Inv' /\ Held' = Held
  <1>1. PICK op \in {"push", "pop", "reserve", "clear", "destroy"},
             e \in Elements \cup {None}, n \in Nat : Call(op, e, n)
    BY DEF Inv, HeapAssumption, Calls
  <1>2. TypeOK'
    BY <1>1 DEF Inv, HeapOrder, TypeOK, Call
  <1>3. ControlShape'
    <2>1. call' = [op |-> op, elem |-> e, at |-> n, ret |-> "pending"]
          /\ pc' = op /\ hole' = 0
      BY <1>1 DEF Inv, HeapOrder, ControlShape, Call
    <2> QED
      BY <2>1 DEF ControlShape
  <1> QED
    BY <1>1, <1>2, <1>3, QuietInv DEF Call

\* The control when a call returns.
LEMMA ReturnShape ==
    ASSUME Inv, NEW ret \in {"ok", "error"}, Return(ret)
    PROVE  ControlShape'
  <1>1. /\ call' = [call EXCEPT !.ret = ret] /\ pc' = "idle" /\ hole' = 0
        /\ call \in [op : {"init", "push", "pop", "reserve", "clear", "destroy"},
                     elem : Elements \cup {None}, at : Nat,
                     ret : {"pending", "ok", "error"}]
    BY DEF Inv, HeapOrder, ControlShape, Return
  <1> QED
    BY <1>1 DEF ControlShape

LEMMA FailInv ==
    ASSUME Inv, Fail, pc \notin {"up", "down"}
    PROVE  Inv' /\ Held' = Held
  <1>1. ControlShape'
    BY ReturnShape DEF Fail
  <1>2. TypeOK'
    BY DEF Inv, HeapOrder, TypeOK, Fail, Return, HeapAssumption, Slots
  <1> QED
    BY <1>1, <1>2, QuietInv DEF Fail, Return

LEMMA ReserveInv ==
    ASSUME Inv, ReserveEnough \/ Reserve \/ ReserveFails
    PROVE  Inv' /\ Held' = Held
  <1>1. CASE ReserveFails
    BY <1>1, FailInv DEF ReserveFails
  <1>2. CASE ReserveEnough \/ Reserve
    <2>1. Return("ok") /\ UNCHANGED <<size, data, live>> /\ pc = "reserve"
      BY <1>2 DEF ReserveEnough, Reserve
    <2>2. ControlShape'
      BY <2>1, ReturnShape
    <2>3. capacity' \in 0 .. MaxCapacity /\ size \in 0 .. capacity'
      <3>1. call.at \in Nat /\ capacity \in 0 .. MaxCapacity /\ size \in 0 .. capacity
        BY DEF Inv, HeapOrder, TypeOK, ControlShape
      <3> QED
        BY <1>2, <3>1 DEF ReserveEnough, Reserve, Inv, HeapAssumption
    <2>4. TypeOK'
      BY <2>1, <2>3 DEF Inv, HeapOrder, TypeOK, Return, HeapAssumption, Slots
    <2> QED
      BY <2>1, <2>2, <2>4, QuietInv DEF Return
  <1> QED
    BY <1>1, <1>2

LEMMA PushGrowInv ==
    ASSUME Inv, PushGrow
    PROVE  Inv' /\ Held' = Held
  <1>1. /\ capacity' \in 0 .. MaxCapacity /\ size' \in 0 .. capacity'
        /\ size' < capacity'
    <2>1. capacity \in 0 .. MaxCapacity /\ size \in 0 .. capacity /\ size' = size
          /\ InitCapacity \in Nat /\ InitCapacity > 0 /\ MaxCapacity \in Nat
      BY DEF Inv, HeapOrder, TypeOK, HeapAssumption, PushGrow
    <2>2. IF size = capacity
          THEN /\ capacity' = IF capacity = 0 THEN InitCapacity ELSE capacity * 2
               /\ capacity' <= MaxCapacity
          ELSE capacity' = capacity
      BY DEF PushGrow
    <2> QED
      BY <2>1, <2>2
  <1>2. TypeOK'
    BY <1>1 DEF Inv, HeapOrder, TypeOK, PushGrow
  <1>3. ControlShape'
    BY <1>1 DEF Inv, HeapOrder, ControlShape, PushGrow
  <1> QED
    BY <1>2, <1>3, QuietInv DEF PushGrow

-----------------------------------------------------------------------------
(* heap_push *)

\* The copy is counted as soon as it waits for its place, the last slot.
LEMMA PushStageInv ==
    ASSUME Inv, PushStage
    PROVE  /\ Inv'
           /\ call.elem \in Elements
           /\ \A e \in Elements :
                 Contents(e)' = Contents(e) + (IF e = call.elem THEN 1 ELSE 0)
  <1>1. /\ HeapAssumption /\ TypeOK /\ ControlShape /\ Ordered
        /\ \A i \in Used : Holding(i) \in Elements
        /\ \A e \in Elements : live[e] = Contents(e)
    BY InvParts
  <1> PICK n : n = size
    OBVIOUS
  <1>2. /\ n \in Nat /\ IsFiniteSet(Used) /\ n < capacity /\ size = n
        /\ \A i : i \in Used <=> i \in Nat /\ i < n
    BY <1>1, UsedSlots DEF PushStage, ControlShape
  <1>3. call.elem \in Elements
    BY <1>1 DEF ControlShape, PushStage
  <1>4. /\ size' = n + 1 /\ hole' = n /\ pc' = "up" /\ staged' = call.elem
        /\ UNCHANGED <<data, call, capacity>>
        /\ live' = [live EXCEPT ![call.elem] = @ + 1]
    BY DEF PushStage
  <1>5. Used' = Used \cup {n} /\ n \notin Used /\ Used' = 0 .. n
    BY <1>2, <1>4 DEF Used
  <1>6. /\ \A i \in Used : Holding(i)' = Holding(i)
        /\ Holding(n)' = call.elem
    BY <1>2, <1>4 DEF Holding, PushStage
  <1>7. /\ \A i \in Used : Held'[i] = Held[i]
        /\ Held'[n] = call.elem
    BY <1>5, <1>6 DEF Held
  <1>8. ASSUME NEW e \in Elements
        PROVE  Contents(e) \in Nat
               /\ Contents(e)' = Contents(e) + (IF e = call.elem THEN 1 ELSE 0)
    <2> DEFINE U == Used
               V == Used'
               S == Held
               T == Held'
    <2>1. IsFiniteSet(U) /\ OneSlotMore(U, V, S, T, n) /\ T[n] = call.elem
      BY <1>2, <1>5, <1>7 DEF OneSlotMore
    <2> HIDE DEF U, V, S, T
    <2>2. /\ OccurrencesIn(U, S, e) \in Nat
          /\ OccurrencesIn(V, T, e) = OccurrencesIn(U, S, e) + (IF T[n] = e THEN 1 ELSE 0)
      BY <2>1, CountOneMore
    <2> QED
      BY <2>1, <2>2 DEF Contents, U, V, S, T
  <1>9. Copies'
    <2>1. \A i \in Used' : Holding(i)' \in Elements
      BY <1>1, <1>3, <1>5, <1>6
    <2>2. \A e \in Elements : live'[e] = Contents(e)'
      BY <1>1, <1>3, <1>4, <1>8 DEF TypeOK
    <2>3. (/\ \A i \in Used : Holding(i) \in Elements
           /\ \A e \in Elements : live[e] = Contents(e))'
      BY <2>1, <2>2
    <2> QED
      BY <2>3, CopiesAre, PTL
  <1>10. TypeOK'
    <2>1. size' \in 0 .. capacity' /\ hole' \in Slots
      BY <1>1, <1>2, <1>4 DEF TypeOK, Slots, HeapAssumption
    <2>2. live' \in [Elements -> Nat]
      BY <1>1, <1>3, <1>4 DEF TypeOK
    <2> QED
      BY <1>1, <1>3, <1>4, <2>1, <2>2 DEF TypeOK
  <1>11. ControlShape'
    <2>1. hole' \in Used' /\ staged' # None /\ call.ret = "pending" /\ call.op = "push"
      BY <1>1, <1>3, <1>4, <1>5 DEF ControlShape, PushStage, HeapAssumption
    <2> QED
      BY <1>1, <1>4, <2>1 DEF ControlShape, PushStage
  <1>12. Ordered'
    <2>1. ASSUME NEW i \in Used' \ {0}
          PROVE  Parent(i) \in Used /\ Parent(i) # n
      BY <1>2, <1>5, Parents
    <2>2. ASSUME NEW i \in Used \ {0}
          PROVE  Holding(Parent(i)) >= Holding(i)
      BY <1>1, <1>2 DEF Ordered, PushStage
    <2> QED
      BY <1>4, <1>5, <1>6, <2>1, <2>2 DEF Ordered
  <1> QED
    BY <1>1, <1>3, <1>8, <1>9, <1>10, <1>11, <1>12 DEF Inv, HeapOrder

\* The parent's element comes down, and the staged one takes its place: two
\* slots exchange what they hold.
LEMMA MoveUpInv ==
    ASSUME Inv, MoveUp
    PROVE  Inv' /\ \A e \in Elements : Contents(e)' = Contents(e)
  <1> PICK h : h = hole
    OBVIOUS
  <1> DEFINE p == Parent(h)
  <1>1. /\ HeapAssumption /\ TypeOK /\ ControlShape /\ Ordered
        /\ \A i \in Used : Holding(i) \in Elements
        /\ \A i \in Used : Holding(i) \in Int
        /\ \A e \in Elements : live[e] = Contents(e)
    BY InvParts
  <1>2. /\ size \in Nat /\ IsFiniteSet(Used) /\ Used \subseteq Slots
        /\ \A i : i \in Used <=> i \in Nat /\ i < size
    BY <1>1, UsedSlots
  <1>3. /\ pc = "up" /\ pc' = "up" /\ hole' = p
        /\ data' = [data EXCEPT ![hole] = data[p]]
        /\ UNCHANGED <<size, capacity, live, call, staged>>
        /\ hole = h /\ h # 0 /\ ~ (data[p] >= staged)
    BY DEF MoveUp, Belongs
  <1>4. h \in Used /\ h \in Nat /\ p \in Used /\ p \in Nat /\ p < h
    BY <1>1, <1>2, <1>3, Parents DEF ControlShape
  <1>5. Used' = Used
    BY <1>3 DEF Used
  <1>6. /\ Holding(h) = staged /\ Holding(p) = data[p]
        /\ Holding(h)' = data[p] /\ Holding(p)' = staged
        /\ \A i \in Used \ {h, p} : Holding(i)' = Holding(i)
    BY <1>1, <1>2, <1>3, <1>4 DEF Holding, TypeOK
  <1>7. data[p] \in Elements /\ staged \in Elements
        /\ data[p] \in Int /\ staged \in Int /\ data[p] < staged
    <2>1. data[p] \in Elements /\ staged \in Elements /\ data[p] \in Int /\ staged \in Int
      BY <1>1, <1>4, <1>6
    <2> QED
      BY <1>3, <2>1
  <1> HIDE DEF p
  <1>8. ASSUME NEW e \in Elements
        PROVE  Contents(e)' = Contents(e)
    <2>1. /\ Held'[h] = Held[p] /\ Held'[p] = Held[h]
          /\ \A i \in Used \ {h, p} : Held'[i] = Held[i]
      BY <1>4, <1>5, <1>6 DEF Held
    <2>2. OccurrencesIn(Used, Held', e) = OccurrencesIn(Used, Held, e)
      BY <1>2, <1>4, <2>1, CountSwapped
    <2> QED
      BY <2>2, <1>5 DEF Contents
  <1>9. Copies'
    <2>1. (/\ \A i \in Used : Holding(i) \in Elements
           /\ \A e \in Elements : live[e] = Contents(e))'
      BY <1>1, <1>3, <1>5, <1>6, <1>7, <1>8
    <2> QED
      BY <2>1, CopiesAre, PTL
  <1>10. TypeOK'
    <2>1. data' \in [Slots -> Elements \cup {None}] /\ hole' \in Slots
      BY <1>1, <1>2, <1>3, <1>4, <1>7 DEF TypeOK
    <2> QED
      BY <1>1, <1>3, <2>1 DEF TypeOK
  <1>11. ControlShape'
    BY <1>1, <1>3, <1>4, <1>5 DEF ControlShape
  <1>12. ASSUME NEW i \in Used \ {0}
         PROVE  Holding(Parent(i))' >= Holding(i)' \/ i = p
    <2>1. Parent(i) \in Used /\ Parent(i) < i /\ i \in Nat
      BY <1>2, Parents
    <2>2. /\ Holding(i) \in Int /\ Holding(Parent(i)) \in Int
          /\ Holding(Parent(i)) >= Holding(i) \/ i = h
      BY <1>1, <1>3, <2>1 DEF Ordered
    <2>3. CASE i = p
      BY <2>3, <1>3
    <2>4. CASE i = h
      BY <2>4, <1>6, <1>7 DEF p
    <2>5. CASE i # p /\ i # h /\ Parent(i) = p
      <3>1. Holding(i)' = Holding(i) /\ Holding(Parent(i))' = staged
            /\ data[p] >= Holding(i)
        BY <2>2, <2>5, <1>6
      <3> QED
        BY <3>1, <2>2, <1>7
    <2>6. CASE i # p /\ i # h /\ Parent(i) = h
      <3>1. Holding(i)' = Holding(i) /\ Holding(Parent(i))' = data[p]
        BY <2>6, <1>6
      <3>2. Holding(p) >= Holding(i)
        BY <1>1, <1>3, <2>6 DEF Ordered, p
      <3> QED
        BY <3>1, <3>2, <1>6
    <2>7. CASE i # p /\ i # h /\ Parent(i) # p /\ Parent(i) # h
      BY <2>7, <2>1, <2>2, <1>6
    <2> QED
      BY <2>3, <2>4, <2>5, <2>6, <2>7
  <1>13. ASSUME NEW i \in Used \ {0}, Parent(i) = p, p # 0
         PROVE  Holding(Parent(p))' >= Holding(i)'
    <2> DEFINE q == Parent(p)
    <2>1. p # 0 /\ p \in Used \ {0} /\ Parent(i) = p
      BY <1>3, <1>4, <1>13
    <2>2. q \in Used /\ q < p /\ i \in Nat /\ p < i
      BY <1>2, <1>4, <2>1, Parents
    <2>3. Holding(q) >= Holding(p) /\ Holding(q)' = Holding(q)
      <3>1. Holding(q) >= Holding(p)
        BY <1>1, <1>3, <1>4, <2>1 DEF Ordered
      <3>2. q \in Used \ {h, p}
        BY <1>4, <2>2
      <3> QED
        BY <3>1, <3>2, <1>6
    <2> HIDE DEF q
    <2>4. Holding(q) \in Int /\ Holding(p) \in Int /\ Holding(i) \in Int
      BY <1>1, <1>4, <2>2
    <2>5. CASE i = h
      BY <2>5, <2>3, <2>4, <1>3, <1>6 DEF q
    <2>6. CASE i # h
      <3>1. Holding(i)' = Holding(i)
        BY <2>2, <2>6, <1>4, <1>6
      <3>2. Holding(p) >= Holding(i)
        BY <1>1, <1>3, <2>1, <2>6 DEF Ordered
      <3>3. Holding(q) >= Holding(i)
        BY <3>2, <2>3, <2>4
      <3> QED
        BY <3>1, <3>3, <2>3, <1>3 DEF q
    <2> QED
      BY <2>5, <2>6
  <1>14. Ordered'
    <2>1. \A i \in Used' \ {0} :
             Holding(Parent(i))' >= Holding(i)' \/ (pc' = "up" /\ i = hole')
      BY <1>3, <1>5, <1>12
    <2>2. p # 0 => \A i \in Used' \ {0} :
             Parent(i) = p => Holding(Parent(p))' >= Holding(i)'
      BY <1>5, <1>13
    <2>3. Holding(Parent(hole))' = Holding(Parent(p))'
      BY <1>3 DEF Holding
    <2> QED
      BY <2>1, <2>2, <2>3, <1>3 DEF Ordered
  <1> QED
    BY <1>1, <1>8, <1>9, <1>10, <1>11, <1>14 DEF Inv, HeapOrder

\* The staged copy is written where it is counted already.
LEMMA PushEndInv ==
    ASSUME Inv, PushEnd
    PROVE  Inv' /\ Held' = Held
  <1>1. /\ HeapAssumption /\ TypeOK /\ ControlShape /\ Copies /\ Ordered
    BY InvParts
  <1>2. /\ size \in Nat /\ Used \subseteq Slots
        /\ \A i : i \in Used <=> i \in Nat /\ i < size
    BY <1>1, UsedSlots
  <1>3. /\ pc = "up" /\ pc' = "idle" /\ Return("ok")
        /\ data' = [data EXCEPT ![hole] = staged]
        /\ UNCHANGED <<size, capacity, live>>
        /\ hole # 0 => data[Parent(hole)] >= staged
    BY DEF PushEnd, Return, Belongs
  <1>4. hole \in Used
    BY <1>1, <1>3 DEF ControlShape
  <1>5. Used' = Used /\ \A i \in Used : Holding(i)' = Holding(i)
    BY <1>1, <1>2, <1>3, <1>4 DEF Used, Holding, TypeOK
  <1>6. Held' = Held
    BY <1>5 DEF Held
  <1>7. ControlShape'
    BY <1>3, ReturnShape
  <1>8. TypeOK'
    <2>1. data' \in [Slots -> Elements \cup {None}]
      BY <1>1, <1>3 DEF TypeOK
    <2> QED
      BY <1>1, <1>3, <2>1 DEF TypeOK, Return, Slots, HeapAssumption
  <1>9. Copies'
    <2>1. \A e : {i \in Used' : Holding(i)' = e} = {i \in Used : Holding(i) = e}
      BY <1>5
    <2> QED
      BY <1>1, <1>3, <1>5, <2>1 DEF Copies
  <1>10. ASSUME NEW i \in Used \ {0}
         PROVE  Parent(i) \in Used /\ Holding(Parent(i)) >= Holding(i)
    <2>1. Parent(i) \in Used /\ Parent(i) < i
      BY <1>2, Parents
    <2>2. CASE i = hole
      <3>1. Holding(i) = staged /\ Holding(Parent(i)) = data[Parent(i)] /\ i # 0
        <4>1. Parent(i) # hole
          BY <1>2, <2>1, <2>2
        <4> QED
          BY <4>1, <1>3, <2>2 DEF Holding
      <3> QED
        BY <1>3, <2>1, <2>2, <3>1
    <2>3. CASE i # hole
      BY <1>1, <1>3, <2>1, <2>3 DEF Ordered
    <2> QED
      BY <2>2, <2>3
  <1>11. Ordered'
    BY <1>3, <1>5, <1>10 DEF Ordered
  <1> QED
    BY <1>1, <1>6, <1>7, <1>8, <1>9, <1>11 DEF Inv, HeapOrder

-----------------------------------------------------------------------------
(* heap_pop *)

\* The copy on top is gone, and the last element moves over it.
LEMMA PopInv ==
    ASSUME Inv, Pop
    PROVE  /\ Inv'
           /\ 0 \in Used /\ data[0] \in Elements
           /\ \A e \in Elements :
                 /\ Contents(e) \in Nat /\ Contents(e)' \in Nat
                 /\ Contents(e) = Contents(e)' + (IF e = data[0] THEN 1 ELSE 0)
  <1>1. /\ HeapAssumption /\ TypeOK /\ ControlShape /\ Ordered
        /\ \A i \in Used : Holding(i) \in Elements
        /\ \A e \in Elements : live[e] = Contents(e)
    BY InvParts
  <1> PICK n : n = size
    OBVIOUS
  <1>2. /\ n \in Nat /\ n # 0 /\ size = n /\ IsFiniteSet(Used) /\ Used \subseteq Slots
        /\ n <= capacity /\ capacity \in Nat /\ capacity <= MaxCapacity
        /\ \A i : i \in Used <=> i \in Nat /\ i < n
    BY <1>1, UsedSlots DEF Pop, TypeOK, HeapAssumption
  <1>3. /\ pc = "pop" /\ size' = n - 1 /\ capacity' = capacity
        /\ live' = [live EXCEPT ![data[0]] = @ - 1]
        /\ data' = [i \in Slots |-> IF i >= n - 1 THEN None
                                    ELSE IF i = 0 THEN data[n - 1] ELSE data[i]]
        /\ IF n = 1 THEN Return("ok")
                    ELSE pc' = "down" /\ UNCHANGED <<call, hole, staged>>
    BY <1>2 DEF Pop
  <1>4. /\ hole = 0 /\ 0 \in Used /\ n - 1 \in Used
        /\ pc' # "up" /\ hole' = 0 /\ staged' \in Elements \cup {None}
        /\ pc' \in {"idle", "down"}
    BY <1>1, <1>2, <1>3 DEF ControlShape, Return, TypeOK
  <1>5. /\ Used' = 0 .. n - 2
        /\ Used' \subseteq Used
        /\ \A i : i \in Used' <=> i \in Nat /\ i < n - 1
    BY <1>2, <1>3 DEF Used
  <1>6. /\ \A i \in Used : Holding(i) = data[i]
        /\ \A i \in Used' : Holding(i)' = IF i = 0 THEN data[n - 1] ELSE data[i]
    <2>1. \A i \in Used : Holding(i) = data[i]
      BY <1>3 DEF Holding
    <2>2. ASSUME NEW i \in Used'
          PROVE  Holding(i)' = IF i = 0 THEN data[n - 1] ELSE data[i]
      <3>1. Holding(i)' = data'[i]
        BY <1>4 DEF Holding
      <3>2. i \in Slots /\ ~ (i >= n - 1)
        BY <1>2, <1>5
      <3> QED
        BY <3>1, <3>2, <1>3
    <2> QED
      BY <2>1, <2>2
  <1>7. /\ \A i \in Used : Held[i] = data[i] /\ data[i] \in Elements
        /\ \A i \in Used' : Held'[i] = IF i = 0 THEN data[n - 1] ELSE data[i]
    BY <1>1, <1>6 DEF Held
  <1>8. ASSUME NEW e \in Elements
        PROVE  /\ Contents(e) \in Nat /\ Contents(e)' \in Nat
               /\ Contents(e) = Contents(e)' + (IF e = data[0] THEN 1 ELSE 0)
    <2> DEFINE U == Used
               V == Used'
               W == U \ {0}
               S == Held
               T == Held'
               p == [i \in V |-> IF i = 0 THEN n - 1 ELSE i]
    <2>1. /\ IsFiniteSet(U) /\ IsFiniteSet(W) /\ IsFiniteSet(V)
          /\ OneSlotMore(W, U, S, S, 0) /\ S[0] = data[0]
      <3>1. IsFiniteSet(W) /\ IsFiniteSet(V)
        BY <1>2, <1>5, FS_Subset, W \subseteq U
      <3> QED
        BY <3>1, <1>2, <1>4, <1>7 DEF OneSlotMore
    <2>2. /\ p \in [V -> W]
          /\ \A x, y \in V : p[x] = p[y] => x = y
      <3>1. ASSUME NEW x \in V
            PROVE  p[x] \in W /\ (x # 0 => p[x] # n - 1)
        BY <1>2, <1>5
      <3> QED
        BY <3>1
    <2>3. ASSUME NEW x \in W
          PROVE  \E y \in V : p[y] = x
      <3>1. CASE x = n - 1
        <4>1. 0 \in V
          BY <1>2, <1>5, <3>1
        <4> QED
          BY <4>1, <3>1
      <3>2. CASE x # n - 1
        <4>1. x \in V /\ x # 0
          BY <1>2, <1>5, <3>2
        <4> QED
          BY <4>1
      <3> QED
        BY <3>1, <3>2
    <2>4. \A y \in V : T[y] = S[p[y]]
      BY <1>4, <1>5, <1>7
    <2> HIDE DEF U, V, W, S, T, p
    <2>5. /\ OccurrencesIn(W, S, e) \in Nat
          /\ OccurrencesIn(U, S, e) = OccurrencesIn(W, S, e) + (IF S[0] = e THEN 1 ELSE 0)
      BY <2>1, CountOneMore
    <2>6. OccurrencesIn(V, T, e) = OccurrencesIn(W, S, e)
      BY <2>1, <2>2, <2>3, <2>4, CountRearranged
    <2>7. Contents(e) = OccurrencesIn(U, S, e) /\ Contents(e)' = OccurrencesIn(V, T, e)
      BY DEF Contents, U, V, S, T
    <2> QED
      BY <2>1, <2>5, <2>6, <2>7
  <1>9. data[0] \in Elements
    BY <1>4, <1>7
  <1>10. live' \in [Elements -> Nat] /\ \A e \in Elements : live'[e] = Contents(e)'
    <2>1. ASSUME NEW e \in Elements
          PROVE  live'[e] = Contents(e)' /\ Contents(e)' \in Nat
      <3>1. live'[e] = live[e] - (IF e = data[0] THEN 1 ELSE 0) /\ live[e] = Contents(e)
        BY <1>1, <1>3, <1>9 DEF TypeOK
      <3> QED
        BY <3>1, <1>8
    <2>2. live' = [e \in Elements |-> live'[e]]
      BY <1>1, <1>3 DEF TypeOK
    <2> QED
      BY <2>1, <2>2
  <1>11. Copies'
    <2>1. \A i \in Used' : Holding(i)' \in Elements
      BY <1>4, <1>5, <1>6, <1>7
    <2>2. (/\ \A i \in Used : Holding(i) \in Elements
           /\ \A e \in Elements : live[e] = Contents(e))'
      BY <2>1, <1>10
    <2> QED
      BY <2>2, CopiesAre, PTL
  <1>12. TypeOK'
    <2>1. data' \in [Slots -> Elements \cup {None}]
      <3>1. n - 1 \in Slots /\ data \in [Slots -> Elements \cup {None}]
        BY <1>1, <1>2, <1>4 DEF TypeOK
      <3> QED
        BY <3>1, <1>3
    <2>2. hole' \in Slots
      BY <1>2, <1>4
    <2>3. capacity' \in 0 .. MaxCapacity /\ size' \in 0 .. capacity'
      BY <1>2, <1>3, <1>1 DEF TypeOK
    <2> QED
      BY <2>1, <2>2, <2>3, <1>4, <1>10 DEF TypeOK
  <1>13. ControlShape'
    <2>1. CASE n = 1
      BY <2>1, <1>3, ReturnShape
    <2>2. CASE n # 1
      <3>1. 0 \in Used'
        BY <2>2, <1>2, <1>5
      <3> QED
        BY <2>2, <3>1, <1>1, <1>3, <1>4 DEF ControlShape
    <2> QED
      BY <2>1, <2>2
  <1>14. Ordered'
    <2>1. ASSUME NEW i \in Used' \ {0}
          PROVE  Holding(Parent(i))' >= Holding(i)' \/ (pc' = "down" /\ Parent(i) = hole')
      <3>1. /\ i \in Nat /\ i < n - 1 /\ i # 0 /\ i \in Used
            /\ Parent(i) \in Used' /\ Parent(i) \in Used
            /\ pc' = "down"
        <4>1. i \in Nat /\ i < n - 1 /\ i # 0 /\ i \in Used
          BY <1>2, <1>5
        <4>2. Parent(i) \in Used' /\ Parent(i) \in Used
          BY <4>1, <1>2, <1>5, Parents
        <4>3. n # 1
          BY <4>1, <1>2
        <4> QED
          BY <4>1, <4>2, <4>3, <1>3
      <3>2. CASE Parent(i) = 0
        BY <3>1, <3>2, <1>4
      <3>3. CASE Parent(i) # 0
        <4>1. data[Parent(i)] >= data[i]
          BY <3>1, <1>1, <1>3, <1>6 DEF Ordered
        <4> QED
          BY <4>1, <3>1, <3>3, <1>6
      <3> QED
        BY <3>2, <3>3
    <2> QED
      BY <2>1, <1>4 DEF Ordered
  <1> QED
    BY <1>1, <1>4, <1>8, <1>9, <1>11, <1>12, <1>13, <1>14 DEF Inv, HeapOrder

\* The greater child is a child, and no other child exceeds it.
LEMMA Greater ==
    ASSUME HeapAssumption, TypeOK, \A i \in Used : data[i] \in Int,
           NEW h \in Used, Left(h) < size
    PROVE  /\ GreaterChild(h) \in Used \ {0} /\ Parent(GreaterChild(h)) = h
           /\ GreaterChild(h) > h
           /\ \A i \in Used \ {0} : Parent(i) = h => data[GreaterChild(h)] >= data[i]
  <1> DEFINE l == Left(h)
             c == GreaterChild(h)
  <1>1. size \in Nat /\ \A i : i \in Used <=> i \in Nat /\ i < size
    BY UsedSlots
  <1>2. h \in Nat /\ l \in Nat /\ l > h /\ Parent(l) = h /\ Parent(l + 1) = h
    BY <1>1, Children
  <1>3. l \in Used /\ (l + 1 < size => l + 1 \in Used)
    BY <1>1, <1>2
  <1>4. c = IF l + 1 < size /\ data[l] < data[l + 1] THEN l + 1 ELSE l
    BY DEF GreaterChild
  <1>5. ASSUME NEW i \in Used \ {0}, Parent(i) = h
        PROVE  i = l \/ (i = l + 1 /\ l + 1 < size)
    BY <1>1, <1>2, <1>5, Parents
  <1> HIDE DEF l, c
  <1>6. c \in Used \ {0} /\ Parent(c) = h /\ c > h
    BY <1>1, <1>2, <1>3, <1>4
  <1>7. ASSUME NEW i \in Used \ {0}, Parent(i) = h
        PROVE  data[c] >= data[i]
    <2>1. data[l] \in Int /\ (l + 1 < size => data[l + 1] \in Int)
      BY <1>3
    <2> QED
      BY <2>1, <1>4, <1>5, <1>7
  <1> QED
    BY <1>6, <1>7 DEF c

\* The element on its way down and its greater child exchange their slots.
LEMMA MoveDownInv ==
    ASSUME Inv, MoveDown
    PROVE  Inv' /\ \A e \in Elements : Contents(e)' = Contents(e)
  <1>1. /\ HeapAssumption /\ TypeOK /\ ControlShape /\ Ordered
        /\ \A i \in Used : Holding(i) \in Elements
        /\ \A i \in Used : Holding(i) \in Int
        /\ \A e \in Elements : live[e] = Contents(e)
    BY InvParts
  <1>2. /\ size \in Nat /\ IsFiniteSet(Used) /\ Used \subseteq Slots
        /\ \A i : i \in Used <=> i \in Nat /\ i < size
    BY <1>1, UsedSlots
  <1> PICK h : h = hole
    OBVIOUS
  <1> PICK c : c = GreaterChild(h)
    OBVIOUS
  <1>3. /\ pc = "down" /\ pc' = "down" /\ hole = h /\ hole' = c
        /\ data' = [data EXCEPT ![h] = data[c], ![c] = data[h]]
        /\ UNCHANGED <<size, capacity, live, call, staged>>
        /\ Left(h) < size /\ ~ (data[h] >= data[c])
    BY DEF MoveDown, Settled
  <1>4. /\ Used' = Used
        /\ \A i : Holding(i) = data[i] /\ Holding(i)' = data'[i]
    BY <1>3 DEF Used, Holding
  <1>5. \A i \in Used : data[i] \in Elements /\ data[i] \in Int
    BY <1>1, <1>4
  <1>6. /\ h \in Used /\ c \in Used \ {0} /\ Parent(c) = h /\ c > h
        /\ h \in Nat /\ c \in Nat
        /\ \A i \in Used \ {0} : Parent(i) = h => data[c] >= data[i]
    <2>1. h \in Used
      BY <1>1, <1>3 DEF ControlShape
    <2> QED
      BY <2>1, <1>1, <1>2, <1>3, <1>5, Greater
  <1>7. data[h] < data[c]
    BY <1>3, <1>5, <1>6
  <1>8. /\ data'[h] = data[c] /\ data'[c] = data[h]
        /\ \A i \in Used \ {h, c} : data'[i] = data[i]
    BY <1>1, <1>2, <1>3, <1>6 DEF TypeOK
  <1>9. ASSUME NEW e \in Elements
        PROVE  Contents(e)' = Contents(e)
    <2>1. /\ Held'[h] = Held[c] /\ Held'[c] = Held[h]
          /\ \A i \in Used \ {h, c} : Held'[i] = Held[i]
      BY <1>4, <1>6, <1>8 DEF Held
    <2>2. OccurrencesIn(Used, Held', e) = OccurrencesIn(Used, Held, e)
      BY <1>2, <1>6, <2>1, CountSwapped
    <2> QED
      BY <2>2, <1>4 DEF Contents
  <1>10. Copies'
    <2>1. \A i \in Used : data'[i] \in Elements
      BY <1>5, <1>6, <1>8
    <2>2. (/\ \A i \in Used : Holding(i) \in Elements
           /\ \A e \in Elements : live[e] = Contents(e))'
      BY <2>1, <1>1, <1>3, <1>4, <1>9
    <2> QED
      BY <2>2, CopiesAre, PTL
  <1>11. TypeOK'
    <2>1. data' \in [Slots -> Elements \cup {None}] /\ hole' \in Slots
      BY <1>1, <1>2, <1>3, <1>5, <1>6 DEF TypeOK
    <2> QED
      BY <1>1, <1>3, <2>1 DEF TypeOK
  <1>12. ControlShape'
    BY <1>1, <1>3, <1>4, <1>6 DEF ControlShape
  <1>13. ASSUME NEW i \in Used \ {0}
         PROVE  data'[Parent(i)] >= data'[i] \/ Parent(i) = c
    <2>1. Parent(i) \in Used /\ Parent(i) < i /\ i \in Nat /\ i \in Used
      BY <1>2, Parents
    <2>2. /\ data[i] \in Int /\ data[Parent(i)] \in Int
          /\ data[Parent(i)] >= data[i] \/ Parent(i) = h
      BY <1>1, <1>3, <1>4, <1>5, <2>1 DEF Ordered
    <2>3. CASE i = c
      BY <2>3, <1>5, <1>6, <1>7, <1>8
    <2>4. CASE i = h
      <3>1. data[Parent(h)] >= data[c]
        BY <2>4, <1>1, <1>3, <1>4, <1>6 DEF Ordered
      <3>2. Parent(i) \in Used \ {h, c}
        BY <2>1, <2>4, <1>6
      <3> QED
        BY <3>1, <3>2, <2>4, <1>8
    <2>5. CASE i # c /\ i # h /\ Parent(i) = h
      BY <2>1, <2>5, <1>6, <1>8
    <2>6. CASE i # c /\ i # h /\ Parent(i) # h /\ Parent(i) # c
      BY <2>1, <2>2, <2>6, <1>8
    <2> QED
      BY <2>3, <2>4, <2>5, <2>6
  <1>14. ASSUME NEW i \in Used \ {0}, Parent(i) = c
         PROVE  data'[Parent(c)] >= data'[i]
    <2>1. i \in Nat /\ c < i /\ i \in Used
      BY <1>2, <1>14, Parents
    <2>2. i \in Used \ {h, c}
      BY <2>1, <1>6
    <2>3. data[c] >= data[i]
      BY <2>1, <1>1, <1>3, <1>4, <1>6, <1>14 DEF Ordered
    <2> QED
      BY <2>2, <2>3, <1>6, <1>8
  <1>15. Ordered'
    <2>1. \A i \in Used' \ {0} :
             Holding(Parent(i))' >= Holding(i)' \/ (pc' = "down" /\ Parent(i) = hole')
      BY <1>3, <1>4, <1>13
    <2>2. \A i \in Used' \ {0} :
             Parent(i) = hole' => Holding(Parent(hole))' >= Holding(i)'
      <3>1. Holding(Parent(hole))' = data'[Parent(c)]
        BY <1>3 DEF Holding
      <3> QED
        BY <3>1, <1>3, <1>4, <1>14
    <2> QED
      BY <2>1, <2>2 DEF Ordered
  <1> QED
    BY <1>1, <1>9, <1>10, <1>11, <1>12, <1>15 DEF Inv, HeapOrder

\* Where the element stays, its children do not exceed it.
LEMMA PopEndInv ==
    ASSUME Inv, PopEnd
    PROVE  Inv' /\ Held' = Held
  <1>1. /\ HeapAssumption /\ TypeOK /\ ControlShape /\ Copies /\ Ordered
        /\ \A i \in Used : Holding(i) \in Int
    BY InvParts
  <1>2. /\ size \in Nat
        /\ \A i : i \in Used <=> i \in Nat /\ i < size
    BY <1>1, UsedSlots
  <1>3. /\ pc = "down" /\ pc' = "idle" /\ Return("ok")
        /\ UNCHANGED <<size, capacity, data, live>>
        /\ Settled
    BY DEF PopEnd, Return
  <1>4. /\ Used' = Used
        /\ \A i : Holding(i) = data[i] /\ Holding(i)' = data[i]
    BY <1>3 DEF Used, Holding
  <1>5. Held' = Held
    BY <1>4 DEF Held
  <1>6. ControlShape'
    BY <1>3, ReturnShape
  <1>7. TypeOK'
    BY <1>1, <1>3 DEF TypeOK, Return, Slots, HeapAssumption
  <1>8. Copies'
    BY <1>1, <1>3, <1>4 DEF Copies
  <1>9. ASSUME NEW i \in Used \ {0}
        PROVE  data[Parent(i)] >= data[i]
    <2>1. CASE Parent(i) # hole
      BY <2>1, <1>1, <1>3, <1>4 DEF Ordered
    <2>2. CASE Parent(i) = hole
      <3>1. hole \in Used /\ hole \in Nat /\ i \in Nat /\ i < size
        BY <1>1, <1>2, <1>3 DEF ControlShape
      <3>2. Left(hole) < size
        BY <2>2, <3>1, <1>2, Parents, Children
      <3>3. \A j \in Used : data[j] \in Int
        BY <1>1, <1>4
      <3>4. /\ GreaterChild(hole) \in Used
            /\ data[GreaterChild(hole)] >= data[i]
        BY <2>2, <3>1, <3>2, <3>3, <1>1, Greater
      <3>5. data[hole] >= data[GreaterChild(hole)]
        BY <3>2, <1>3 DEF Settled
      <3> PICK g : g = GreaterChild(hole)
        OBVIOUS
      <3>6. /\ data[hole] \in Int /\ data[g] \in Int /\ data[i] \in Int
            /\ data[hole] >= data[g] /\ data[g] >= data[i]
        BY <3>1, <3>3, <3>4, <3>5
      <3>7. data[hole] >= data[i]
        BY <3>6
      <3> QED
        BY <2>2, <3>7
    <2> QED
      BY <2>1, <2>2
  <1>10. Ordered'
    BY <1>3, <1>4, <1>9 DEF Ordered
  <1> QED
    BY <1>1, <1>5, <1>6, <1>7, <1>8, <1>10 DEF Inv, HeapOrder

-----------------------------------------------------------------------------
(* heap_clear and heap_destroy, and the whole *)

\* Nothing is left, in no slot.
LEMMA EmptyContents == Used = {} => \A e \in Elements : Contents(e) = 0
  <1> SUFFICES ASSUME Used = {}, NEW e \in Elements PROVE Contents(e) = 0
    OBVIOUS
  <1>1. {i \in Used : Held[i] = e} = {}
    OBVIOUS
  <1> QED
    BY <1>1, FS_EmptySet DEF Contents, OccurrencesIn

LEMMA ClearInv ==
    ASSUME Inv, Clear
    PROVE  /\ Inv'
           /\ \A e \in Elements : live'[e] = 0 /\ Contents(e)' = 0
  <1>1. /\ HeapAssumption /\ TypeOK /\ ControlShape
        /\ \A i \in Used : Holding(i) \in Elements
        /\ \A e \in Elements : live[e] = Contents(e)
    BY InvParts
  <1>2. /\ pc \in {"clear", "destroy"} /\ pc' = "idle" /\ Return("ok")
        /\ live' = [e \in Elements |-> live[e] - Count(e)]
        /\ size' = 0 /\ data' = [i \in Slots |-> None]
        /\ capacity' = IF pc = "destroy" THEN 0 ELSE capacity
    BY DEF Clear, Return
  <1>3. (Used = {})'
    BY <1>2 DEF Used
  <1>4. \A e \in Elements : Contents(e)' = 0
    <2>1. (\A e \in Elements : Contents(e) = 0)'
      BY <1>3, EmptyContents, PTL
    <2> QED
      BY <2>1
  <1>5. ASSUME NEW e \in Elements
        PROVE  live'[e] = 0
    <2>1. {i \in Used : data[i] = e} = {i \in Used : Holding(i) = e}
      BY <1>2 DEF Holding
    <2>2. Count(e) = Contents(e)
      BY <2>1, ContentsAre DEF Count
    <2>3. live[e] \in Nat
      BY <1>1 DEF TypeOK
    <2> QED
      BY <2>2, <2>3, <1>1, <1>2
  <1>6. Copies'
    <2>1. (/\ \A i \in Used : Holding(i) \in Elements
           /\ \A e \in Elements : live[e] = Contents(e))'
      BY <1>3, <1>4, <1>5
    <2> QED
      BY <2>1, CopiesAre, PTL
  <1>7. TypeOK'
    <2>1. live' \in [Elements -> Nat]
      BY <1>2, <1>5
    <2>2. capacity' \in 0 .. MaxCapacity /\ size' \in 0 .. capacity' /\ 0 \in Slots
      BY <1>1, <1>2 DEF TypeOK, HeapAssumption, Slots
    <2> QED
      BY <1>1, <1>2, <2>1, <2>2 DEF TypeOK, Return
  <1>8. ControlShape'
    BY <1>2, ReturnShape
  <1>9. Ordered'
    BY <1>2, <1>3 DEF Ordered
  <1> QED
    BY <1>1, <1>4, <1>5, <1>6, <1>7, <1>8, <1>9 DEF Inv, HeapOrder

LEMMA InitInv ==
    ASSUME HeapAssumption, Init
    PROVE  Inv /\ \A e \in Elements : live[e] = 0 /\ Contents(e) = 0
  <1>1. Used = {}
    BY DEF Used, Init
  <1>2. \A e \in Elements : Contents(e) = 0
    BY <1>1, EmptyContents
  <1>3. \A e \in Elements : live[e] = 0
    BY DEF Init
  <1>4. Copies
    BY <1>1, <1>2, <1>3, CopiesAre
  <1>5. TypeOK
    BY DEF TypeOK, Init, HeapAssumption, Slots
  <1>6. ControlShape
    BY DEF ControlShape, Init
  <1>7. Ordered
    BY <1>1 DEF Ordered, Init
  <1> QED
    BY <1>2, <1>3, <1>4, <1>5, <1>6, <1>7 DEF Inv, HeapOrder

LEMMA NextInv == Inv /\ [Next]_vars => Inv'
  <1> SUFFICES ASSUME Inv, [Next]_vars
               PROVE  Inv'
    OBVIOUS
  <1>1. CASE UNCHANGED vars
    <2>1. TypeOK' /\ ControlShape'
      BY <1>1 DEF vars, Inv, HeapOrder, TypeOK, ControlShape, Used
    <2>2. Copies' /\ Ordered'
      BY <1>1 DEF vars, Inv, HeapOrder, Copies, Ordered, Used, Holding
    <2> QED
      BY <2>1, <2>2 DEF Inv, HeapOrder
  <1>2. CASE Calls
    BY <1>2, CallInv
  <1>3. CASE ReserveEnough \/ Reserve \/ ReserveFails
    BY <1>3, ReserveInv
  <1>4. CASE PushFails
    BY <1>4, FailInv DEF PushFails
  <1>5. CASE PushGrow
    BY <1>5, PushGrowInv
  <1>6. CASE PushStage
    BY <1>6, PushStageInv
  <1>7. CASE MoveUp
    BY <1>7, MoveUpInv
  <1>8. CASE PushEnd
    BY <1>8, PushEndInv
  <1>9. CASE PopEmpty
    BY <1>9, FailInv DEF PopEmpty
  <1>10. CASE Pop
    BY <1>10, PopInv
  <1>11. CASE MoveDown
    BY <1>11, MoveDownInv
  <1>12. CASE PopEnd
    BY <1>12, PopEndInv
  <1>13. CASE Clear
    BY <1>13, ClearInv
  <1> QED
    BY <1>1, <1>2, <1>3, <1>4, <1>5, <1>6, <1>7, <1>8, <1>9, <1>10, <1>11, <1>12,
       <1>13 DEF Next

LEMMA InvHolds ==
    ASSUME HeapAssumption
    PROVE  Spec => []Inv
  <1>1. Init => Inv
    BY InitInv
  <1> QED
    BY <1>1, NextInv, PTL DEF Spec

\* heap.c keeps its tree in order for every capacity, every size and every set
\* of elements, in every state of a push and a pop too: no slot is above its
\* parent but for the element on its way, and the copies that live are those
\* the heap holds.
THEOREM HeapOrderHolds ==
    ASSUME HeapAssumption
    PROVE  Spec => []HeapOrder
  <1>1. Inv => HeapOrder
    BY DEF Inv
  <1> QED
    BY <1>1, InvHolds, PTL

-----------------------------------------------------------------------------
(* Callers see a bag *)

\* What a caller sees: the elements, and the call, which is answered as soon
\* as only the order is left to restore.
Shown == [e \in Elements |-> Contents(e)]
ShownCall == [call EXCEPT !.ret = IF pc \in {"up", "down"} THEN "ok" ELSE @]

LEMMA ShownIs ==
    Shown = [e \in Elements |-> Cardinality({i \in Used : Holding(i) = e})]
  BY ContentsAre, Zenon DEF Shown

LEMMA ShownIsNext ==
    (Shown = [e \in Elements |-> Cardinality({i \in Used : Holding(i) = e})])'
  BY ShownIs, PTL

\* The copies that live are the elements that are shown.
LEMMA ShownLives == Inv => live = Shown
  <1> SUFFICES ASSUME Inv PROVE live = Shown
    OBVIOUS
  <1>1. live \in [Elements -> Nat] /\ \A e \in Elements : live[e] = Contents(e)
    BY InvParts DEF TypeOK
  <1> QED
    BY <1>1 DEF Shown

LEMMA ShownSame ==
    ASSUME Held' = Held, size' = size
    PROVE  Shown' = Shown
  BY DEF Shown, Contents, Used

\* An element is shown if and only if a slot holds it.
LEMMA HeldBy ==
    ASSUME TypeOK, HeapAssumption, NEW e
    PROVE  Contents(e) \in Nat /\ (Contents(e) # 0 <=> \E i \in Used : Holding(i) = e)
  <1> DEFINE S == {i \in Used : Holding(i) = e}
  <1>1. IsFiniteSet(S)
    BY UsedSlots, FS_Subset, S \subseteq Used
  <1>2. Cardinality(S) \in Nat /\ (Cardinality(S) = 0 <=> S = {})
    <2> HIDE DEF S
    <2> QED
      BY <1>1, FS_CardinalityType, FS_EmptySet
  <1>3. Contents(e) = Cardinality(S)
    BY ContentsAre
  <1> QED
    BY <1>2, <1>3

\* The top is a greatest element: else there is a slot that holds more than
\* the top, and the first such slot exceeds its parent.
LEMMA TopIsGreatest ==
    ASSUME Inv, pc = "pop", 0 \in Used
    PROVE  \A i \in Used : data[i] <= data[0]
  <1>1. /\ HeapAssumption /\ TypeOK /\ Ordered
        /\ \A i \in Used : Holding(i) \in Int
    BY InvParts
  <1>2. size \in Nat /\ \A i : i \in Used <=> i \in Nat /\ i < size
    BY <1>1, UsedSlots
  <1>3. \A i \in Used : data[i] \in Int /\ Holding(i) = data[i]
    BY <1>1 DEF Holding
  <1>4. ASSUME NEW i \in Used \ {0}
        PROVE  Parent(i) \in Used /\ Parent(i) < i /\ data[Parent(i)] >= data[i]
    <2>1. Parent(i) \in Used /\ Parent(i) < i
      BY <1>2, Parents
    <2>2. Holding(Parent(i)) >= Holding(i)
      BY <1>1 DEF Ordered
    <2> QED
      BY <2>1, <2>2, <1>3
  <1> DEFINE Above == {i \in Used : data[i] > data[0]}
  <1>5. Above = {}
    <2>1. SUFFICES ASSUME Above # {}
                   PROVE  FALSE
      OBVIOUS
    <2>2. Above \subseteq Nat
      BY <1>2
    <2>3. PICK m \in Above : \A i \in Above : m <= i
      <3> HIDE DEF Above
      <3> QED
        BY <2>1, <2>2, LeastNatural
    <2>4. m \in Used \ {0} /\ data[m] > data[0] /\ data[0] \in Int /\ data[m] \in Int
      BY <1>3
    <2> PICK p : p = Parent(m)
      OBVIOUS
    <2>5. p \in Used /\ p < m /\ data[p] >= data[m] /\ data[p] \in Int
      BY <2>4, <1>3, <1>4
    <2>6. p \in Above
      BY <2>4, <2>5
    <2>7. p \in Nat /\ m \in Nat
      BY <2>4, <2>5, <1>2
    <2> QED
      BY <2>3, <2>5, <2>6, <2>7
  <1>6. ASSUME NEW i \in Used
        PROVE  data[i] <= data[0]
    BY <1>3, <1>5
  <1> QED
    BY <1>6

LEMMA Answers ==
    ASSUME Inv, pc \notin {"idle", "up", "down"},
           NEW ret \in {"ok", "error"},
           ShownCall' = [call EXCEPT !.ret = ret],
           NEW ops, call.op \in ops, NEW c, Shown' = c, live' = c
    PROVE  Bag!Answer(ops, ret, c)
  <1>1. /\ call.ret = "pending"
        /\ call \in [op : {"init", "push", "pop", "reserve", "clear", "destroy"},
                     elem : Elements \cup {None}, at : Nat,
                     ret : {"pending", "ok", "error"}]
    BY InvParts DEF ControlShape
  <1>2. ShownCall = call
    BY <1>1 DEF ShownCall
  <1> QED
    BY <1>1, <1>2, ShownIsNext DEF Bag!Answer, Bag!Idle, ShownCall

\* A failed call leaves the bag as it is.
LEMMA FailStep ==
    ASSUME Inv, Fail, pc \in {"push", "stage", "reserve"}
    PROVE  [Bag!Next]_Bag!bagVars
  <1>1. Shown' = Shown /\ ShownCall' = [call EXCEPT !.ret = "error"] /\ live' = Shown
    <2>1. Shown' = Shown
      BY FailInv, ShownSame DEF Fail
    <2> QED
      BY <2>1, ShownLives DEF Fail, Return, ShownCall
  <1>2. call.op \in {"push", "reserve"}
    BY InvParts DEF ControlShape
  <1>3. Bag!Answer({"push", "reserve"}, "error", Shown)
    BY <1>1, <1>2, Answers
  <1> QED
    BY <1>3, ShownIs DEF Bag!Next, Bag!Refuse

LEMMA CallStep ==
    ASSUME Inv, Calls
    PROVE  [Bag!Next]_Bag!bagVars
  <1>1. PICK op \in {"push", "pop", "reserve", "clear", "destroy"},
             e \in Elements \cup {None}, n \in Capacities \cup {0} : Call(op, e, n)
    BY DEF Calls
  <1>2. Shown' = Shown /\ live' = live
    BY <1>1, CallInv, ShownSame DEF Call
  <1>3. /\ ShownCall = call /\ call.ret # "pending"
        /\ ShownCall' = [op |-> op, elem |-> e, at |-> n, ret |-> "pending"]
    <2>1. call.ret # "pending" /\ call = [call EXCEPT !.ret = call.ret]
      BY <1>1, InvParts DEF Call, ControlShape
    <2> QED
      BY <1>1, <2>1 DEF Call, ShownCall
  <1>4. Bag!Call(op, e, n)
    BY <1>2, <1>3, ShownIs, ShownIsNext DEF Bag!Call, Bag!Idle, ShownCall
  <1> QED
    BY <1>4 DEF Bag!Next

LEMMA ReserveStep ==
    ASSUME Inv, ReserveEnough \/ Reserve \/ ReserveFails
    PROVE  [Bag!Next]_Bag!bagVars
  <1>1. CASE ReserveFails
    BY <1>1, FailStep DEF ReserveFails
  <1>2. CASE ReserveEnough \/ Reserve
    <2>1. pc = "reserve" /\ Return("ok") /\ live' = live
      BY <1>2 DEF ReserveEnough, Reserve
    <2>2. call.op = "reserve"
      BY <2>1, InvParts DEF ControlShape
    <2>3. Shown' = Shown /\ ShownCall' = [call EXCEPT !.ret = "ok"] /\ live' = Shown
      <3>1. Shown' = Shown
        BY <1>2, ReserveInv, ShownSame DEF ReserveEnough, Reserve
      <3> QED
        BY <2>1, <3>1, ShownLives DEF Return, ShownCall
    <2>4. Bag!Answer({"reserve"}, "ok", Shown)
      BY <2>1, <2>2, <2>3, Answers
    <2> QED
      BY <2>4, ShownIs DEF Bag!Next, Bag!Reserve
  <1> QED
    BY <1>1, <1>2

LEMMA PushStageStep ==
    ASSUME Inv, PushStage
    PROVE  [Bag!Next]_Bag!bagVars
  <1>1. /\ Inv' /\ call.elem \in Elements
        /\ \A e \in Elements :
              Contents(e)' = Contents(e) + (IF e = call.elem THEN 1 ELSE 0)
    BY PushStageInv
  <1>2. pc = "stage" /\ pc' = "up" /\ call' = call /\ call.op = "push"
    BY InvParts DEF PushStage, ControlShape
  <1>3. ShownCall' = [call EXCEPT !.ret = "ok"]
    BY <1>2 DEF ShownCall
  <1>4. \A e \in Elements : Contents(e) \in Nat
    BY HeldBy, InvParts
  <1>5. Shown' = [Shown EXCEPT ![call.elem] = @ + 1]
    BY <1>1, <1>4 DEF Shown
  <1>6. live' = Shown'
    <2>1. (live = Shown)'
      BY <1>1, ShownLives, PTL
    <2> QED
      BY <2>1
  <1>7. Bag!Answer({"push"}, "ok", [Shown EXCEPT ![call.elem] = @ + 1])
    BY <1>2, <1>3, <1>5, <1>6, Answers
  <1>8. ShownCall.elem = call.elem
    BY InvParts DEF ShownCall, ControlShape
  <1> QED
    BY <1>1, <1>7, <1>8, ShownIs DEF Bag!Next, Bag!Push, ShownCall

LEMMA PopStep ==
    ASSUME Inv, Pop
    PROVE  [Bag!Next]_Bag!bagVars
  <1>1. /\ Inv' /\ 0 \in Used /\ data[0] \in Elements
        /\ \A e \in Elements :
              /\ Contents(e) \in Nat /\ Contents(e)' \in Nat
              /\ Contents(e) = Contents(e)' + (IF e = data[0] THEN 1 ELSE 0)
    BY PopInv
  <1>2. pc = "pop" /\ call.op = "pop" /\ HeapAssumption /\ TypeOK
        /\ \A i \in Used : Holding(i) = data[i] /\ Holding(i) \in Int
    BY InvParts DEF Pop, ControlShape, Holding
  <1>3. ShownCall' = [call EXCEPT !.ret = "ok"]
    <2>1. \/ call' = [call EXCEPT !.ret = "ok"] /\ pc' = "idle"
          \/ call' = call /\ pc' = "down"
      BY DEF Pop, Return
    <2> QED
      BY <2>1, InvParts DEF ShownCall, ControlShape
  <1>4. /\ Bag!Held(Shown) = {e \in Elements : \E i \in Used : data[i] = e}
    BY <1>2, HeldBy DEF Shown, Bag!Held
  <1>5. data[0] \in Bag!Held(Shown) /\ \A f \in Bag!Held(Shown) : f <= data[0]
    BY <1>1, <1>2, <1>4, TopIsGreatest
  <1>6. Bag!Greatest(Shown) = data[0]
    <2> DEFINE H == Bag!Held(Shown)
    <2>1. H \subseteq Int
      BY <1>2 DEF HeapAssumption, Bag!Held
    <2>2. PICK g : g = CHOOSE e \in H : \A f \in H : f <= e
      OBVIOUS
    <2> HIDE DEF H
    <2>3. g \in H /\ \A f \in H : f <= g
      BY <1>5, <2>2 DEF H
    <2>4. g = data[0]
      <3>1. g \in Int /\ data[0] \in Int /\ g <= data[0] /\ data[0] <= g
        BY <1>5, <2>1, <2>3 DEF H
      <3> QED
        BY <3>1
    <2> QED
      BY <2>2, <2>4 DEF H, Bag!Greatest
  <1>7. Shown' = [Shown EXCEPT ![data[0]] = @ - 1]
    BY <1>1 DEF Shown
  <1>8. live' = Shown'
    <2>1. (live = Shown)'
      BY <1>1, ShownLives, PTL
    <2> QED
      BY <2>1
  <1>9. Bag!Answer({"pop"}, "ok", [Shown EXCEPT ![Bag!Greatest(Shown)] = @ - 1])
    BY <1>2, <1>3, <1>6, <1>7, <1>8, Answers
  <1>10. Bag!Held(Shown) # {}
    BY <1>5
  <1> QED
    BY <1>9, <1>10, ShownIs DEF Bag!Next, Bag!Pop

LEMMA PopEmptyStep ==
    ASSUME Inv, PopEmpty
    PROVE  [Bag!Next]_Bag!bagVars
  <1>1. pc = "pop" /\ size = 0 /\ Fail /\ call.op = "pop"
    BY InvParts DEF PopEmpty, ControlShape
  <1>2. Shown' = Shown /\ ShownCall' = [call EXCEPT !.ret = "error"] /\ live' = Shown
    <2>1. Shown' = Shown
      BY <1>1, FailInv, ShownSame DEF Fail
    <2> QED
      BY <1>1, <2>1, ShownLives DEF Fail, Return, ShownCall
  <1>3. Bag!Answer({"pop"}, "error", Shown)
    BY <1>1, <1>2, Answers
  <1>4. Bag!Held(Shown) = {}
    <2>1. \A e \in Elements : Contents(e) = 0
      BY <1>1, EmptyContents DEF Used
    <2> QED
      BY <2>1 DEF Shown, Bag!Held
  <1> QED
    BY <1>3, <1>4, ShownIs DEF Bag!Next, Bag!PopEmpty

LEMMA ClearStep ==
    ASSUME Inv, Clear
    PROVE  [Bag!Next]_Bag!bagVars
  <1>1. /\ pc \in {"clear", "destroy"} /\ call.op \in {"clear", "destroy"}
        /\ Return("ok")
    BY InvParts DEF Clear, ControlShape
  <1>2. ShownCall' = [call EXCEPT !.ret = "ok"]
    BY <1>1 DEF Return, ShownCall
  <1>3. Shown' = [e \in Elements |-> 0]
    BY ClearInv DEF Shown
  <1>4. live' = [e \in Elements |-> 0]
    <2>1. (live = Shown)'
      BY ClearInv, ShownLives, PTL
    <2> QED
      BY <2>1, <1>3
  <1>5. Bag!Answer({"clear", "destroy"}, "ok", [e \in Elements |-> 0])
    BY <1>1, <1>2, <1>3, <1>4, Answers
  <1> QED
    BY <1>5 DEF Bag!Next, Bag!Clear

\* Making room and moving elements is not seen.
LEMMA HiddenStep ==
    ASSUME Inv, PushGrow \/ MoveUp \/ PushEnd \/ MoveDown \/ PopEnd \/ UNCHANGED vars
    PROVE  UNCHANGED Bag!bagVars
  <1>1. Shown' = Shown
    <2>1. CASE PushGrow \/ PushEnd \/ PopEnd
      BY <2>1, PushGrowInv, PushEndInv, PopEndInv, ShownSame
         DEF PushGrow, PushEnd, PopEnd
    <2>2. CASE MoveUp \/ MoveDown
      BY <2>2, MoveUpInv, MoveDownInv DEF Shown
    <2>3. CASE UNCHANGED vars
      BY <2>3 DEF vars, Shown, Contents, Held, Used, Holding
    <2> QED
      BY <2>1, <2>2, <2>3
  <1>2. ShownCall' = ShownCall
    <2>1. CASE PushGrow
      BY <2>1 DEF PushGrow, ShownCall
    <2>2. CASE MoveUp \/ MoveDown \/ UNCHANGED vars
      BY <2>2 DEF MoveUp, MoveDown, vars, ShownCall
    <2>3. CASE PushEnd \/ PopEnd
      BY <2>3 DEF PushEnd, PopEnd, Return, ShownCall
    <2> QED
      BY <2>1, <2>2, <2>3
  <1>3. live' = live
    BY DEF PushGrow, MoveUp, PushEnd, MoveDown, PopEnd, vars
  <1> QED
    BY <1>1, <1>2, <1>3, ShownIs, ShownIsNext DEF Bag!bagVars, ShownCall

LEMMA NextStep == Inv /\ [Next]_vars => [Bag!Next]_Bag!bagVars
  <1> SUFFICES ASSUME Inv, [Next]_vars
               PROVE  [Bag!Next]_Bag!bagVars
    OBVIOUS
  <1>1. CASE PushGrow \/ MoveUp \/ PushEnd \/ MoveDown \/ PopEnd \/ UNCHANGED vars
    BY <1>1, HiddenStep
  <1>2. CASE Calls
    BY <1>2, CallStep
  <1>3. CASE ReserveEnough \/ Reserve \/ ReserveFails
    BY <1>3, ReserveStep
  <1>4. CASE PushFails
    BY <1>4, FailStep DEF PushFails
  <1>5. CASE PushStage
    BY <1>5, PushStageStep
  <1>6. CASE Pop
    BY <1>6, PopStep
  <1>7. CASE PopEmpty
    BY <1>7, PopEmptyStep
  <1>8. CASE Clear
    BY <1>8, ClearStep
  <1> QED
    BY <1>1, <1>2, <1>3, <1>4, <1>5, <1>6, <1>7, <1>8 DEF Next

LEMMA BagStart ==
    ASSUME HeapAssumption, Init
    PROVE  Bag!Init
  <1>1. Shown = [e \in Elements |-> 0] /\ live = [e \in Elements |-> 0]
    BY InitInv DEF Init, Shown
  <1>2. ShownCall = [op |-> "init", elem |-> None, at |-> 0, ret |-> "ok"]
    BY DEF Init, ShownCall
  <1> QED
    BY <1>1, <1>2, ShownIs DEF Bag!Init, ShownCall

\* heap.c implements a bag whose pops remove a greatest element: every call
\* and every failure shows callers a behaviour of BagSpec.
THEOREM HeapImplementsBag ==
    ASSUME HeapAssumption
    PROVE  Spec => ImplementsBag
  <1>1. Init => Bag!Init
    BY BagStart
  <1>2. Spec => Bag!Spec
    BY <1>1, InvHolds, NextStep, PTL DEF Spec, Bag!Spec
  <1> QED
    BY <1>2 DEF ImplementsBag
=============================================================================
