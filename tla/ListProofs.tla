---------------------------- MODULE ListProofs ----------------------------
(* What is proved of List for every instance: the nodes that are allocated *)
(* are those of the list, linked both ways, each with one copy of an       *)
(* element, and callers see a sequence.                                    *)
EXTENDS List, ContainerLemmas

-----------------------------------------------------------------------------
(* Following the links *)

\* A walk is the function that starts right and takes every link.
LEMMA FollowIs ==
    ASSUME NEW start, NEW link, NEW m \in Nat, NEW g,
           g = [n \in 0 .. m |-> IF n = 0 THEN start ELSE link[g[n - 1]]]
    PROVE  Follow(start, link, m) = g
  <1> DEFINE F == Follow(start, link, m)
  <1>1. F = [n \in 0 .. m |-> IF n = 0 THEN start ELSE link[F[n - 1]]]
    BY DEF Follow
  <1> HIDE DEF F
  <1> DEFINE D == {n \in 0 .. m : F[n] # g[n]}
  <1>2. D = {}
    <2> SUFFICES ASSUME D # {} PROVE FALSE
      OBVIOUS
    <2>1. D \subseteq Nat
      OBVIOUS
    <2>2. PICK d \in D : \A n \in D : d <= n
      <3> HIDE DEF D
      <3> QED
        BY <2>1, LeastNatural
    <2>3. d \in 0 .. m /\ F[d] # g[d]
      OBVIOUS
    <2>4. CASE d = 0
      BY <1>1, <2>3, <2>4
    <2>5. CASE d # 0
      <3>1. d - 1 \in 0 .. m /\ d \in Nat /\ ~ (d <= d - 1)
        BY <2>3, <2>5
      <3>2. F[d - 1] = g[d - 1]
        BY <2>2, <3>1
      <3>3. F[d] = link[F[d - 1]] /\ g[d] = link[g[d - 1]]
        BY <1>1, <2>3, <2>5
      <3> QED
        BY <2>3, <3>2, <3>3
    <2> QED
      BY <2>4, <2>5
  <1>3. \A n \in 0 .. m : F[n] = g[n]
    BY <1>2
  <1>4. F = [n \in 0 .. m |-> F[n]] /\ g = [n \in 0 .. m |-> g[n]]
    BY <1>1
  <1>5. F = g
    BY <1>3, <1>4
  <1> QED
    BY <1>5 DEF F

\* o lists the m nodes of the list in their order.
Order(m, o) ==
    /\ m \in Nat /\ Count = m /\ IsFiniteSet(allocated)
    /\ allocated \subseteq Nodes
    /\ o \in [1 .. m -> allocated]
    /\ Linked(o)

\* What the nodes in the order o hold.
Contents(m, o) == [n \in 1 .. m |-> data[o[n]]]

Inv ==
    /\ TypeOK /\ ControlShape
    /\ \E o \in [1 .. Count -> allocated] : Linked(o)
    /\ \A e \in Elements : live[e] = Occurrences(Count, Sequence, e)

LEMMA InvParts ==
    ASSUME Inv
    PROVE  /\ TypeOK /\ ControlShape
           /\ \E m \in Nat : \E o : Order(m, o)
           /\ Count \in Nat
           /\ \A e \in Elements : live[e] = Occurrences(Count, Sequence, e)
  <1>1. IsFiniteSet(allocated) /\ allocated \subseteq Nodes
    BY ListAssumption, FS_Subset DEF Inv, TypeOK
  <1>2. Count \in Nat
    BY <1>1, FS_CardinalityType DEF Count
  <1>3. PICK o \in [1 .. Count -> allocated] : Linked(o)
    BY DEF Inv
  <1>4. Order(Count, o)
    BY <1>1, <1>2, <1>3 DEF Order
  <1> QED
    BY <1>2, <1>4 DEF Inv

\* The parts of an order.
LEMMA OrderParts ==
    ASSUME NEW m, NEW o, Order(m, o)
    PROVE  /\ m \in Nat /\ Count = m /\ IsFiniteSet(allocated)
           /\ \A k \in 1 .. m : o[k] \in allocated /\ o[k] \in Nodes /\ o[k] # None
           /\ \A n \in allocated : \E k \in 1 .. m : o[k] = n
           /\ \A j, k \in 1 .. m : o[j] = o[k] => j = k
           /\ Start = IF m = 0 THEN None ELSE o[1]
           /\ \A k \in 1 .. m :
                 /\ next[o[k]] = IF k = m THEN None ELSE o[k + 1]
                 /\ data[o[k]] \in Elements
           /\ ~Clearing =>
                 /\ size = m
                 /\ head = IF m = 0 THEN None ELSE o[1]
                 /\ tail = IF m = 0 THEN None ELSE o[m]
                 /\ \A k \in 1 .. m : prev[o[k]] = IF k = 1 THEN None ELSE o[k - 1]
  BY ListAssumption DEF Order, Linked, Start

\* The sequence that is shown is what the nodes hold in their order.
OrderShows ==
    \A m \in Nat : \A o : Order(m, o) =>
        Sequence = Contents(m, o) /\ Sequence \in [1 .. m -> Elements]

LEMMA SequenceIs == OrderShows
  <1> SUFFICES ASSUME NEW m \in Nat, NEW o, Order(m, o)
               PROVE  Sequence = Contents(m, o) /\ Sequence \in [1 .. m -> Elements]
    BY DEF OrderShows
  <1> DEFINE g == [n \in 0 .. m |-> IF n < m THEN o[n + 1] ELSE None]
  <1>1. ASSUME NEW n \in 0 .. m
        PROVE  g[n] = IF n = 0 THEN Start ELSE next[g[n - 1]]
    <2>1. CASE n = 0
      BY <2>1, OrderParts
    <2>2. CASE n # 0
      <3>1. n \in 1 .. m /\ n - 1 \in 0 .. m /\ n - 1 < m /\ (n - 1) + 1 = n
        BY <2>2
      <3>2. g[n - 1] = o[n] /\ g[n] = IF n < m THEN o[n + 1] ELSE None
        BY <3>1
      <3>3. next[o[n]] = IF n = m THEN None ELSE o[n + 1]
        BY <3>1, OrderParts
      <3> QED
        BY <2>2, <3>1, <3>2, <3>3
    <2> QED
      BY <2>1, <2>2
  <1>2. g = [n \in 0 .. m |-> IF n = 0 THEN Start ELSE next[g[n - 1]]]
    BY <1>1
  <1>3. \A n \in 1 .. m : g[n - 1] = o[n]
    <2> SUFFICES ASSUME NEW n \in 1 .. m PROVE g[n - 1] = o[n]
      OBVIOUS
    <2>1. n - 1 \in 0 .. m /\ n - 1 < m /\ (n - 1) + 1 = n
      OBVIOUS
    <2> QED
      BY <2>1
  <1> HIDE DEF g
  <1>4. Follow(Start, next, m) = g
    BY <1>2, FollowIs
  <1>5. Count = m /\ \A k \in 1 .. m : data[o[k]] \in Elements
    BY OrderParts
  <1>6. Sequence = Contents(m, o)
    BY <1>3, <1>4, <1>5 DEF Sequence, Contents
  <1> QED
    BY <1>5, <1>6 DEF Contents

LEMMA SequenceIsNext == OrderShows'
  BY SequenceIs, PTL

\* The walk from the front comes to the nodes in their order, the walk from
\* the back in the opposite one, and both end in NULL after all of them.
LEMMA WalksAre ==
    ASSUME NEW m, NEW o, Order(m, o), ~Clearing
    PROVE  /\ Forward = [n \in 0 .. m |-> IF n < m THEN o[n + 1] ELSE None]
           /\ Backward = [n \in 0 .. m |-> IF n < m THEN o[m - n] ELSE None]
  <1> DEFINE f == [n \in 0 .. m |-> IF n < m THEN o[n + 1] ELSE None]
             b == [n \in 0 .. m |-> IF n < m THEN o[m - n] ELSE None]
  <1>1. /\ m \in Nat /\ size = m
        /\ head = IF m = 0 THEN None ELSE o[1]
        /\ tail = IF m = 0 THEN None ELSE o[m]
        /\ \A k \in 1 .. m :
              /\ next[o[k]] = IF k = m THEN None ELSE o[k + 1]
              /\ prev[o[k]] = IF k = 1 THEN None ELSE o[k - 1]
    BY OrderParts
  <1>2. ASSUME NEW n \in 0 .. m
        PROVE  /\ f[n] = IF n = 0 THEN head ELSE next[f[n - 1]]
               /\ b[n] = IF n = 0 THEN tail ELSE prev[b[n - 1]]
    <2>1. CASE n = 0
      <3>1. f[n] = (IF 0 < m THEN o[1] ELSE None) /\ b[n] = (IF 0 < m THEN o[m] ELSE None)
        BY <1>1, <2>1
      <3> QED
        BY <1>1, <2>1, <3>1
    <2>2. CASE n # 0
      <3>1. /\ n \in 1 .. m /\ n - 1 \in 0 .. m /\ n - 1 < m /\ (n - 1) + 1 = n
            /\ m - (n - 1) \in 1 .. m /\ m - (n - 1) - 1 = m - n
            /\ m - (n - 1) = 1 <=> n = m
        BY <1>1, <2>2
      <3>2. /\ f[n - 1] = o[n] /\ f[n] = IF n < m THEN o[n + 1] ELSE None
            /\ b[n - 1] = o[m - (n - 1)] /\ b[n] = IF n < m THEN o[m - n] ELSE None
        BY <3>1
      <3>3. next[o[n]] = IF n = m THEN None ELSE o[n + 1]
        BY <1>1, <3>1
      <3>4. prev[o[m - (n - 1)]] = IF n = m THEN None ELSE o[m - n]
        BY <1>1, <3>1
      <3> QED
        BY <1>1, <2>2, <3>1, <3>2, <3>3, <3>4
    <2> QED
      BY <2>1, <2>2
  <1>3. /\ f = [n \in 0 .. m |-> IF n = 0 THEN head ELSE next[f[n - 1]]]
        /\ b = [n \in 0 .. m |-> IF n = 0 THEN tail ELSE prev[b[n - 1]]]
    BY <1>2
  <1> HIDE DEF f, b
  <1>4. f = [n \in 0 .. m |-> IF n = 0 THEN head ELSE next[f[n - 1]]]
    BY <1>3
  <1>5. b = [n \in 0 .. m |-> IF n = 0 THEN tail ELSE prev[b[n - 1]]]
    BY <1>3
  <1>6. m \in Nat /\ size = m
    BY <1>1
  <1>7. Follow(head, next, m) = f
    BY <1>4, <1>6, FollowIs
  <1>8. Follow(tail, prev, m) = b
    BY <1>5, <1>6, FollowIs
  <1>9. Forward = f /\ Backward = b
    BY <1>6, <1>7, <1>8 DEF Forward, Backward
  <1> QED
    BY <1>9 DEF f, b

\* list_node_at finds the node at an index from either end.
LEMMA NodeAtIs ==
    ASSUME NEW m, NEW o, Order(m, o), ~Clearing, NEW n \in Nat, n < m
    PROVE  NodeAt(n) = o[n + 1] /\ n + 1 \in 1 .. m
  <1>1. m \in Nat /\ size = m
    BY OrderParts
  <1>2. /\ n \in 0 .. m /\ m - 1 - n \in 0 .. m /\ m - 1 - n < m
        /\ m - (m - 1 - n) = n + 1 /\ n + 1 \in 1 .. m
    BY <1>1
  <1>3. Forward = [k \in 0 .. m |-> IF k < m THEN o[k + 1] ELSE None]
    BY WalksAre
  <1>4. Backward = [k \in 0 .. m |-> IF k < m THEN o[m - k] ELSE None]
    BY WalksAre
  <1>5. Forward[n] = o[n + 1]
    BY <1>2, <1>3
  <1>6. Backward[m - 1 - n] = o[n + 1]
    BY <1>2, <1>4
  <1> QED
    BY <1>1, <1>2, <1>5, <1>6 DEF NodeAt

LEMMA InvShape == Inv => ListShape
  <1> SUFFICES ASSUME Inv PROVE ListShape
    OBVIOUS
  <1>1. /\ TypeOK /\ ControlShape
        /\ \A e \in Elements : live[e] = Occurrences(Count, Sequence, e)
    BY InvParts
  <1>2. \E o \in [1 .. Count -> allocated] : Linked(o)
    BY DEF Inv
  <1>3. ASSUME ~Clearing
        PROVE  /\ Chain = allocated /\ Count = size
               /\ \A n \in 0 .. size - 1 : Backward[n] = Forward[size - 1 - n]
               /\ Forward[size] = None /\ Backward[size] = None
    <2>1a. PICK m \in Nat : \E o : Order(m, o)
      BY InvParts
    <2>1. PICK o : Order(m, o)
      BY <2>1a
    <2>2. /\ Count = m /\ size = m
          /\ \A k \in 1 .. m : o[k] \in allocated
          /\ \A n \in allocated : \E k \in 1 .. m : o[k] = n
      BY <1>3, <2>1, OrderParts
    <2>3. /\ Forward = [n \in 0 .. m |-> IF n < m THEN o[n + 1] ELSE None]
          /\ Backward = [n \in 0 .. m |-> IF n < m THEN o[m - n] ELSE None]
      BY <1>3, <2>1, WalksAre
    <2>4. ASSUME NEW n \in 0 .. m - 1
          PROVE  /\ Forward[n] = o[n + 1] /\ n + 1 \in 1 .. m
                 /\ Backward[n] = Forward[m - 1 - n]
      <3>1. /\ n \in 0 .. m /\ n < m /\ n + 1 \in 1 .. m
            /\ m - 1 - n \in 0 .. m /\ m - 1 - n < m /\ (m - 1 - n) + 1 = m - n
        OBVIOUS
      <3> QED
        BY <2>3, <3>1
    <2>5. Chain = allocated
      <3>1. \A n \in 0 .. m - 1 : Forward[n] \in allocated
        BY <2>2, <2>4
      <3>2. ASSUME NEW x \in allocated
            PROVE  \E n \in 0 .. m - 1 : Forward[n] = x
        <4>1. PICK k \in 1 .. m : o[k] = x
          BY <2>2
        <4>2. k - 1 \in 0 .. m - 1 /\ (k - 1) + 1 = k
          OBVIOUS
        <4>3. Forward[k - 1] = o[(k - 1) + 1]
          BY <2>4, <4>2
        <4> QED
          BY <4>1, <4>2, <4>3
      <3> QED
        BY <2>2, <3>1, <3>2 DEF Chain
    <2>6. Forward[m] = None /\ Backward[m] = None
      BY <2>3
    <2> QED
      BY <2>2, <2>4, <2>5, <2>6
  <1> QED
    BY <1>1, <1>2, <1>3 DEF ListShape, Occurrences

-----------------------------------------------------------------------------
(* Steps that leave the nodes alone *)

LEMMA SameSequence ==
    ASSUME UNCHANGED <<next, data, allocated>>, Start' = Start
    PROVE  Sequence' = Sequence /\ Count' = Count
  BY DEF Sequence, Count

LEMMA KeptInv ==
    ASSUME Inv, UNCHANGED <<list, links, data, allocated, live>>, Start' = Start,
           TypeOK', ControlShape', ~Clearing' => ~Clearing,
           \A m \in Nat : \A o : Order(m, o) /\ pc' \in NodeCalls =>
               LET k == IF pc' = "insert_after" THEN call'.at ELSE call'.at + 1
               IN  k \in 1 .. m /\ node' = o[k]
    PROVE  Inv' /\ Sequence' = Sequence
  <1>1. Sequence' = Sequence /\ Count' = Count
    BY SameSequence DEF links
  <1>2a. PICK m \in Nat : \E o : Order(m, o)
    BY InvParts
  <1>2. PICK o : Order(m, o)
    BY <1>2a
  <1>3. Count = m /\ o \in [1 .. Count -> allocated] /\ Linked(o)
    BY <1>2 DEF Order
  <1>4. Linked(o)'
    BY <1>1, <1>2, <1>3 DEF Linked, list, links
  <1>5. \A e \in Elements : live[e] = Occurrences(Count, Sequence, e)
    BY InvParts
  <1> QED
    BY <1>1, <1>3, <1>4, <1>5 DEF Inv

\* Where a call stands when it returns.
LEMMA ReturnShape ==
    ASSUME Inv, NEW ret \in {"ok", "error"}, Return(ret)
    PROVE  /\ ControlShape' /\ ~Clearing' /\ pc' = "idle"
           /\ call' \in CallRecords /\ pc' \in Phases
           /\ node' = None /\ cur' = None /\ i' = 0
  <1>1. /\ call' = [call EXCEPT !.ret = ret] /\ pc' = "idle"
        /\ node' = None /\ cur' = None /\ i' = 0
        /\ call \in CallRecords
    BY InvParts DEF Return, TypeOK
  <1>2. call' \in CallRecords /\ call'.ret = ret
    BY <1>1 DEF CallRecords
  <1>3. ControlShape'
    BY <1>1, <1>2 DEF ControlShape, Functions, NodeCalls
  <1> QED
    BY <1>1, <1>2, <1>3 DEF Clearing, Phases

\* A call that returns and has not touched the list.
LEMMA UntouchedInv ==
    ASSUME Inv, NEW ret \in {"ok", "error"}, Return(ret), ~Clearing,
           UNCHANGED <<list, links, data, allocated, live>>
    PROVE  Inv' /\ Sequence' = Sequence
  <1>1. /\ ControlShape' /\ ~Clearing' /\ pc' = "idle"
        /\ call' \in CallRecords /\ pc' \in Phases
        /\ node' = None /\ cur' = None /\ i' = 0
    BY ReturnShape
  <1>2. TypeOK'
    BY <1>1, InvParts DEF TypeOK, list, links
  <1>3. Start' = Start
    BY <1>1 DEF Start, list
  <1>4. pc' \notin NodeCalls
    BY <1>1 DEF NodeCalls
  <1> QED
    BY <1>1, <1>2, <1>3, <1>4, KeptInv

LEMMA CallInv ==
    ASSUME Inv, NEW op \in Functions, NEW e \in Args, NEW n \in Nat,
           NEW s \in Seq(Elements), Call(op, e, n, s)
    PROVE  Inv' /\ Sequence' = Sequence
  <1>1. /\ pc = "idle" /\ pc' = op
        /\ call' = [op |-> op, elem |-> e, at |-> n, source |-> s, ret |-> "pending"]
        /\ UNCHANGED <<list, links, data, allocated, live, node, cur, i>>
    BY DEF Call, loop
  <1>2. ~Clearing /\ ~Clearing' /\ pc' \notin NodeCalls /\ Start' = Start
    BY <1>1 DEF Clearing, NodeCalls, Functions, Start, list
  <1>3. TypeOK'
    BY <1>1, InvParts DEF TypeOK, list, links, CallRecords, Phases
  <1>4. ControlShape'
    <2>1. i' = 0
      BY <1>1, InvParts DEF ControlShape
    <2> QED
      BY <1>1, <2>1 DEF ControlShape, Functions
  <1> QED
    BY <1>1, <1>2, <1>3, <1>4, KeptInv

\* A call by node knows the node at its position.
LEMMA CallNodeInv ==
    ASSUME Inv, NEW f \in NodeCalls, NEW op \in {"insert", "set", "erase"},
           NEW e \in Args, NEW n \in Nat, CallNode(f, op, e, n),
           op = "insert" <=> f \in {"insert_before", "insert_after"},
           op = "set" <=> f = "set_node"
    PROVE  Inv' /\ Sequence' = Sequence
  <1>1. /\ pc = "idle" /\ n < size /\ pc' = f /\ node' = Forward[n]
        /\ call' = [op |-> op, elem |-> e, source |-> <<>>, ret |-> "pending",
                    at |-> IF f = "insert_after" THEN n + 1 ELSE n]
        /\ UNCHANGED <<list, links, data, allocated, live, cur, i>>
    BY DEF CallNode, loop
  <1>2. ~Clearing /\ ~Clearing' /\ Start' = Start
    BY <1>1 DEF Clearing, NodeCalls, Start, list
  <1>3. ASSUME NEW m \in Nat, NEW o, Order(m, o)
        PROVE  n + 1 \in 1 .. m /\ node' = o[n + 1] /\ node' \in Nodes
    <2>1. size = m /\ \A k \in 1 .. m : o[k] \in Nodes
      BY <1>2, <1>3, OrderParts
    <2>2. n \in 0 .. m /\ n < m /\ n + 1 \in 1 .. m
      BY <1>1, <2>1
    <2>3. Forward[n] = o[n + 1]
      BY <1>2, <1>3, <2>2, WalksAre
    <2> QED
      BY <1>1, <2>1, <2>2, <2>3
  <1>4. TypeOK'
    <2>1. node' \in Nodes
      BY <1>3, InvParts
    <2>2. call' \in CallRecords
      <3>1. <<>> \in Seq(Elements) /\ (IF f = "insert_after" THEN n + 1 ELSE n) \in Nat
        OBVIOUS
      <3> QED
        BY <1>1, <3>1 DEF CallRecords, Functions
    <2> QED
      BY <1>1, <2>1, <2>2, InvParts DEF TypeOK, list, links, Phases
  <1>5. ControlShape'
    <2>1. i' = 0
      BY <1>1, InvParts DEF ControlShape
    <2> QED
      BY <1>1, <2>1 DEF ControlShape, Functions, NodeCalls
  <1>6. ASSUME NEW m \in Nat, NEW o, Order(m, o)
        PROVE  LET k == IF pc' = "insert_after" THEN call'.at ELSE call'.at + 1
               IN  k \in 1 .. m /\ node' = o[k]
    <2>1. (IF pc' = "insert_after" THEN call'.at ELSE call'.at + 1) = n + 1
      BY <1>1
    <2> QED
      BY <2>1, <1>3, <1>6
  <1> QED
    BY <1>1, <1>2, <1>4, <1>5, <1>6, KeptInv

-----------------------------------------------------------------------------
(* A node comes in *)

\* Where the node before position j and the one at j are, of m.
Before(m, o, j) == IF j = 1 THEN None ELSE o[j - 1]
At(m, o, j) == IF j = m + 1 THEN None ELSE o[j]

\* The order o with node n at position j.
WithNode(m, o, j, n) ==
    [k \in 1 .. m + 1 |-> IF k < j THEN o[k] ELSE IF k = j THEN n ELSE o[k - 1]]

\* What WithNode holds at the positions before, at and after j.
LEMMA WithNodeIs ==
    ASSUME NEW m \in Nat, NEW o, NEW j \in 1 .. m + 1, NEW n
    PROVE  /\ \A k \in 1 .. m : k < j => WithNode(m, o, j, n)[k] = o[k]
           /\ WithNode(m, o, j, n)[j] = n
           /\ \A k \in 1 .. m : k >= j => WithNode(m, o, j, n)[k + 1] = o[k]
           /\ \A k \in 1 .. m + 1 : k < j => k \in 1 .. m
           /\ \A k \in 1 .. m + 1 : k > j => k - 1 \in 1 .. m /\ k - 1 >= j
  <1>1. ASSUME NEW k \in 1 .. m, k >= j
        PROVE  WithNode(m, o, j, n)[k + 1] = o[k]
    <2>1. k + 1 \in 1 .. m + 1 /\ ~ (k + 1 < j) /\ k + 1 # j /\ (k + 1) - 1 = k
      BY <1>1
    <2> QED
      BY <2>1 DEF WithNode
  <1>2. ASSUME NEW k \in 1 .. m, k < j
        PROVE  WithNode(m, o, j, n)[k] = o[k]
    BY <1>2 DEF WithNode
  <1>3. WithNode(m, o, j, n)[j] = n
    BY DEF WithNode
  <1>4. /\ \A k \in 1 .. m + 1 : k < j => k \in 1 .. m
        /\ \A k \in 1 .. m + 1 : k > j => k - 1 \in 1 .. m /\ k - 1 >= j
    OBVIOUS
  <1> QED
    BY <1>1, <1>2, <1>3, <1>4

\* Linked between the nodes before and at position j, the new node is there.
LEMMA AddedOrder ==
    ASSUME TypeOK, NEW m, NEW o, Order(m, o), ~Clearing, ~Clearing',
           NEW j \in 1 .. m + 1, NEW e \in Elements, NEW n \in Nodes \ allocated,
           allocated' = allocated \cup {n}, data' = [data EXCEPT ![n] = e],
           LinkBetween(n, Before(m, o, j), At(m, o, j)), pc' \notin NodeCalls
    PROVE  Order(m + 1, WithNode(m, o, j, n))'
  <1> DEFINE w == WithNode(m, o, j, n)
  <1>1. /\ m \in Nat /\ Count = m /\ IsFiniteSet(allocated)
        /\ \A k \in 1 .. m : o[k] \in allocated /\ o[k] \in Nodes /\ o[k] # None
        /\ \A x \in allocated : \E k \in 1 .. m : o[k] = x
        /\ \A h, k \in 1 .. m : o[h] = o[k] => h = k
        /\ size = m
        /\ head = IF m = 0 THEN None ELSE o[1]
        /\ tail = IF m = 0 THEN None ELSE o[m]
        /\ \A k \in 1 .. m :
              /\ next[o[k]] = IF k = m THEN None ELSE o[k + 1]
              /\ prev[o[k]] = IF k = 1 THEN None ELSE o[k - 1]
              /\ data[o[k]] \in Elements
    BY OrderParts
  <1>2. /\ n # None /\ n \in Nodes /\ \A k \in 1 .. m : o[k] # n
        /\ next \in [Nodes -> Nodes \cup {None}]
        /\ prev \in [Nodes -> Nodes \cup {None}]
        /\ data \in [Nodes -> Args]
    BY <1>1, ListAssumption DEF TypeOK
  <1>3. /\ \A k \in 1 .. m : k < j => w[k] = o[k]
        /\ w[j] = n
        /\ \A k \in 1 .. m : k >= j => w[k + 1] = o[k]
    <2>1. m \in Nat
      BY <1>1
    <2>2. /\ \A k \in 1 .. m : k < j => WithNode(m, o, j, n)[k] = o[k]
          /\ WithNode(m, o, j, n)[j] = n
          /\ \A k \in 1 .. m : k >= j => WithNode(m, o, j, n)[k + 1] = o[k]
      BY ONLY <2>1, j \in 1 .. m + 1, WithNodeIs
    <2> QED
      BY <2>2
  <1>4. w \in [1 .. m + 1 -> allocated']
    <2>1. w = [k \in 1 .. m + 1 |->
                 IF k < j THEN o[k] ELSE IF k = j THEN n ELSE o[k - 1]]
      BY DEF WithNode
    <2>2. ASSUME NEW k \in 1 .. m + 1
          PROVE  (IF k < j THEN o[k] ELSE IF k = j THEN n ELSE o[k - 1]) \in allocated'
      BY <1>1
    <2> HIDE DEF w
    <2> QED
      BY <2>1, <2>2
  <1>5. IsFiniteSet(allocated') /\ Count' = m + 1 /\ allocated' \subseteq Nodes
    BY <1>1, FS_AddElement DEF Count, TypeOK
  <1>6. \A x \in allocated' : \E k \in 1 .. m + 1 : w[k] = x
    <2>1. ASSUME NEW x \in allocated PROVE \E k \in 1 .. m + 1 : w[k] = x
      <3>1. PICK k \in 1 .. m : o[k] = x
        BY <1>1
      <3>2. k \in 1 .. m + 1 /\ k + 1 \in 1 .. m + 1
        BY <1>1
      <3>3. CASE k < j
        BY <1>3, <3>1, <3>2, <3>3
      <3>4. CASE k >= j
        BY <1>3, <3>1, <3>2, <3>4
      <3> QED
        BY <3>3, <3>4
    <2> QED
      BY <1>3, <2>1
  <1>7. \A h, k \in 1 .. m + 1 : w[h] = w[k] => h = k
    <2>1. ASSUME NEW k \in 1 .. m + 1
          PROVE  \/ k < j /\ k \in 1 .. m /\ w[k] = o[k]
                 \/ k = j /\ w[k] = n
                 \/ k > j /\ k - 1 \in 1 .. m /\ w[k] = o[k - 1]
      <3>1. CASE k < j
        BY <1>1, <1>3, <3>1
      <3>2. CASE k > j
        <4>1. k - 1 \in 1 .. m /\ k - 1 >= j /\ (k - 1) + 1 = k
          BY <1>1, <3>2
        <4> QED
          BY <1>3, <3>2, <4>1
      <3> QED
        BY <1>3, <3>1, <3>2
    <2> HIDE DEF w
    <2> SUFFICES ASSUME NEW h \in 1 .. m + 1, NEW k \in 1 .. m + 1, w[h] = w[k]
                 PROVE  h = k
      OBVIOUS
    <2>2. h \in Int /\ k \in Int /\ j \in Int /\ m \in Int
      BY <1>1
    <2>3. CASE h < j
      BY <1>1, <1>2, <2>1, <2>2, <2>3
    <2>4. CASE h = j
      BY <1>1, <1>2, <2>1, <2>2, <2>4
    <2>5. CASE h > j
      BY <1>1, <1>2, <2>1, <2>2, <2>5
    <2> QED
      BY <2>2, <2>3, <2>4, <2>5
  <1> DEFINE p == Before(m, o, j)
             q == At(m, o, j)
  <1>8. /\ p = IF j = 1 THEN None ELSE o[j - 1]
        /\ q = IF j = m + 1 THEN None ELSE o[j]
    BY DEF Before, At
  <1> HIDE DEF w, p, q
  <1>9. /\ \A x \in Nodes : prev'[x] = IF x = n THEN p ELSE IF x = q THEN n ELSE prev[x]
        /\ \A x \in Nodes : next'[x] = IF x = n THEN q ELSE IF x = p THEN n ELSE next[x]
        /\ head' = IF p = None THEN n ELSE head
        /\ tail' = IF q = None THEN n ELSE tail
        /\ size' = m + 1
    BY <1>1 DEF LinkBetween, p, q
  <1>10. \A k \in 1 .. m : (o[k] = p <=> k = j - 1) /\ (o[k] = q <=> k = j)
    <2> SUFFICES ASSUME NEW k \in 1 .. m
                 PROVE  (o[k] = p <=> k = j - 1) /\ (o[k] = q <=> k = j)
      OBVIOUS
    <2>1. j \in Int /\ k \in Int /\ (j # 1 => j - 1 \in 1 .. m) /\ (j # m + 1 => j \in 1 .. m)
      BY <1>1
    <2>2. CASE j = 1
      BY <1>1, <1>8, <2>1, <2>2
    <2>3. CASE j # 1
      BY <1>1, <1>8, <2>1, <2>3
    <2> QED
      BY <2>2, <2>3
  <1>11. ASSUME NEW k \in 1 .. m + 1
         PROVE  /\ next'[w[k]] = IF k = m + 1 THEN None ELSE w[k + 1]
                /\ prev'[w[k]] = IF k = 1 THEN None ELSE w[k - 1]
                /\ data'[w[k]] \in Elements
    <2>1. CASE k < j
      <3>1. k \in 1 .. m /\ k # m + 1 /\ w[k] = o[k] /\ k # j
        BY <1>1, <1>3, <2>1
      <3>2. o[k] \in Nodes /\ o[k] # n /\ o[k] # q
        BY <1>1, <1>2, <1>10, <3>1
      <3>3. next'[o[k]] = w[k + 1]
        <4>1. CASE k = j - 1
          <5>1. k + 1 = j /\ o[k] = p
            BY <1>10, <3>1, <4>1
          <5> QED
            BY <1>3, <1>9, <3>2, <5>1
        <4>2. CASE k # j - 1
          <5>1. k + 1 \in 1 .. m /\ k + 1 < j /\ k # m
            BY <1>1, <2>1, <4>2
          <5>2. w[k + 1] = o[k + 1] /\ o[k] # p
            BY <1>3, <1>10, <3>1, <4>2, <5>1
          <5> QED
            BY <1>1, <1>9, <3>1, <3>2, <5>1, <5>2
        <4> QED
          BY <4>1, <4>2
      <3>4. prev'[o[k]] = IF k = 1 THEN None ELSE w[k - 1]
        <4>1. prev'[o[k]] = IF k = 1 THEN None ELSE o[k - 1]
          BY <1>1, <1>9, <3>1, <3>2
        <4>2. k # 1 => k - 1 \in 1 .. m /\ k - 1 < j
          BY <1>1, <2>1, <3>1
        <4> QED
          BY <1>3, <4>1, <4>2
      <3>5. data'[o[k]] = data[o[k]]
        BY <1>2, <3>2
      <3> QED
        BY <1>1, <3>1, <3>3, <3>4, <3>5
    <2>2. CASE k = j
      <3>1. data'[n] = e
        BY <1>2
      <3>2. next'[n] = q /\ prev'[n] = p
        BY <1>2, <1>9
      <3>3. j # m + 1 => j \in 1 .. m /\ w[j + 1] = o[j]
        BY <1>1, <1>3
      <3>4. j # 1 => j - 1 \in 1 .. m /\ w[j - 1] = o[j - 1]
        BY <1>1, <1>3
      <3> QED
        BY <1>3, <1>8, <2>2, <3>1, <3>2, <3>3, <3>4
    <2>3. CASE k > j
      <3>1. /\ k - 1 \in 1 .. m /\ k - 1 >= j /\ (k - 1) + 1 = k
            /\ k - 1 # j - 1 /\ k # 1 /\ k \in Int
        BY <1>1, <2>3
      <3> DEFINE h == k - 1
      <3>2. h \in 1 .. m /\ h >= j /\ h + 1 = k /\ h # j - 1
        BY <3>1
      <3> HIDE DEF h
      <3>3. w[k] = o[h] /\ o[h] \in Nodes /\ o[h] # n /\ o[h] # p
        BY <1>1, <1>2, <1>3, <1>10, <3>2
      <3>4. next'[o[h]] = IF k = m + 1 THEN None ELSE w[k + 1]
        <4>1. next'[o[h]] = IF h = m THEN None ELSE o[k]
          BY <1>1, <1>9, <3>2, <3>3
        <4>2. (h = m <=> k = m + 1) /\ (k # m + 1 => k \in 1 .. m /\ k >= j)
          BY <1>1, <2>3, <3>2
        <4> QED
          BY <1>3, <4>1, <4>2
      <3>5. prev'[o[h]] = w[k - 1]
        <4>1. CASE h = j
          BY <1>3, <1>9, <1>10, <3>1, <3>2, <3>3, <4>1 DEF h
        <4>2. CASE h # j
          <5>1. o[h] # q /\ h # 1 /\ h - 1 \in 1 .. m /\ h - 1 >= j /\ (h - 1) + 1 = h
            BY <1>1, <1>10, <3>2, <4>2
          <5>2. prev'[o[h]] = o[h - 1] /\ w[(h - 1) + 1] = o[h - 1]
            BY <1>1, <1>3, <1>9, <3>2, <3>3, <5>1
          <5> QED
            BY <5>1, <5>2 DEF h
        <4> QED
          BY <4>1, <4>2
      <3>6. data'[o[h]] = data[o[h]]
        BY <1>2, <3>3
      <3> QED
        BY <1>1, <3>1, <3>2, <3>3, <3>4, <3>5, <3>6
    <2> QED
      BY <2>1, <2>2, <2>3
  <1>12. head' = w[1]
    <2>1. CASE j = 1
      BY <1>3, <1>8, <1>9, <2>1
    <2>2. CASE j # 1
      <3>1. j - 1 \in 1 .. m /\ 1 \in 1 .. m /\ 1 < j /\ m # 0
        BY <1>1, <2>2
      <3>2. p # None /\ w[1] = o[1]
        BY <1>1, <1>3, <1>8, <2>2, <3>1
      <3> QED
        BY <1>1, <1>9, <3>1, <3>2
    <2> QED
      BY <2>1, <2>2
  <1>13. tail' = w[m + 1]
    <2>1. CASE j = m + 1
      BY <1>3, <1>8, <1>9, <2>1
    <2>2. CASE j # m + 1
      <3>1. j \in 1 .. m /\ m \in 1 .. m /\ m >= j /\ m # 0
        BY <1>1, <2>2
      <3>2. q # None /\ w[m + 1] = o[m]
        BY <1>1, <1>3, <1>8, <2>2, <3>1
      <3> QED
        BY <1>1, <1>9, <3>1, <3>2
    <2> QED
      BY <2>1, <2>2
  <1>14. m + 1 # 0 /\ m + 1 \in Nat
    BY <1>1
  <1>15. Linked(w)'
    BY <1>5, <1>6, <1>7, <1>9, <1>11, <1>12, <1>13, <1>14 DEF Linked, Start
  <1>16. Order(m + 1, w)'
    BY <1>4, <1>5, <1>14, <1>15 DEF Order
  <1> QED
    BY <1>16 DEF w

\* What a call or an iteration that adds a node leads to.
Added(m, j, e) ==
    /\ \E o : Order(m + 1, o)'
    /\ OneMore(m, Sequence, Sequence', j)
    /\ Sequence \in [1 .. m -> Elements]
    /\ Sequence' \in [1 .. m + 1 -> Elements] /\ Sequence'[j] = e
    /\ size' = m + 1
    /\ \A x \in Elements : live'[x] = Occurrences(m + 1, Sequence', x)
    /\ TypeOK' <=> pc' \in Phases /\ call' \in CallRecords
                   /\ node' \in Nodes \cup {None} /\ cur' \in Nodes \cup {None}
                   /\ i' \in Nat

LEMMA AddedIs ==
    ASSUME Inv, NEW m, NEW o, Order(m, o), ~Clearing, ~Clearing',
           NEW j \in 1 .. m + 1, NEW e \in Elements,
           AddNode(e, Before(m, o, j), At(m, o, j)), pc' \notin NodeCalls
    PROVE  Added(m, j, e)
  <1>1. TypeOK
    BY InvParts
  <1>2. PICK n \in Nodes \ allocated :
            /\ allocated' = allocated \cup {n}
            /\ data' = [data EXCEPT ![n] = e]
            /\ live' = [live EXCEPT ![e] = @ + 1]
            /\ LinkBetween(n, Before(m, o, j), At(m, o, j))
    BY DEF AddNode
  <1> DEFINE w == WithNode(m, o, j, n)
  <1>3. Order(m + 1, w)'
    BY <1>1, <1>2, AddedOrder
  <1>4. /\ m \in Nat /\ size = m /\ Count = m
        /\ \A k \in 1 .. m : o[k] \in allocated /\ o[k] \in Nodes
    BY OrderParts
  <1>5. Sequence = Contents(m, o) /\ Sequence \in [1 .. m -> Elements]
    BY <1>4, SequenceIs DEF OrderShows
  <1>6. Sequence' = Contents(m + 1, w)' /\ Sequence' \in [1 .. m + 1 -> Elements]
    <2>1. m + 1 \in Nat
      BY <1>4
    <2> HIDE DEF w
    <2> QED
      BY <1>3, <2>1, SequenceIsNext DEF OrderShows
  <1>7. /\ \A k \in 1 .. m : k < j => w[k] = o[k]
        /\ w[j] = n
        /\ \A k \in 1 .. m : k >= j => w[k + 1] = o[k]
    <2>1. m \in Nat
      BY <1>4
    <2> QED
      BY <2>1, WithNodeIs
  <1>8. data'[n] = e /\ \A x \in allocated : data'[x] = data[x]
    BY <1>1, <1>2 DEF TypeOK
  <1> HIDE DEF w
  <1>9. OneMore(m, Sequence, Sequence', j) /\ Sequence'[j] = e
    <2>1. \A k \in 1 .. m : Sequence[k] = data[o[k]]
      BY <1>5 DEF Contents
    <2>2. \A k \in 1 .. m + 1 : Sequence'[k] = data'[w[k]]
      BY <1>6 DEF Contents
    <2>3. ASSUME NEW k \in 1 .. m
          PROVE  Sequence'[IF k < j THEN k ELSE k + 1] = Sequence[k]
      <3>1. (IF k < j THEN k ELSE k + 1) \in 1 .. m + 1
        BY <1>4
      <3>2. w[IF k < j THEN k ELSE k + 1] = o[k]
        BY <1>7, <1>4
      <3>3. data'[o[k]] = data[o[k]]
        BY <1>4, <1>8
      <3> QED
        BY <2>1, <2>2, <3>1, <3>2, <3>3
    <2>4. Sequence'[j] = e
      BY <1>7, <1>8, <2>2
    <2> QED
      BY <2>3, <2>4 DEF OneMore
  <1>10. \A x \in Elements : live'[x] = Occurrences(m + 1, Sequence', x)
    <2> SUFFICES ASSUME NEW x \in Elements
                 PROVE  live'[x] = Occurrences(m + 1, Sequence', x)
      OBVIOUS
    <2>1. live[x] = Occurrences(m, Sequence, x)
      BY <1>4, InvParts
    <2>2. live'[x] = live[x] + (IF e = x THEN 1 ELSE 0)
      BY <1>1, <1>2 DEF TypeOK
    <2>3. Occurrences(m + 1, Sequence', x)
            = Occurrences(m, Sequence, x) + (IF Sequence'[j] = x THEN 1 ELSE 0)
      BY <1>4, <1>9, CountInsert
    <2> QED
      BY <1>9, <2>1, <2>2, <2>3
  <1>11. size' = m + 1
    BY <1>2, <1>4 DEF LinkBetween
  <1>12. /\ head' \in Nodes \cup {None} /\ tail' \in Nodes \cup {None}
         /\ size' \in Nat /\ allocated' \subseteq Nodes
         /\ prev' \in [Nodes -> Nodes \cup {None}]
         /\ next' \in [Nodes -> Nodes \cup {None}]
         /\ data' \in [Nodes -> Args] /\ live' \in [Elements -> Int]
    <2>1. Before(m, o, j) \in Nodes \cup {None} /\ At(m, o, j) \in Nodes \cup {None}
      <3>1. (j # 1 => j - 1 \in 1 .. m) /\ (j # m + 1 => j \in 1 .. m)
        BY <1>4
      <3> QED
        BY <1>4, <3>1 DEF Before, At
    <2>2. /\ head' \in Nodes \cup {None} /\ tail' \in Nodes \cup {None}
          /\ prev' \in [Nodes -> Nodes \cup {None}]
          /\ next' \in [Nodes -> Nodes \cup {None}]
      BY <1>1, <1>2, <2>1 DEF LinkBetween, TypeOK
    <2>3. data' \in [Nodes -> Args] /\ live' \in [Elements -> Int]
      BY <1>1, <1>2 DEF TypeOK, Args
    <2> QED
      BY <1>1, <1>2, <1>4, <1>11, <2>2, <2>3 DEF TypeOK
  <1>13. TypeOK' <=> pc' \in Phases /\ call' \in CallRecords
                     /\ node' \in Nodes \cup {None} /\ cur' \in Nodes \cup {None}
                     /\ i' \in Nat
    BY <1>12 DEF TypeOK
  <1> QED
    BY <1>3, <1>5, <1>6, <1>9, <1>10, <1>11, <1>13 DEF Added

\* An order is what the invariant needs.
OrderSuffices ==
    \A m : \A o :
       Order(m, o) /\ TypeOK /\ ControlShape
         /\ (\A e \in Elements : live[e] = Occurrences(m, Sequence, e))
       => Inv

LEMMA InvFromOrder == OrderSuffices
  BY DEF OrderSuffices, Order, Inv

LEMMA InvFromOrderNext == OrderSuffices'
  BY InvFromOrder, PTL

LEMMA AddedInv ==
    ASSUME Inv, NEW m, NEW j, NEW e, Added(m, j, e), Return("ok")
    PROVE  Inv'
  <1>1. /\ ControlShape' /\ call' \in CallRecords /\ pc' \in Phases
        /\ node' = None /\ cur' = None /\ i' = 0
    BY ReturnShape
  <1>2. TypeOK'
    BY <1>1 DEF Added
  <1>3. /\ \E o : Order(m + 1, o)'
        /\ \A x \in Elements : live'[x] = Occurrences(m + 1, Sequence', x)
    BY DEF Added
  <1> QED
    BY <1>1, <1>2, <1>3, InvFromOrderNext DEF OrderSuffices

\* Where a call adds its element.
AddsAt(m, j) ==
    \/ call.op = "push_back" /\ j = m + 1
    \/ call.op = "push_front" /\ j = 1
    \/ call.op = "insert" /\ j = call.at + 1 /\ call.at \in Nat /\ call.at <= m

\* list_push_back, list_push_front and list_insert, by index and by node,
\* put the element where the call says.
LEMMA AddStep ==
    ASSUME Inv, Add
    PROVE  \E m \in Nat : \E j \in 1 .. m + 1 :
              /\ Added(m, j, call.elem) /\ AddsAt(m, j)
              /\ call.elem \in Elements
  <1>1. /\ call.elem # None /\ Return("ok") /\ pc' = "idle"
        /\ pc \in {"push_back", "push_front", "insert", "insert_before", "insert_after"}
    BY DEF Add, Return
  <1>2. TypeOK /\ ControlShape
    BY InvParts
  <1>3. call.elem \in Elements /\ call.at \in Nat
    BY <1>1, <1>2 DEF TypeOK, CallRecords, Args
  <1>4a. PICK m \in Nat : \E o : Order(m, o)
    BY InvParts
  <1>4. PICK o : Order(m, o)
    BY <1>4a
  <1>5. ~Clearing /\ ~Clearing' /\ pc' \notin NodeCalls
    BY <1>1 DEF Clearing, NodeCalls
  <1>6. /\ size = m
        /\ \A k \in 1 .. m : o[k] # None
        /\ head = IF m = 0 THEN None ELSE o[1]
        /\ tail = IF m = 0 THEN None ELSE o[m]
        /\ \A k \in 1 .. m :
              /\ next[o[k]] = IF k = m THEN None ELSE o[k + 1]
              /\ prev[o[k]] = IF k = 1 THEN None ELSE o[k - 1]
    BY <1>4, <1>5, OrderParts
  <1>7. pc \in NodeCalls =>
          LET k == IF pc = "insert_after" THEN call.at ELSE call.at + 1
          IN  k \in 1 .. m /\ node = o[k]
    BY <1>4 DEF Order, Linked
  <1>8. SUFFICES \E j \in 1 .. m + 1 :
                    /\ AddNode(call.elem, Before(m, o, j), At(m, o, j))
                    /\ AddsAt(m, j)
    <2>1. PICK j \in 1 .. m + 1 :
             /\ AddNode(call.elem, Before(m, o, j), At(m, o, j))
             /\ AddsAt(m, j)
      BY <1>8
    <2>2. Added(m, j, call.elem)
      BY <1>3, <1>4, <1>5, <2>1, AddedIs
    <2> QED
      BY <1>3, <2>1, <2>2
  <1>9. CASE pc = "push_back"
    <2>1. AddNode(call.elem, tail, None) /\ call.op = "push_back"
      BY <1>2, <1>9 DEF Add, ControlShape, Functions
    <2>2. Before(m, o, m + 1) = tail /\ At(m, o, m + 1) = None /\ m + 1 \in 1 .. m + 1
      <3>1. m + 1 \in 1 .. m + 1 /\ (m + 1 = 1 <=> m = 0) /\ (m + 1) - 1 = m
        BY <1>4
      <3> QED
        BY <1>6, <3>1 DEF Before, At
    <2> QED
      BY <2>1, <2>2 DEF AddsAt
  <1>10. CASE pc = "push_front"
    <2>1. AddNode(call.elem, None, head) /\ call.op = "push_front"
      BY <1>2, <1>10 DEF Add, ControlShape, Functions
    <2>2. Before(m, o, 1) = None /\ At(m, o, 1) = head /\ 1 \in 1 .. m + 1
      BY <1>6 DEF Before, At
    <2> QED
      BY <2>1, <2>2 DEF AddsAt
  <1>11. CASE pc = "insert"
    <2>1. /\ call.at <= size
          /\ IF call.at = 0 THEN AddNode(call.elem, None, head)
             ELSE IF call.at = size THEN AddNode(call.elem, tail, None)
             ELSE AddNode(call.elem, prev[NodeAt(call.at)], NodeAt(call.at))
          /\ call.op = "insert"
      BY <1>2, <1>11 DEF Add, ControlShape, Functions
    <2>2. call.at <= m /\ call.at + 1 \in 1 .. m + 1 /\ AddsAt(m, call.at + 1)
      BY <1>3, <1>6, <2>1 DEF AddsAt
    <2>3. CASE call.at = 0
      <3>1. Before(m, o, 1) = None /\ At(m, o, 1) = head /\ call.at + 1 = 1
        BY <1>6, <2>3 DEF Before, At
      <3> QED
        BY <2>1, <2>2, <2>3, <3>1
    <2>4. CASE call.at # 0 /\ call.at = m
      <3>1. /\ Before(m, o, m + 1) = tail /\ At(m, o, m + 1) = None
            /\ call.at + 1 = m + 1
        <4>1. m + 1 # 1 /\ (m + 1) - 1 = m
          BY <2>4
        <4> QED
          BY <1>6, <2>4, <4>1 DEF Before, At
      <3> QED
        BY <1>6, <2>1, <2>2, <2>4, <3>1
    <2>5. CASE call.at # 0 /\ call.at # m
      <3>1. call.at < m /\ call.at + 1 \in 1 .. m /\ call.at + 1 # 1
        BY <1>3, <2>2, <2>5
      <3>2. NodeAt(call.at) = o[call.at + 1]
        BY <1>3, <1>4, <1>5, <3>1, NodeAtIs
      <3>3. prev[o[call.at + 1]] = o[(call.at + 1) - 1]
        BY <1>6, <3>1
      <3>4. /\ Before(m, o, call.at + 1) = prev[NodeAt(call.at)]
            /\ At(m, o, call.at + 1) = NodeAt(call.at)
        BY <3>1, <3>2, <3>3 DEF Before, At
      <3> QED
        BY <1>6, <2>1, <2>2, <2>5, <3>4
    <2> QED
      BY <2>3, <2>4, <2>5
  <1>12. CASE pc = "insert_before"
    <2>1. AddNode(call.elem, prev[node], node) /\ call.op = "insert"
      BY <1>2, <1>12 DEF Add, ControlShape
    <2>2. call.at + 1 \in 1 .. m /\ node = o[call.at + 1]
      BY <1>7, <1>12 DEF NodeCalls
    <2>3. call.at + 1 \in 1 .. m + 1 /\ call.at + 1 # m + 1 /\ call.at <= m
      BY <1>3, <2>2
    <2>4. /\ Before(m, o, call.at + 1) = prev[node]
          /\ At(m, o, call.at + 1) = node
      BY <1>6, <2>2, <2>3 DEF Before, At
    <2> QED
      BY <1>3, <2>1, <2>3, <2>4 DEF AddsAt
  <1>13. CASE pc = "insert_after"
    <2>1. AddNode(call.elem, node, next[node]) /\ call.op = "insert"
      BY <1>2, <1>13 DEF Add, ControlShape
    <2>2. call.at \in 1 .. m /\ node = o[call.at]
      BY <1>7, <1>13 DEF NodeCalls
    <2>3. /\ call.at + 1 \in 1 .. m + 1 /\ call.at + 1 # 1 /\ call.at <= m
          /\ (call.at + 1) - 1 = call.at
          /\ (call.at + 1 = m + 1 <=> call.at = m)
      BY <1>3, <2>2
    <2>4. /\ Before(m, o, call.at + 1) = node
          /\ At(m, o, call.at + 1) = next[node]
      BY <1>6, <2>2, <2>3 DEF Before, At
    <2> QED
      BY <1>3, <2>1, <2>3, <2>4 DEF AddsAt
  <1> QED
    BY <1>1, <1>9, <1>10, <1>11, <1>12, <1>13

-----------------------------------------------------------------------------
(* A node goes *)

\* The order o without its position j.
WithoutNode(m, o, j) ==
    [k \in 1 .. m - 1 |-> IF k < j THEN o[k] ELSE o[k + 1]]

LEMMA WithoutNodeIs ==
    ASSUME NEW m \in Nat, NEW o, NEW j \in 1 .. m
    PROVE  /\ \A k \in 1 .. m - 1 : k < j => WithoutNode(m, o, j)[k] = o[k]
           /\ \A k \in 1 .. m - 1 : k >= j => WithoutNode(m, o, j)[k] = o[k + 1]
           /\ \A k \in 1 .. m - 1 : k \in 1 .. m /\ k + 1 \in 1 .. m
           /\ \A k \in 1 .. m : k < j => k \in 1 .. m - 1
           /\ \A k \in 1 .. m : k > j => k - 1 \in 1 .. m - 1 /\ k - 1 >= j
  <1>1. ASSUME NEW k \in 1 .. m - 1, k >= j
        PROVE  WithoutNode(m, o, j)[k] = o[k + 1]
    BY <1>1 DEF WithoutNode
  <1>2. ASSUME NEW k \in 1 .. m - 1, k < j
        PROVE  WithoutNode(m, o, j)[k] = o[k]
    BY <1>2 DEF WithoutNode
  <1>3. /\ \A k \in 1 .. m - 1 : k \in 1 .. m /\ k + 1 \in 1 .. m
        /\ \A k \in 1 .. m : k < j => k \in 1 .. m - 1
        /\ \A k \in 1 .. m : k > j => k - 1 \in 1 .. m - 1 /\ k - 1 >= j
    OBVIOUS
  <1> QED
    BY <1>1, <1>2, <1>3

\* Once list_erase_node has unlinked the node at position j, the others are
\* linked in their order.
LEMMA ErasedOrder ==
    ASSUME TypeOK, NEW m, NEW o, Order(m, o), ~Clearing, ~Clearing',
           NEW j \in 1 .. m, EraseNode(o[j]), pc' \notin NodeCalls
    PROVE  Order(m - 1, WithoutNode(m, o, j))'
  <1> DEFINE w == WithoutNode(m, o, j)
             n == o[j]
  <1>1. /\ m \in Nat /\ Count = m /\ IsFiniteSet(allocated)
        /\ \A k \in 1 .. m : o[k] \in allocated /\ o[k] \in Nodes /\ o[k] # None
        /\ \A x \in allocated : \E k \in 1 .. m : o[k] = x
        /\ \A h, k \in 1 .. m : o[h] = o[k] => h = k
        /\ size = m
        /\ head = IF m = 0 THEN None ELSE o[1]
        /\ tail = IF m = 0 THEN None ELSE o[m]
        /\ \A k \in 1 .. m :
              /\ next[o[k]] = IF k = m THEN None ELSE o[k + 1]
              /\ prev[o[k]] = IF k = 1 THEN None ELSE o[k - 1]
              /\ data[o[k]] \in Elements
    BY OrderParts
  <1>2. m \in Nat /\ m - 1 \in Nat /\ m # 0 /\ j \in Int
    BY <1>1
  <1>3. /\ \A k \in 1 .. m - 1 : k < j => w[k] = o[k]
        /\ \A k \in 1 .. m - 1 : k >= j => w[k] = o[k + 1]
        /\ \A k \in 1 .. m - 1 : k \in 1 .. m /\ k + 1 \in 1 .. m
        /\ \A k \in 1 .. m : k < j => k \in 1 .. m - 1
        /\ \A k \in 1 .. m : k > j => k - 1 \in 1 .. m - 1 /\ k - 1 >= j
    <2>1. /\ \A k \in 1 .. m - 1 : k < j => WithoutNode(m, o, j)[k] = o[k]
          /\ \A k \in 1 .. m - 1 : k >= j => WithoutNode(m, o, j)[k] = o[k + 1]
          /\ \A k \in 1 .. m - 1 : k \in 1 .. m /\ k + 1 \in 1 .. m
          /\ \A k \in 1 .. m : k < j => k \in 1 .. m - 1
          /\ \A k \in 1 .. m : k > j => k - 1 \in 1 .. m - 1 /\ k - 1 >= j
      BY ONLY <1>2, j \in 1 .. m, WithoutNodeIs
    <2> QED
      BY <2>1
  <1>4. allocated' = allocated \ {n}
    BY DEF EraseNode
  <1>5. w \in [1 .. m - 1 -> allocated']
    <2>1. w = [k \in 1 .. m - 1 |-> IF k < j THEN o[k] ELSE o[k + 1]]
      BY DEF WithoutNode
    <2>2. ASSUME NEW k \in 1 .. m - 1
          PROVE  (IF k < j THEN o[k] ELSE o[k + 1]) \in allocated'
      <3>1. k \in 1 .. m /\ k + 1 \in 1 .. m /\ (k < j => k # j) /\ (~(k < j) => k + 1 # j)
        BY <1>2
      <3> QED
        BY <1>1, <1>4, <3>1
    <2> HIDE DEF w
    <2> QED
      BY <2>1, <2>2
  <1>6. IsFiniteSet(allocated') /\ Count' = m - 1 /\ allocated' \subseteq Nodes
    BY <1>1, <1>4, FS_RemoveElement DEF Count, TypeOK
  <1> HIDE DEF w
  <1>7. \A x \in allocated' : \E k \in 1 .. m - 1 : w[k] = x
    <2> SUFFICES ASSUME NEW x \in allocated' PROVE \E k \in 1 .. m - 1 : w[k] = x
      OBVIOUS
    <2>1. PICK k \in 1 .. m : o[k] = x
      BY <1>1, <1>4
    <2>2. k # j
      BY <1>4, <2>1
    <2>3. CASE k < j
      BY <1>3, <2>1, <2>3
    <2>4. CASE k > j
      <3>1. k - 1 \in 1 .. m - 1 /\ k - 1 >= j /\ (k - 1) + 1 = k
        BY <1>3, <2>4
      <3> QED
        BY <1>3, <2>1, <3>1
    <2> QED
      BY <1>2, <2>2, <2>3, <2>4
  <1>8. \A h, k \in 1 .. m - 1 : w[h] = w[k] => h = k
    <2>1. ASSUME NEW h \in 1 .. m - 1, NEW k \in 1 .. m - 1, w[h] = w[k]
          PROVE  h = k
      <3>1. /\ h \in 1 .. m /\ h + 1 \in 1 .. m /\ k \in 1 .. m /\ k + 1 \in 1 .. m
            /\ h \in Int /\ k \in Int
        BY <1>3
      <3> DEFINE a == IF h < j THEN h ELSE h + 1
                 b == IF k < j THEN k ELSE k + 1
      <3>2. w[h] = o[a] /\ w[k] = o[b] /\ a \in 1 .. m /\ b \in 1 .. m
        BY <1>2, <1>3, <3>1
      <3>3. a = b
        <4>1. \A x, y \in 1 .. m : o[x] = o[y] => x = y
          BY <1>1
        <4>2. o[a] = o[b] /\ a \in 1 .. m /\ b \in 1 .. m
          BY <2>1, <3>2
        <4> HIDE DEF a, b
        <4> QED
          BY ONLY <4>1, <4>2
      <3> QED
        BY <1>2, <3>1, <3>3
    <2> QED
      BY <2>1
  <1> DEFINE p == prev[n]
             q == next[n]
  <1>9. /\ p = IF j = 1 THEN None ELSE o[j - 1]
        /\ q = IF j = m THEN None ELSE o[j + 1]
    BY <1>1
  <1>10. /\ \A x \in Nodes : next'[x] = IF x = n THEN None
                                        ELSE IF x = p THEN q ELSE next[x]
         /\ \A x \in Nodes : prev'[x] = IF x = n THEN None
                                        ELSE IF x = q THEN p ELSE prev[x]
         /\ head' = IF p = None THEN q ELSE head
         /\ tail' = IF q = None THEN p ELSE tail
         /\ size' = m - 1
         /\ \A x \in Nodes : x # n => data'[x] = data[x]
    BY <1>1 DEF EraseNode, Shrunk, TypeOK
  <1> HIDE DEF p, q
  <1>11. \A k \in 1 .. m : (o[k] = p <=> k = j - 1) /\ (o[k] = q <=> k = j + 1)
    <2> SUFFICES ASSUME NEW k \in 1 .. m
                 PROVE  (o[k] = p <=> k = j - 1) /\ (o[k] = q <=> k = j + 1)
      OBVIOUS
    <2>1. /\ k \in Int /\ (j # 1 => j - 1 \in 1 .. m) /\ (j # m => j + 1 \in 1 .. m)
          /\ k # 0 /\ k # m + 1
      BY <1>1
    <2>2. o[k] = p <=> k = j - 1
      BY <1>1, <1>2, <1>9, <2>1
    <2>3. o[k] = q <=> k = j + 1
      BY <1>1, <1>2, <1>9, <2>1
    <2> QED
      BY <2>2, <2>3
  <1>12. ASSUME NEW k \in 1 .. m - 1
         PROVE  /\ next'[w[k]] = IF k = m - 1 THEN None ELSE w[k + 1]
                /\ prev'[w[k]] = IF k = 1 THEN None ELSE w[k - 1]
                /\ data'[w[k]] \in Elements
    <2>1. CASE k < j
      <3>1. /\ k \in 1 .. m /\ k # j /\ w[k] = o[k] /\ k # m /\ k \in Int
            /\ k # j + 1
        BY <1>2, <1>3, <2>1
      <3>2. o[k] \in Nodes /\ o[k] # n /\ o[k] # q
        BY <1>1, <1>11, <3>1
      <3>3. next'[o[k]] = IF k = m - 1 THEN None ELSE w[k + 1]
        <4>1. CASE k = j - 1
          <5>1. next'[o[k]] = IF j = m THEN None ELSE o[j + 1]
            BY <1>9, <1>10, <1>11, <3>1, <3>2, <4>1
          <5>2. (j = m <=> k = m - 1) /\ k + 1 = j
            BY <1>2, <4>1
          <5>3. j # m => j \in 1 .. m - 1 /\ w[j] = o[j + 1]
            BY <1>2, <1>3
          <5> QED
            BY <5>1, <5>2, <5>3
        <4>2. CASE k # j - 1
          <5>1. k + 1 \in 1 .. m - 1 /\ k + 1 < j /\ k # m - 1
            BY <1>2, <2>1, <4>2
          <5>2. w[k + 1] = o[k + 1] /\ o[k] # p
            BY <1>3, <1>11, <3>1, <4>2, <5>1
          <5> QED
            BY <1>1, <1>10, <3>1, <3>2, <5>1, <5>2
        <4> QED
          BY <4>1, <4>2
      <3>4. prev'[o[k]] = IF k = 1 THEN None ELSE w[k - 1]
        <4>1. prev'[o[k]] = IF k = 1 THEN None ELSE o[k - 1]
          BY <1>1, <1>10, <3>1, <3>2
        <4>2. k # 1 => k - 1 \in 1 .. m - 1 /\ k - 1 < j
          BY <1>2, <2>1
        <4> QED
          BY <1>3, <4>1, <4>2
      <3> QED
        BY <1>1, <1>10, <3>1, <3>2, <3>3, <3>4
    <2>2. CASE k >= j
      <3>1. /\ k + 1 \in 1 .. m /\ w[k] = o[k + 1] /\ k \in Int
            /\ k + 1 # j /\ k + 1 # j - 1 /\ k + 1 # 1 /\ (k + 1) - 1 = k
        BY <1>2, <1>3, <2>2
      <3>2. o[k + 1] \in Nodes /\ o[k + 1] # n /\ o[k + 1] # p
        BY <1>1, <1>11, <3>1
      <3>3. next'[o[k + 1]] = IF k = m - 1 THEN None ELSE w[k + 1]
        <4>1. next'[o[k + 1]] = IF k + 1 = m THEN None ELSE o[(k + 1) + 1]
          BY <1>1, <1>10, <3>1, <3>2
        <4>2. (k + 1 = m <=> k = m - 1) /\ (k # m - 1 => k + 1 \in 1 .. m - 1 /\ k + 1 >= j)
          BY <1>2, <2>2, <3>1
        <4> QED
          BY <1>3, <4>1, <4>2
      <3>4. prev'[o[k + 1]] = IF k = 1 THEN None ELSE w[k - 1]
        <4>1. CASE k = j
          <5>1. prev'[o[k + 1]] = IF j = 1 THEN None ELSE o[j - 1]
            BY <1>9, <1>10, <1>11, <3>1, <3>2, <4>1
          <5>2. j # 1 => j - 1 \in 1 .. m - 1 /\ j - 1 < j
            BY <1>2
          <5> QED
            BY <1>3, <4>1, <5>1, <5>2
        <4>2. CASE k # j
          <5>1. /\ k # 1 /\ k - 1 \in 1 .. m - 1 /\ k - 1 >= j /\ (k - 1) + 1 = k
                /\ k + 1 # j + 1
            BY <1>2, <2>2, <3>1, <4>2
          <5>2. w[k - 1] = o[k] /\ o[k + 1] # q
            BY <1>3, <1>11, <3>1, <5>1
          <5>3. prev'[o[k + 1]] = o[k]
            BY <1>1, <1>10, <3>1, <3>2, <5>2
          <5> QED
            BY <5>1, <5>2, <5>3
        <4> QED
          BY <4>1, <4>2
      <3> QED
        BY <1>1, <1>10, <3>1, <3>2, <3>3, <3>4
    <2> QED
      BY <1>2, <2>1, <2>2
  <1>13. head' = IF m - 1 = 0 THEN None ELSE w[1]
    <2>1. CASE j = 1
      <3>1. m - 1 # 0 => 1 \in 1 .. m - 1 /\ 1 >= j /\ 1 + 1 = j + 1 /\ j # m
        BY <1>2, <2>1
      <3>2. m - 1 = 0 => j = m
        BY <1>2, <2>1
      <3> QED
        BY <1>3, <1>9, <1>10, <2>1, <3>1, <3>2
    <2>2. CASE j # 1
      <3>1. j - 1 \in 1 .. m /\ 1 \in 1 .. m - 1 /\ 1 < j /\ m - 1 # 0
        BY <1>2, <2>2
      <3> QED
        BY <1>1, <1>2, <1>3, <1>9, <1>10, <2>2, <3>1
    <2> QED
      BY <2>1, <2>2
  <1>14. tail' = IF m - 1 = 0 THEN None ELSE w[m - 1]
    <2>1. CASE j = m
      <3>1. m - 1 # 0 => m - 1 \in 1 .. m - 1 /\ m - 1 < j /\ j # 1
        BY <1>2, <2>1
      <3>2. m - 1 = 0 => j = 1
        BY <1>2, <2>1
      <3> QED
        BY <1>3, <1>9, <1>10, <2>1, <3>1, <3>2
    <2>2. CASE j # m
      <3>1. /\ j + 1 \in 1 .. m /\ m - 1 \in 1 .. m - 1 /\ m - 1 >= j /\ m - 1 # 0
            /\ (m - 1) + 1 = m
        BY <1>2, <2>2
      <3> QED
        BY <1>1, <1>2, <1>3, <1>9, <1>10, <2>2, <3>1
    <2> QED
      BY <2>1, <2>2
  <1>15. Linked(w)'
    BY <1>6, <1>7, <1>8, <1>10, <1>12, <1>13, <1>14 DEF Linked, Start
  <1>16. Order(m - 1, w)'
    BY <1>2, <1>5, <1>6, <1>15 DEF Order
  <1> QED
    BY <1>16 DEF w

\* What a call or an iteration that takes away a node leads to.
Erased(m, j) ==
    /\ m - 1 \in Nat
    /\ \E o : Order(m - 1, o)'
    /\ OneMore(m - 1, Sequence', Sequence, j)
    /\ Sequence \in [1 .. m -> Elements]
    /\ Sequence' \in [1 .. m - 1 -> Elements]
    /\ \A x \in Elements : live'[x] = Occurrences(m - 1, Sequence', x)
    /\ live' \in [Elements -> Int]

LEMMA ErasedIs ==
    ASSUME Inv, NEW m, NEW o, Order(m, o), NEW j \in 1 .. m,
           Order(m - 1, WithoutNode(m, o, j))',
           \A x \in allocated : x # o[j] => data'[x] = data[x],
           live' = [live EXCEPT ![data[o[j]]] = @ - 1]
    PROVE  Erased(m, j)
  <1> DEFINE w == WithoutNode(m, o, j)
  <1>1. /\ m \in Nat /\ Count = m
        /\ \A k \in 1 .. m : o[k] \in allocated /\ data[o[k]] \in Elements
        /\ \A h, k \in 1 .. m : o[h] = o[k] => h = k
    BY OrderParts
  <1>2. m \in Nat /\ m - 1 \in Nat /\ j \in Int /\ (m - 1) + 1 = m
    BY <1>1
  <1>3. Sequence = Contents(m, o) /\ Sequence \in [1 .. m -> Elements]
    BY <1>2, SequenceIs DEF OrderShows
  <1>4. Sequence' = Contents(m - 1, w)' /\ Sequence' \in [1 .. m - 1 -> Elements]
    <2> HIDE DEF w
    <2> QED
      BY <1>2, SequenceIsNext DEF OrderShows, w
  <1>5. /\ \A k \in 1 .. m - 1 : k < j => w[k] = o[k]
        /\ \A k \in 1 .. m - 1 : k >= j => w[k] = o[k + 1]
        /\ \A k \in 1 .. m - 1 : k \in 1 .. m /\ k + 1 \in 1 .. m
    <2>1. /\ \A k \in 1 .. m - 1 : k < j => WithoutNode(m, o, j)[k] = o[k]
          /\ \A k \in 1 .. m - 1 : k >= j => WithoutNode(m, o, j)[k] = o[k + 1]
          /\ \A k \in 1 .. m - 1 : k \in 1 .. m /\ k + 1 \in 1 .. m
      BY ONLY <1>2, j \in 1 .. m, WithoutNodeIs
    <2> QED
      BY <2>1
  <1> HIDE DEF w
  <1>6. OneMore(m - 1, Sequence', Sequence, j)
    <2>1. \A k \in 1 .. m : Sequence[k] = data[o[k]]
      BY <1>3 DEF Contents
    <2>2. \A k \in 1 .. m - 1 : Sequence'[k] = data'[w[k]]
      BY <1>4 DEF Contents
    <2>3. ASSUME NEW k \in 1 .. m - 1
          PROVE  Sequence[IF k < j THEN k ELSE k + 1] = Sequence'[k]
      <3> DEFINE h == IF k < j THEN k ELSE k + 1
      <3>1. h \in 1 .. m /\ w[k] = o[h] /\ h # j
        BY <1>2, <1>5
      <3> HIDE DEF h
      <3>2. data'[o[h]] = data[o[h]]
        BY <1>1, <3>1
      <3>3. Sequence[h] = Sequence'[k]
        BY <2>1, <2>2, <3>1, <3>2
      <3> QED
        BY <3>3 DEF h
    <2> QED
      BY <2>3 DEF OneMore
  <1>7. live \in [Elements -> Int] /\ Sequence[j] = data[o[j]] /\ data[o[j]] \in Elements
    BY <1>1, <1>3, InvParts DEF Contents, TypeOK
  <1>8. \A x \in Elements : live'[x] = Occurrences(m - 1, Sequence', x)
    <2> SUFFICES ASSUME NEW x \in Elements
                 PROVE  live'[x] = Occurrences(m - 1, Sequence', x)
      OBVIOUS
    <2>1. live[x] = Occurrences(m, Sequence, x)
      BY <1>1, InvParts
    <2>2. live'[x] = live[x] - (IF Sequence[j] = x THEN 1 ELSE 0)
      BY <1>7
    <2>3. j \in 1 .. (m - 1) + 1
      BY <1>2
    <2>4. /\ Occurrences(m - 1, Sequence', x) \in Nat
          /\ Occurrences((m - 1) + 1, Sequence, x)
               = Occurrences(m - 1, Sequence', x) + (IF Sequence[j] = x THEN 1 ELSE 0)
      BY <1>2, <1>6, <2>3, CountInsert
    <2> QED
      BY <1>2, <2>1, <2>2, <2>4
  <1>9. live' \in [Elements -> Int]
    BY <1>7
  <1>10. \E v : Order(m - 1, v)'
    BY DEF w
  <1> QED
    BY <1>2, <1>3, <1>4, <1>6, <1>8, <1>9, <1>10 DEF Erased

\* Where a call erases.
ErasesAt(m, j) ==
    \/ call.op = "pop_back" /\ j = m
    \/ call.op = "pop_front" /\ j = 1
    \/ call.op = "erase" /\ j = call.at + 1 /\ call.at \in Nat

\* list_pop_back, list_pop_front, list_erase and list_erase_node take away
\* the element that the call says.
LEMMA EraseStep ==
    ASSUME Inv, Erase
    PROVE  /\ Inv'
           /\ \E m \in Nat : \E j \in 1 .. m : Erased(m, j) /\ ErasesAt(m, j)
  <1>1. /\ Return("ok") /\ pc' = "idle"
        /\ pc \in {"pop_back", "pop_front", "erase", "erase_node"}
    BY DEF Erase, Return
  <1>2. TypeOK /\ ControlShape /\ call.at \in Nat
    BY InvParts DEF TypeOK, CallRecords
  <1>3a. PICK m \in Nat : \E o : Order(m, o)
    BY InvParts
  <1>3. PICK o : Order(m, o)
    BY <1>3a
  <1>4. ~Clearing /\ ~Clearing' /\ pc' \notin NodeCalls
    BY <1>1 DEF Clearing, NodeCalls
  <1>5. /\ size = m
        /\ \A k \in 1 .. m : o[k] \in Nodes /\ data[o[k]] \in Elements
        /\ head = IF m = 0 THEN None ELSE o[1]
        /\ tail = IF m = 0 THEN None ELSE o[m]
    BY <1>3, <1>4, OrderParts
  <1>6. pc \in NodeCalls =>
          LET k == IF pc = "insert_after" THEN call.at ELSE call.at + 1
          IN  k \in 1 .. m /\ node = o[k]
    BY <1>3 DEF Order, Linked
  <1>7. PICK j \in 1 .. m : EraseNode(o[j]) /\ ErasesAt(m, j)
    <2>1. CASE pc = "pop_back"
      <3>1. size > 0 /\ EraseNode(tail) /\ call.op = "pop_back"
        BY <1>2, <2>1 DEF Erase, ControlShape, Functions
      <3>2. m \in 1 .. m /\ tail = o[m]
        BY <1>5, <3>1
      <3> QED
        BY <3>1, <3>2 DEF ErasesAt
    <2>2. CASE pc = "pop_front"
      <3>1. size > 0 /\ EraseNode(head) /\ call.op = "pop_front"
        BY <1>2, <2>2 DEF Erase, ControlShape, Functions
      <3>2. 1 \in 1 .. m /\ head = o[1]
        BY <1>5, <3>1
      <3> QED
        BY <3>1, <3>2 DEF ErasesAt
    <2>3. CASE pc = "erase"
      <3>1. call.at < size /\ EraseNode(NodeAt(call.at)) /\ call.op = "erase"
        BY <1>2, <2>3 DEF Erase, ControlShape, Functions
      <3>2. NodeAt(call.at) = o[call.at + 1] /\ call.at + 1 \in 1 .. m
        BY <1>2, <1>3, <1>4, <1>5, <3>1, NodeAtIs
      <3> QED
        BY <1>2, <3>1, <3>2 DEF ErasesAt
    <2>4. CASE pc = "erase_node"
      <3>1. EraseNode(node) /\ call.op = "erase"
        BY <1>2, <2>4 DEF Erase, ControlShape
      <3>2. node = o[call.at + 1] /\ call.at + 1 \in 1 .. m
        BY <1>6, <2>4 DEF NodeCalls
      <3> QED
        BY <1>2, <3>1, <3>2 DEF ErasesAt
    <2> QED
      BY <1>1, <2>1, <2>2, <2>3, <2>4
  <1>8. Order(m - 1, WithoutNode(m, o, j))'
    BY <1>2, <1>3, <1>4, <1>7, ErasedOrder
  <1>9. /\ data' = [data EXCEPT ![o[j]] = None]
        /\ live' = [live EXCEPT ![data[o[j]]] = @ - 1]
        /\ allocated' = allocated \ {o[j]} /\ size' = size - 1
    BY <1>7 DEF EraseNode, Shrunk
  <1>10. Erased(m, j)
    <2>1. \A x \in allocated : x # o[j] => data'[x] = data[x]
      BY <1>2, <1>9 DEF TypeOK
    <2> QED
      BY <1>3, <1>8, <1>9, <2>1, ErasedIs
  <1>11. /\ ControlShape' /\ call' \in CallRecords /\ pc' \in Phases
         /\ node' = None /\ cur' = None /\ i' = 0
    BY <1>1, ReturnShape
  <1>12. TypeOK'
    <2>1. o[j] \in Nodes /\ m - 1 \in Nat
      BY <1>5
    <2>2. prev[o[j]] \in Nodes \cup {None} /\ next[o[j]] \in Nodes \cup {None}
      BY <1>2, <2>1 DEF TypeOK
    <2>3. /\ head' \in Nodes \cup {None} /\ tail' \in Nodes \cup {None}
          /\ prev' \in [Nodes -> Nodes \cup {None}]
          /\ next' \in [Nodes -> Nodes \cup {None}]
      BY <1>2, <1>7, <2>2 DEF EraseNode, TypeOK
    <2>4. data' \in [Nodes -> Args]
      BY <1>2, <1>9 DEF TypeOK, Args
    <2>5. live' \in [Elements -> Int]
      BY <1>10 DEF Erased
    <2>6. size' \in Nat /\ allocated' \subseteq Nodes
      BY <1>2, <1>5, <1>9, <2>1 DEF TypeOK
    <2> QED
      BY <1>11, <2>3, <2>4, <2>5, <2>6 DEF TypeOK
  <1>13. Inv'
    <2>1. /\ \E v : Order(m - 1, v)'
          /\ \A x \in Elements : live'[x] = Occurrences(m - 1, Sequence', x)
      BY <1>10 DEF Erased
    <2> QED
      BY <1>11, <1>12, <2>1, InvFromOrderNext DEF OrderSuffices
  <1> QED
    BY <1>7, <1>10, <1>13

-----------------------------------------------------------------------------
(* list_set, list_clear and list_copy *)

\* list_set and list_set_node replace the element at the call's position.
LEMMA SetStep ==
    ASSUME Inv, Set
    PROVE  /\ Inv'
           /\ \E m \in Nat :
                 /\ call.op = "set" /\ call.elem \in Elements
                 /\ call.at \in Nat /\ call.at + 1 \in 1 .. m
                 /\ Sequence \in [1 .. m -> Elements]
                 /\ Sequence' \in [1 .. m -> Elements]
                 /\ OneOther(m, Sequence, Sequence', call.at + 1)
                 /\ Sequence'[call.at + 1] = call.elem
  <1>1. /\ Return("ok") /\ pc' = "idle" /\ pc \in {"set", "set_node"}
        /\ pc = "set" => call.at < size
        /\ call.elem # None
        /\ UNCHANGED <<list, links, allocated>>
    BY DEF Set, Return
  <1>2. TypeOK /\ ControlShape /\ call.at \in Nat /\ call.elem \in Elements
    BY <1>1, InvParts DEF TypeOK, CallRecords, Args
  <1>3a. PICK m \in Nat : \E o : Order(m, o)
    BY InvParts
  <1>3. PICK o : Order(m, o)
    BY <1>3a
  <1>4. ~Clearing /\ ~Clearing' /\ pc' \notin NodeCalls
    BY <1>1 DEF Clearing, NodeCalls
  <1>5. /\ size = m /\ Count = m
        /\ \A k \in 1 .. m : o[k] \in Nodes /\ data[o[k]] \in Elements
        /\ \A h, k \in 1 .. m : o[h] = o[k] => h = k
    BY <1>3, <1>4, OrderParts
  <1> DEFINE j == call.at + 1
             e == call.elem
  <1>6. j \in 1 .. m /\ (IF pc = "set" THEN NodeAt(call.at) ELSE node) = o[j]
    <2>1. CASE pc = "set"
      BY <1>1, <1>2, <1>3, <1>4, <1>5, <2>1, NodeAtIs
    <2>2. CASE pc = "set_node"
      <3>1. LET k == IF pc = "insert_after" THEN call.at ELSE call.at + 1
            IN  k \in 1 .. m /\ node = o[k]
        BY <1>3, <2>2 DEF Order, Linked, NodeCalls
      <3> QED
        BY <2>2, <3>1
    <2> QED
      BY <1>1, <2>1, <2>2
  <1>7. /\ live' = [[live EXCEPT ![e] = @ + 1] EXCEPT ![data[o[j]]] = @ - 1]
        /\ data' = [data EXCEPT ![o[j]] = e]
    BY <1>6 DEF Set
  <1>8. /\ ControlShape' /\ call' \in CallRecords /\ pc' \in Phases
        /\ node' = None /\ cur' = None /\ i' = 0
    BY <1>1, ReturnShape
  <1> HIDE DEF j
  <1>9. data' \in [Nodes -> Args] /\ live' \in [Elements -> Int]
    BY <1>2, <1>5, <1>6, <1>7 DEF TypeOK, Args
  <1>10. TypeOK'
    BY <1>1, <1>2, <1>8, <1>9 DEF TypeOK, list, links
  <1>11. /\ data'[o[j]] = e
         /\ \A k \in 1 .. m : k # j => data'[o[k]] = data[o[k]]
    BY <1>2, <1>5, <1>6, <1>7 DEF TypeOK
  <1>12. Order(m, o)'
    <2>1. Count' = Count /\ Start' = Start
      BY <1>1, <1>4 DEF Count, Start, list
    <2>2. \A k \in 1 .. m : data'[o[k]] \in Elements
      BY <1>2, <1>5, <1>11
    <2>3. Linked(o)'
      BY <1>1, <1>3, <1>4, <1>5, <2>1, <2>2 DEF Order, Linked, list, links
    <2> QED
      BY <1>1, <1>3, <2>1, <2>3 DEF Order
  <1>13. Sequence = Contents(m, o) /\ Sequence \in [1 .. m -> Elements]
    BY <1>3, SequenceIs DEF OrderShows
  <1>14. Sequence' = Contents(m, o)' /\ Sequence' \in [1 .. m -> Elements]
    BY <1>12, SequenceIsNext DEF OrderShows
  <1>15. OneOther(m, Sequence, Sequence', j) /\ Sequence'[j] = e
    BY <1>6, <1>11, <1>13, <1>14 DEF OneOther, Contents
  <1>16. \A x \in Elements : live'[x] = Occurrences(m, Sequence', x)
    <2> SUFFICES ASSUME NEW x \in Elements
                 PROVE  live'[x] = Occurrences(m, Sequence', x)
      OBVIOUS
    <2>1. live[x] = Occurrences(m, Sequence, x)
      BY <1>5, InvParts
    <2>2. Sequence[j] = data[o[j]]
      BY <1>6, <1>13 DEF Contents
    <2>3. live'[x] = live[x] - (IF Sequence[j] = x THEN 1 ELSE 0)
                             + (IF e = x THEN 1 ELSE 0)
      BY <1>2, <1>5, <1>6, <1>7, <2>2 DEF TypeOK
    <2>4. /\ Occurrences(m, Sequence, x) \in Nat
          /\ Occurrences(m, Sequence', x)
               = Occurrences(m, Sequence, x)
                   - (IF Sequence[j] = x THEN 1 ELSE 0)
                   + (IF Sequence'[j] = x THEN 1 ELSE 0)
      <3>1. m \in Nat
        BY <1>3
      <3>2. j \in 1 .. m /\ OneOther(m, Sequence, Sequence', j)
        BY <1>6, <1>15
      <3> QED
        BY <3>1, <3>2, CountReplace
    <2> QED
      BY <1>15, <2>1, <2>3, <2>4
  <1>17. Inv'
    BY <1>8, <1>10, <1>12, <1>16, InvFromOrderNext DEF OrderSuffices
  <1>18. call.op = "set"
    BY <1>1, <1>2 DEF ControlShape, Functions
  <1> QED
    BY <1>2, <1>6, <1>13, <1>14, <1>15, <1>17, <1>18 DEF j

\* list_clear starts, or is called by list_copy when its loop fails.
LEMMA ClearingBegins ==
    ASSUME Inv, ClearBegin \/ CopyFails
    PROVE  Inv' /\ Sequence' = Sequence
  <1>1. TypeOK /\ ControlShape
    BY InvParts
  <1>2. /\ UNCHANGED <<list, links, data, allocated, live, call, node, i>>
        /\ cur' = head /\ pc' \in {"clearing", "unwinding"}
        /\ pc \in {"clear", "destroy", "copy", "copying"}
        /\ pc' = "clearing" <=> pc # "copying"
    BY DEF ClearBegin, CopyFails
  <1>3. ~Clearing /\ Clearing' /\ pc' \notin NodeCalls
    BY <1>2 DEF Clearing, NodeCalls
  <1>4. Start' = Start
    BY <1>2, <1>3 DEF Start, list
  <1>5. TypeOK'
    BY <1>1, <1>2 DEF TypeOK, Phases, list, links
  <1>6. ControlShape'
    BY <1>1, <1>2 DEF ControlShape, Functions
  <1> QED
    BY <1>2, <1>3, <1>4, <1>5, <1>6, KeptInv

\* An iteration of list_clear takes the first node that is left.
LEMMA ClearStepTakes ==
    ASSUME Inv, ClearStep
    PROVE  Inv' /\ \E m \in Nat : 1 \in 1 .. m /\ Erased(m, 1)
  <1>1. TypeOK /\ ControlShape
    BY InvParts
  <1>2. /\ Clearing /\ cur # None
        /\ live' = [live EXCEPT ![data[cur]] = @ - 1]
        /\ allocated' = allocated \ {cur}
        /\ prev' = [prev EXCEPT ![cur] = None]
        /\ next' = [next EXCEPT ![cur] = None]
        /\ data' = [data EXCEPT ![cur] = None]
        /\ cur' = next[cur]
        /\ UNCHANGED <<head, tail, size, pc, call, node, i>>
    BY DEF ClearStep, Free, list
  <1>3a. PICK m \in Nat : \E o : Order(m, o)
    BY InvParts
  <1>3. PICK o : Order(m, o)
    BY <1>3a
  <1>4. /\ m \in Nat /\ Count = m /\ IsFiniteSet(allocated)
        /\ \A k \in 1 .. m : o[k] \in allocated /\ o[k] \in Nodes /\ o[k] # None
        /\ \A x \in allocated : \E k \in 1 .. m : o[k] = x
        /\ \A h, k \in 1 .. m : o[h] = o[k] => h = k
        /\ Start = IF m = 0 THEN None ELSE o[1]
        /\ \A k \in 1 .. m :
              /\ next[o[k]] = IF k = m THEN None ELSE o[k + 1]
              /\ data[o[k]] \in Elements
    BY <1>3, OrderParts
  <1>5. 1 \in 1 .. m /\ cur = o[1] /\ m # 0 /\ m - 1 \in Nat
    BY <1>2, <1>4 DEF Start
  <1> DEFINE w == WithoutNode(m, o, 1)
  <1>6. \A k \in 1 .. m - 1 :
           w[k] = o[k + 1] /\ k + 1 \in 1 .. m /\ k + 1 # 1
    <2>1. \A k \in 1 .. m - 1 : k >= 1 => WithoutNode(m, o, 1)[k] = o[k + 1]
      BY ONLY <1>5, <1>3, WithoutNodeIs
    <2> QED
      BY <2>1
  <1>7. w \in [1 .. m - 1 -> allocated']
    <2>1. w = [k \in 1 .. m - 1 |-> IF k < 1 THEN o[k] ELSE o[k + 1]]
      BY DEF WithoutNode
    <2>2. ASSUME NEW k \in 1 .. m - 1
          PROVE  (IF k < 1 THEN o[k] ELSE o[k + 1]) \in allocated'
      <3>1. k + 1 \in 1 .. m /\ k + 1 # 1 /\ ~ (k < 1)
        OBVIOUS
      <3> QED
        BY <1>2, <1>4, <1>5, <3>1
    <2> HIDE DEF w
    <2> QED
      BY <2>1, <2>2
  <1>8. IsFiniteSet(allocated') /\ Count' = m - 1 /\ allocated' \subseteq Nodes
    BY <1>1, <1>2, <1>4, <1>5, FS_RemoveElement DEF Count, TypeOK
  <1> HIDE DEF w
  <1>9. \A x \in allocated' : \E k \in 1 .. m - 1 : w[k] = x
    <2> SUFFICES ASSUME NEW x \in allocated' PROVE \E k \in 1 .. m - 1 : w[k] = x
      OBVIOUS
    <2>1. PICK k \in 1 .. m : o[k] = x
      BY <1>2, <1>4
    <2>2. k # 1
      BY <1>2, <1>5, <2>1
    <2>3. k - 1 \in 1 .. m - 1 /\ (k - 1) + 1 = k
      BY <2>2
    <2> QED
      BY <1>6, <2>1, <2>3
  <1>10. \A h, k \in 1 .. m - 1 : w[h] = w[k] => h = k
    <2>1. ASSUME NEW h \in 1 .. m - 1, NEW k \in 1 .. m - 1, w[h] = w[k]
          PROVE  h = k
      <3>1. o[h + 1] = o[k + 1] /\ h + 1 \in 1 .. m /\ k + 1 \in 1 .. m
        BY <1>6, <2>1
      <3>2. h + 1 = k + 1
        BY <1>4, <3>1
      <3> QED
        BY <3>2
    <2> QED
      BY <2>1
  <1>11. \A x \in Nodes : x # cur => next'[x] = next[x] /\ data'[x] = data[x]
    BY <1>1, <1>2 DEF TypeOK
  <1>12. ASSUME NEW k \in 1 .. m - 1
         PROVE  /\ next'[w[k]] = IF k = m - 1 THEN None ELSE w[k + 1]
                /\ data'[w[k]] \in Elements
    <2>1. w[k] = o[k + 1] /\ k + 1 \in 1 .. m /\ k + 1 # 1
      BY <1>6
    <2>2. o[k + 1] # cur /\ o[k + 1] \in Nodes
      BY <1>4, <1>5, <2>1
    <2>3. next[o[k + 1]] = IF k + 1 = m THEN None ELSE o[(k + 1) + 1]
      BY <1>4, <2>1
    <2>4. (k + 1 = m <=> k = m - 1) /\ (k # m - 1 => k + 1 \in 1 .. m - 1)
      BY <1>3
    <2> QED
      BY <1>4, <1>6, <1>11, <2>1, <2>2, <2>3, <2>4
  <1>13. Clearing' /\ pc' \notin NodeCalls
    BY <1>2 DEF Clearing, NodeCalls
  <1>14. Start' = IF m - 1 = 0 THEN None ELSE w[1]
    <2>1. Start' = IF m = 1 THEN None ELSE o[2]
      BY <1>2, <1>4, <1>5, <1>13 DEF Start
    <2>2. (m = 1 <=> m - 1 = 0) /\ (m - 1 # 0 => 1 \in 1 .. m - 1)
      BY <1>5
    <2> QED
      BY <1>6, <2>1, <2>2
  <1>15. Order(m - 1, w)'
    <2>1. Linked(w)'
      BY <1>8, <1>9, <1>10, <1>12, <1>13, <1>14 DEF Linked
    <2> QED
      BY <1>5, <1>7, <1>8, <2>1 DEF Order
  <1>16. Erased(m, 1)
    <2>1. \A x \in allocated : x # o[1] => data'[x] = data[x]
      BY <1>1, <1>5, <1>11 DEF TypeOK
    <2>2. live' = [live EXCEPT ![data[o[1]]] = @ - 1]
      BY <1>2, <1>5
    <2> QED
      BY <1>3, <1>5, <1>15, <2>1, <2>2, ErasedIs DEF w
  <1>17. TypeOK'
    <2>1. cur \in Nodes
      BY <1>4, <1>5
    <2>2. cur' \in Nodes \cup {None}
      BY <1>1, <1>2, <2>1 DEF TypeOK
    <2>3. live' \in [Elements -> Int]
      BY <1>16 DEF Erased
    <2>4. /\ prev' \in [Nodes -> Nodes \cup {None}]
          /\ next' \in [Nodes -> Nodes \cup {None}]
          /\ data' \in [Nodes -> Args]
      BY <1>1, <1>2 DEF TypeOK, Args
    <2> QED
      BY <1>1, <1>2, <1>8, <2>2, <2>3, <2>4 DEF TypeOK
  <1>18. ControlShape'
    BY <1>1, <1>2 DEF ControlShape, Clearing, Functions
  <1>19. Inv'
    <2>1. \A x \in Elements : live'[x] = Occurrences(m - 1, Sequence', x)
      BY <1>16 DEF Erased
    <2> QED
      BY <1>15, <1>17, <1>18, <2>1, InvFromOrderNext DEF OrderSuffices
  <1> QED
    BY <1>5, <1>16, <1>19

\* When list_clear has freed the last node, the list is empty.
LEMMA ClearEndEmpties ==
    ASSUME Inv, ClearEnd
    PROVE  /\ Inv' /\ Sequence' = Sequence
           /\ Sequence \in [1 .. 0 -> Elements]
  <1>1. TypeOK /\ ControlShape
    BY InvParts
  <1>2. /\ Clearing /\ cur = None
        /\ head' = None /\ tail' = None /\ size' = 0
        /\ UNCHANGED <<prev, next, data, allocated, live>>
    BY DEF ClearEnd, links
  <1>3a. PICK m \in Nat : \E o : Order(m, o)
    BY InvParts
  <1>3. PICK o : Order(m, o)
    BY <1>3a
  <1>4. Count = m /\ Start = (IF m = 0 THEN None ELSE o[1])
        /\ \A k \in 1 .. m : o[k] # None
    BY <1>3, OrderParts
  <1>5. m = 0
    <2> SUFFICES ASSUME m # 0 PROVE FALSE
      OBVIOUS
    <2>1. 1 \in 1 .. m
      BY <1>3
    <2> QED
      BY <1>2, <1>4, <2>1 DEF Start
  <1>6. /\ ControlShape' /\ ~Clearing' /\ pc' \notin NodeCalls
        /\ pc' \in Phases /\ call' \in CallRecords
        /\ node' \in Nodes \cup {None} /\ cur' \in Nodes \cup {None} /\ i' \in Nat
    <2>1. CASE pc = "clearing" /\ call.op = "copy"
      <3>1. pc' = "copying" /\ UNCHANGED <<call, node, cur, i>>
        BY <2>1 DEF ClearEnd, loop
      <3>2. i = 0
        BY <1>1, <2>1 DEF ControlShape
      <3>3. 0 <= Len(call.source)
        BY <1>1 DEF TypeOK, CallRecords
      <3>4. ControlShape'
        BY <1>1, <1>2, <2>1, <3>1, <3>2, <3>3 DEF ControlShape, Functions
      <3> QED
        BY <1>1, <3>1, <3>4 DEF TypeOK, Phases, Clearing, NodeCalls
    <2>2. CASE ~(pc = "clearing" /\ call.op = "copy")
      <3>1. PICK ret \in {"ok", "error"} : Return(ret)
        BY <2>2 DEF ClearEnd
      <3>2. /\ ControlShape' /\ ~Clearing' /\ pc' = "idle"
            /\ call' \in CallRecords /\ pc' \in Phases
            /\ node' = None /\ cur' = None /\ i' = 0
        BY <3>1, ReturnShape
      <3> QED
        BY <3>2 DEF NodeCalls
    <2> QED
      BY <2>1, <2>2
  <1>7. Start' = Start
    BY <1>2, <1>6 DEF Start
  <1>8. Sequence' = Sequence /\ Count' = 0
    BY <1>2, <1>4, <1>5, <1>7, SameSequence
  <1>9. Order(0, o)'
    <2>1. Linked(o)'
      BY <1>2, <1>3, <1>4, <1>5, <1>6, <1>7, <1>8 DEF Order, Linked
    <2> QED
      BY <1>2, <1>3, <1>5, <1>8, <2>1 DEF Order
  <1>10. TypeOK'
    BY <1>1, <1>2, <1>6 DEF TypeOK
  <1>11. \A x \in Elements : live'[x] = Occurrences(0, Sequence', x)
    BY <1>2, <1>4, <1>5, <1>8, InvParts
  <1>12. Inv'
    BY <1>6, <1>9, <1>10, <1>11, InvFromOrderNext DEF OrderSuffices
  <1>13. Sequence \in [1 .. 0 -> Elements]
    BY <1>3, <1>5, SequenceIs DEF OrderShows
  <1> QED
    BY <1>8, <1>12, <1>13

\* An iteration of list_copy appends the next element of the source.
LEMMA CopyStepAdds ==
    ASSUME Inv, CopyStep
    PROVE  /\ Inv'
           /\ \E m \in Nat :
                 /\ i = m /\ m < Len(call.source) /\ call.op = "copy"
                 /\ Added(m, m + 1, call.source[m + 1])
                 /\ \A n \in 1 .. m : Sequence[n] = call.source[n]
  <1>1. TypeOK /\ ControlShape
    BY InvParts
  <1>2. /\ pc = "copying" /\ i < Len(call.source) /\ i' = i + 1
        /\ AddNode(call.source[i + 1], tail, None)
        /\ UNCHANGED <<pc, call, node, cur>>
    BY DEF CopyStep
  <1>3a. PICK m \in Nat : \E o : Order(m, o)
    BY InvParts
  <1>3. PICK o : Order(m, o)
    BY <1>3a
  <1>4. ~Clearing /\ ~Clearing' /\ pc' \notin NodeCalls
    BY <1>2 DEF Clearing, NodeCalls
  <1>5. size = m /\ tail = IF m = 0 THEN None ELSE o[m]
    BY <1>3, <1>4, OrderParts
  <1>6. /\ i = m /\ call.op = "copy"
        /\ \A n \in 1 .. m : Sequence[n] = call.source[n]
    BY <1>1, <1>2, <1>5 DEF ControlShape
  <1>7. call.source \in Seq(Elements) /\ m + 1 \in 1 .. Len(call.source)
    BY <1>1, <1>2, <1>3, <1>6 DEF TypeOK, CallRecords
  <1>8. call.source[m + 1] \in Elements
    BY <1>7, ElementOfSeq
  <1>9. Added(m, m + 1, call.source[m + 1])
    <2>1. m + 1 \in 1 .. m + 1 /\ (m + 1 = 1 <=> m = 0) /\ (m + 1) - 1 = m
      BY <1>3
    <2>2. Before(m, o, m + 1) = tail /\ At(m, o, m + 1) = None
      BY <1>5, <2>1 DEF Before, At
    <2>3. AddNode(call.source[m + 1], Before(m, o, m + 1), At(m, o, m + 1))
      BY <1>2, <1>6, <2>2
    <2> QED
      BY <1>3, <1>4, <1>8, <2>1, <2>3, AddedIs
  <1>10. TypeOK'
    <2>1. i' \in Nat
      BY <1>2, <1>3, <1>6
    <2> QED
      BY <1>1, <1>2, <1>9, <2>1 DEF Added, TypeOK
  <1>11. ControlShape'
    <2>1. i' = size' /\ i' <= Len(call'.source)
      BY <1>2, <1>6, <1>7, <1>9 DEF Added
    <2>2. \A n \in 1 .. i' : Sequence'[n] = call'.source[n]
      <3> SUFFICES ASSUME NEW n \in 1 .. m + 1
                   PROVE  Sequence'[n] = call.source[n]
        BY <1>2, <1>6
      <3>1. CASE n = m + 1
        BY <1>9, <3>1 DEF Added
      <3>2. CASE n # m + 1
        <4>1. n \in 1 .. m /\ n < m + 1
          BY <3>2
        <4>2. Sequence'[n] = Sequence[n]
          BY <1>9, <4>1 DEF Added, OneMore
        <4> QED
          BY <1>6, <4>1, <4>2
      <3> QED
        BY <3>1, <3>2
    <2> QED
      BY <1>1, <1>2, <2>1, <2>2 DEF ControlShape, Functions
  <1>12. Inv'
    <2>1. /\ \E v : Order(m + 1, v)'
          /\ \A x \in Elements : live'[x] = Occurrences(m + 1, Sequence', x)
      BY <1>9 DEF Added
    <2> QED
      BY <1>10, <1>11, <2>1, InvFromOrderNext DEF OrderSuffices
  <1> QED
    BY <1>2, <1>6, <1>9, <1>12

-----------------------------------------------------------------------------
(* The list *)

LEMMA InitInv == Init => Inv /\ Sequence = <<>>
  <1> SUFFICES ASSUME Init PROVE Inv /\ Sequence = <<>>
    OBVIOUS
  <1>1. allocated = {} /\ IsFiniteSet(allocated) /\ Count = 0
    BY FS_EmptySet DEF Init, Count
  <1>2. ~Clearing /\ pc \notin NodeCalls /\ Start = None
    BY DEF Init, Clearing, NodeCalls, Start
  <1> DEFINE o == [k \in 1 .. 0 |-> None]
  <1>3. Order(0, o)
    <2>1. Linked(o)
      BY <1>1, <1>2 DEF Init, Linked
    <2> QED
      BY <1>1, <2>1 DEF Order
  <1>4. Sequence \in [1 .. 0 -> Elements]
    <2> HIDE DEF o
    <2> QED
      BY <1>3, SequenceIs DEF OrderShows
  <1>5. TypeOK
    <2>1. <<>> \in Seq(Elements)
      OBVIOUS
    <2> QED
      BY <2>1 DEF Init, TypeOK, Phases, CallRecords, Args
  <1>6. ControlShape
    BY DEF Init, ControlShape, Functions
  <1>7. \A e \in Elements : live[e] = Occurrences(0, Sequence, e)
    <2> SUFFICES ASSUME NEW e \in Elements
                 PROVE  live[e] = Occurrences(0, Sequence, e)
      OBVIOUS
    <2>1. {n \in 1 .. 0 : Sequence[n] = e} = {}
      OBVIOUS
    <2> QED
      BY <2>1, FS_EmptySet DEF Init, Occurrences
  <1>8. Inv
    BY <1>3, <1>5, <1>6, <1>7, InvFromOrder DEF OrderSuffices
  <1> QED
    BY <1>4, <1>8, EmptyIs

\* The arguments calls have.
LEMMA ArgumentTypes ==
    /\ None \in Args
    /\ \A n \in Indices : n \in Nat
    /\ 0 \in Indices /\ <<>> \in Seq(Elements) /\ <<>> \in Sources
    /\ \A s \in Sources : s \in Seq(Elements)
  BY ListAssumption DEF Args

\* A call changes nothing that shows.
LEMMA CallsInv ==
    ASSUME Inv, Calls
    PROVE  Inv' /\ Sequence' = Sequence
  <1>1. /\ None \in Args
        /\ \A n \in Indices : n \in Nat
        /\ 0 \in Nat /\ <<>> \in Seq(Elements)
        /\ \A s \in Sources : s \in Seq(Elements)
    BY ArgumentTypes
  <1>2. ASSUME NEW op \in {"push_back", "push_front"}, NEW e \in Args,
               Call(op, e, 0, <<>>)
        PROVE  Inv' /\ Sequence' = Sequence
    BY <1>1, <1>2, CallInv DEF Functions
  <1>3. ASSUME NEW op \in {"insert", "set"}, NEW e \in Args, NEW n \in Indices,
               Call(op, e, n, <<>>)
        PROVE  Inv' /\ Sequence' = Sequence
    BY <1>1, <1>3, CallInv DEF Functions
  <1>4. ASSUME NEW op \in {"pop_back", "pop_front", "clear", "destroy"},
               Call(op, None, 0, <<>>)
        PROVE  Inv' /\ Sequence' = Sequence
    BY <1>1, <1>4, CallInv DEF Functions
  <1>5. ASSUME NEW n \in Indices, Call("erase", None, n, <<>>)
        PROVE  Inv' /\ Sequence' = Sequence
    BY <1>1, <1>5, CallInv DEF Functions
  <1>6. ASSUME NEW s \in Sources, Call("copy", None, 0, s)
        PROVE  Inv' /\ Sequence' = Sequence
    BY <1>1, <1>6, CallInv DEF Functions
  <1>7. ASSUME NEW e \in Args, NEW n \in Indices,
               NEW f \in {"insert_before", "insert_after"}, CallNode(f, "insert", e, n)
        PROVE  Inv' /\ Sequence' = Sequence
    BY <1>1, <1>7, CallNodeInv DEF NodeCalls
  <1>8. ASSUME NEW e \in Args, NEW n \in Indices, CallNode("set_node", "set", e, n)
        PROVE  Inv' /\ Sequence' = Sequence
    BY <1>1, <1>8, CallNodeInv DEF NodeCalls
  <1>9. ASSUME NEW n \in Indices, CallNode("erase_node", "erase", None, n)
        PROVE  Inv' /\ Sequence' = Sequence
    BY <1>1, <1>9, CallNodeInv DEF NodeCalls
  <1> QED
    BY <1>2, <1>3, <1>4, <1>5, <1>6, <1>7, <1>8, <1>9 DEF Calls

\* A call that fails or finds nothing to do has not touched the list.
NothingDone == AddFails \/ PopMissing \/ EraseMissing \/ SetFails \/ CopyEnd

LEMMA NothingDoneInv ==
    ASSUME Inv, NothingDone
    PROVE  Inv' /\ Sequence' = Sequence
  <1>1. /\ \E ret \in {"ok", "error"} : Return(ret)
        /\ UNCHANGED <<list, links, data, allocated, live>>
        /\ pc \notin {"clearing", "unwinding"}
    BY DEF NothingDone, AddFails, PopMissing, EraseMissing, SetFails, CopyEnd, Fail
  <1> QED
    BY <1>1, UntouchedInv DEF Clearing

LEMMA StoppedInv ==
    ASSUME Inv, UNCHANGED vars
    PROVE  Inv' /\ Sequence' = Sequence
  <1>1. UNCHANGED <<head, tail, size, prev, next, data, allocated, live, pc, call,
                    node, cur, i>>
    BY DEF vars, list, links, loop
  <1>2. Start' = Start /\ (Clearing' <=> Clearing)
    BY <1>1 DEF Start, Clearing
  <1>3. Sequence' = Sequence /\ Count' = Count
    BY <1>1, <1>2, SameSequence
  <1>4. TypeOK' /\ ControlShape'
    BY <1>1, <1>3, InvParts DEF TypeOK, ControlShape
  <1>5. PICK o \in [1 .. Count -> allocated] : Linked(o)
    BY DEF Inv
  <1>6. Linked(o)'
    BY <1>1, <1>2, <1>3, <1>5 DEF Linked
  <1>7. \A e \in Elements : live'[e] = Occurrences(Count', Sequence', e)
    BY <1>1, <1>3, InvParts
  <1> QED
    BY <1>1, <1>3, <1>4, <1>5, <1>6, <1>7 DEF Inv

LEMMA NextInv ==
    ASSUME Inv, [Next]_vars
    PROVE  Inv'
  <1>1. CASE Add
    <2>1. PICK m \in Nat : \E j \in 1 .. m + 1 : Added(m, j, call.elem)
      BY <1>1, AddStep
    <2>2. Return("ok")
      BY <1>1 DEF Add
    <2> QED
      BY <2>1, <2>2, AddedInv
  <1>2. CASE NothingDone
    BY <1>2, NothingDoneInv
  <1>3. CASE Erase
    BY <1>3, EraseStep
  <1>4. CASE Set
    BY <1>4, SetStep
  <1>5. CASE ClearBegin \/ CopyFails
    BY <1>5, ClearingBegins
  <1>6. CASE ClearStep
    BY <1>6, ClearStepTakes
  <1>7. CASE ClearEnd
    BY <1>7, ClearEndEmpties
  <1>8. CASE CopyStep
    BY <1>8, CopyStepAdds
  <1>9. CASE Calls
    BY <1>9, CallsInv
  <1>10. CASE UNCHANGED vars
    BY <1>10, StoppedInv
  <1> QED
    BY <1>1, <1>2, <1>3, <1>4, <1>5, <1>6, <1>7, <1>8, <1>9, <1>10
       DEF Next, Body, NothingDone

THEOREM InvHolds == Spec => []Inv
  <1>1. Init => Inv
    BY InitInv
  <1> QED
    BY <1>1, NextInv, PTL DEF Spec

\* Through every call, by index or by node, and every failed copy, the links
\* of list.c lead through all nodes that are allocated and through no other,
\* the same way back, and each node has one of the copies that live.
THEOREM ListShapeHolds == Spec => []ListShape
  BY InvHolds, InvShape, PTL

-----------------------------------------------------------------------------
(* Callers see a sequence *)

LEMMA SequenceLength ==
    ASSUME Inv
    PROVE  /\ Count \in Nat /\ Sequence \in [1 .. Count -> Elements]
           /\ Sequence \in Seq(Elements) /\ Len(Sequence) = Count
           /\ Sequence = <<>> <=> Count = 0
           /\ ~Clearing => size = Count
  <1>1a. PICK m \in Nat : \E o : Order(m, o)
    BY InvParts
  <1>1. PICK o : Order(m, o)
    BY <1>1a
  <1>2. Count = m /\ (~Clearing => size = m)
    BY <1>1, OrderParts
  <1>3. Sequence \in [1 .. m -> Elements]
    BY <1>1, SequenceIs DEF OrderShows
  <1>4. Sequence \in Seq(Elements) /\ Len(Sequence) = m
    BY <1>3, SequenceOf
  <1>5. m = 0 => Sequence = <<>>
    BY <1>3, EmptyIs
  <1>6. Sequence = <<>> => m = 0
    BY <1>4
  <1> QED
    BY <1>2, <1>3, <1>4, <1>5, <1>6

\* A function that returns from its own phases answers its call.
LEMMA Answers ==
    ASSUME Inv, NEW ret \in {"ok", "error"}, Return(ret), pc # "idle",
           NEW ops, call.op \in ops, NEW c, Sequence' = c
    PROVE  Seqn!Answer(ops, ret, c)
  BY InvParts DEF Seqn!Answer, Seqn!Idle, Return, ControlShape

LEMMA CallsStep ==
    ASSUME Inv, Calls
    PROVE  [Seqn!Next]_Seqn!seqVars
  <1>1. Sequence' = Sequence
    BY CallsInv
  <1> DEFINE Ops == {"push_back", "push_front", "insert", "set", "pop_back",
                     "pop_front", "clear", "destroy", "erase", "copy"}
             Seen == \E op \in Ops, e \in Args, n \in Indices, s \in Sources :
                        /\ pc = "idle"
                        /\ call' = [op |-> op, elem |-> e, at |-> n, source |-> s,
                                    ret |-> "pending"]
  <1>2. /\ None \in Args /\ 0 \in Indices /\ <<>> \in Sources
        /\ \A n \in Indices : n \in Nat
    BY ArgumentTypes
  <1>3. ASSUME NEW op \in Ops, NEW e \in Args, NEW n \in Indices, NEW s \in Sources,
               Call(op, e, n, s)
        PROVE  Seen
    BY <1>3 DEF Call
  <1>4. ASSUME NEW f \in NodeCalls, NEW op \in Ops, NEW e \in Args, NEW n \in Indices,
               CallNode(f, op, e, n)
        PROVE  Seen
    <2>1. pc = "idle" /\ n < size
      BY <1>4 DEF CallNode
    <2>2. size = Count
      BY <2>1, SequenceLength DEF Clearing
    <2>3. Count <= Cardinality(Nodes) /\ Cardinality(Nodes) \in Nat /\ Count \in Nat
      <3>1. allocated \subseteq Nodes
        BY InvParts DEF TypeOK
      <3> QED
        BY <3>1, SequenceLength, ListAssumption, FS_Subset, FS_CardinalityType DEF Count
    <2>4. n < Cardinality(Nodes)
      BY <1>2, <2>1, <2>2, <2>3
    <2>5. n + 1 \in Indices
      BY <2>4, ListAssumption
    <2>6. (IF f = "insert_after" THEN n + 1 ELSE n) \in Indices
      BY <2>5
    <2>7. call' = [op |-> op, elem |-> e, source |-> <<>>, ret |-> "pending",
                   at |-> IF f = "insert_after" THEN n + 1 ELSE n]
      BY <1>4 DEF CallNode
    <2> QED
      BY <1>2, <2>1, <2>6, <2>7
  <1> HIDE DEF Seen
  <1>5. Seen
    <2>1. ASSUME NEW op \in {"push_back", "push_front"}, NEW e \in Args,
                 Call(op, e, 0, <<>>)
          PROVE  Seen
      BY <1>2, <1>3, <2>1
    <2>2. ASSUME NEW op \in {"insert", "set"}, NEW e \in Args, NEW n \in Indices,
                 Call(op, e, n, <<>>)
          PROVE  Seen
      BY <1>2, <1>3, <2>2
    <2>3. ASSUME NEW op \in {"pop_back", "pop_front", "clear", "destroy"},
                 Call(op, None, 0, <<>>)
          PROVE  Seen
      BY <1>2, <1>3, <2>3
    <2>4. ASSUME NEW n \in Indices, Call("erase", None, n, <<>>)
          PROVE  Seen
      BY <1>2, <1>3, <2>4
    <2>5. ASSUME NEW s \in Sources, Call("copy", None, 0, s)
          PROVE  Seen
      BY <1>2, <1>3, <2>5
    <2>6. ASSUME NEW e \in Args, NEW n \in Indices,
                 NEW f \in {"insert_before", "insert_after"},
                 CallNode(f, "insert", e, n)
          PROVE  Seen
      BY <1>4, <2>6 DEF NodeCalls
    <2>7. ASSUME NEW e \in Args, NEW n \in Indices, CallNode("set_node", "set", e, n)
          PROVE  Seen
      BY <1>4, <2>7 DEF NodeCalls
    <2>8. ASSUME NEW n \in Indices, CallNode("erase_node", "erase", None, n)
          PROVE  Seen
      BY <1>2, <1>4, <2>8 DEF NodeCalls
    <2> QED
      BY <2>1, <2>2, <2>3, <2>4, <2>5, <2>6, <2>7, <2>8 DEF Calls
  <1>6. PICK op \in Ops, e \in Args, n \in Indices, s \in Sources :
                /\ pc = "idle"
                /\ call' = [op |-> op, elem |-> e, at |-> n, source |-> s,
                            ret |-> "pending"]
    BY <1>5 DEF Seen
  <1>7. call.ret # "pending"
    BY <1>6, InvParts DEF ControlShape
  <1>8. Seqn!Call(op, e, n, s)
    BY <1>1, <1>6, <1>7 DEF Seqn!Call, Seqn!Idle
  <1> QED
    BY <1>8 DEF Seqn!Next, Args

LEMMA AddShows ==
    ASSUME Inv, Add
    PROVE  [Seqn!Next]_Seqn!seqVars
  <1>1. PICK m \in Nat : \E j \in 1 .. m + 1 :
              /\ Added(m, j, call.elem) /\ AddsAt(m, j)
              /\ call.elem \in Elements
    BY AddStep
  <1>2. PICK j \in 1 .. m + 1 :
              /\ Added(m, j, call.elem) /\ AddsAt(m, j)
              /\ call.elem \in Elements
    BY <1>1
  <1>3. /\ Sequence \in [1 .. m -> Elements] /\ Sequence' \in [1 .. m + 1 -> Elements]
        /\ OneMore(m, Sequence, Sequence', j) /\ Sequence'[j] = call.elem
    BY <1>2 DEF Added
  <1>4. Return("ok") /\ pc # "idle"
    BY DEF Add
  <1>5. Len(Sequence) = m
    BY <1>1, <1>3, SequenceOf
  <1>6. CASE call.op = "push_back" /\ j = m + 1
    <2>1. \A n \in 1 .. m : Sequence'[n] = Sequence[n]
      <3>1. \A n \in 1 .. m : n < m + 1
        BY <1>1
      <3> QED
        BY <1>3, <1>6, <3>1 DEF OneMore
    <2>2. Sequence' = Append(Sequence, call.elem)
      BY <1>1, <1>3, <1>6, <2>1, AppendIs
    <2>3. Seqn!Answer({"push_back"}, "ok", Append(Sequence, call.elem))
      BY <1>4, <1>6, <2>2, Answers
    <2> QED
      BY <1>2, <2>3 DEF Seqn!Next, Seqn!PushBack
  <1>7. CASE call.op = "push_front" /\ j = 1
    <2>1. \A n \in 1 .. m : Sequence'[n + 1] = Sequence[n]
      <3>1. \A n \in 1 .. m : ~ (n < 1)
        BY <1>1
      <3> QED
        BY <1>3, <1>7, <3>1 DEF OneMore
    <2>2. Sequence' = <<call.elem>> \o Sequence
      BY <1>1, <1>3, <1>7, <2>1, ConsIs
    <2>3. Seqn!Answer({"push_front"}, "ok", <<call.elem>> \o Sequence)
      BY <1>4, <1>7, <2>2, Answers
    <2> QED
      BY <1>2, <2>3 DEF Seqn!Next, Seqn!PushFront
  <1>8. CASE call.op = "insert" /\ j = call.at + 1 /\ call.at \in Nat /\ call.at <= m
    <2>1. Sequence' = SubSeq(Sequence, 1, j - 1) \o <<Sequence'[j]>>
                        \o SubSeq(Sequence, j, Len(Sequence))
      BY <1>1, <1>2, <1>3, InsertIs
    <2>2. Sequence' = Seqn!InsertAt(Sequence, call.at + 1, call.elem)
      BY <1>3, <1>8, <2>1 DEF Seqn!InsertAt
    <2>3. Seqn!Answer({"insert"}, "ok", Seqn!InsertAt(Sequence, call.at + 1, call.elem))
      BY <1>4, <1>8, <2>2, Answers
    <2> QED
      BY <1>2, <1>5, <1>8, <2>3 DEF Seqn!Next, Seqn!Insert
  <1> QED
    BY <1>2, <1>6, <1>7, <1>8 DEF AddsAt

LEMMA EraseShows ==
    ASSUME Inv, Erase
    PROVE  [Seqn!Next]_Seqn!seqVars
  <1>1. PICK m \in Nat : \E j \in 1 .. m : Erased(m, j) /\ ErasesAt(m, j)
    BY EraseStep
  <1>2. PICK j \in 1 .. m : Erased(m, j) /\ ErasesAt(m, j)
    BY <1>1
  <1>3. /\ m - 1 \in Nat /\ (m - 1) + 1 = m /\ j \in 1 .. (m - 1) + 1
        /\ OneMore(m - 1, Sequence', Sequence, j)
        /\ Sequence \in [1 .. (m - 1) + 1 -> Elements]
        /\ Sequence' \in [1 .. m - 1 -> Elements]
    BY <1>2 DEF Erased
  <1>4. Return("ok") /\ pc # "idle"
    BY DEF Erase
  <1>5. Sequence \in Seq(Elements) /\ Len(Sequence) = m /\ Sequence # <<>>
    <2>1. Sequence \in [1 .. m -> Elements]
      BY <1>2 DEF Erased
    <2>2. Sequence \in Seq(Elements) /\ Len(Sequence) = m
      BY <1>1, <2>1, SequenceOf
    <2>3. m # 0
      BY <1>2
    <2> QED
      BY <2>2, <2>3
  <1>6. CASE call.op = "pop_back" /\ j = m
    <2>1. \A n \in 1 .. m - 1 : Sequence[n] = Sequence'[n]
      <3>1. \A n \in 1 .. m - 1 : n < m
        BY <1>1
      <3> QED
        BY <1>3, <1>6, <3>1 DEF OneMore
    <2>2. Sequence' = SubSeq(Sequence, 1, Len(Sequence) - 1)
      BY <1>3, <2>1, AppendIs
    <2>3. Sequence' = Seqn!Front(Sequence)
      BY <2>2 DEF Seqn!Front
    <2>4. Seqn!Answer({"pop_back"}, "ok", Seqn!Front(Sequence))
      BY <1>4, <1>6, <2>3, Answers
    <2> QED
      BY <1>5, <2>4 DEF Seqn!Next, Seqn!PopBack
  <1>7. CASE call.op = "pop_front" /\ j = 1
    <2>1. \A n \in 1 .. m - 1 : Sequence[n + 1] = Sequence'[n]
      <3>1. \A n \in 1 .. m - 1 : ~ (n < 1)
        BY <1>1
      <3> QED
        BY <1>3, <1>7, <3>1 DEF OneMore
    <2>2. Sequence' = Tail(Sequence)
      BY <1>3, <2>1, ConsIs
    <2>3. Seqn!Answer({"pop_front"}, "ok", Tail(Sequence))
      BY <1>4, <1>7, <2>2, Answers
    <2> QED
      BY <1>5, <2>3 DEF Seqn!Next, Seqn!PopFront
  <1>8. CASE call.op = "erase" /\ j = call.at + 1 /\ call.at \in Nat
    <2>1. Sequence' = SubSeq(Sequence, 1, j - 1) \o SubSeq(Sequence, j + 1, Len(Sequence))
      BY <1>3, InsertIs
    <2>2. Sequence' = Seqn!RemoveAt(Sequence, call.at + 1)
      BY <1>8, <2>1 DEF Seqn!RemoveAt
    <2>3. call.at < Len(Sequence)
      BY <1>1, <1>5, <1>8
    <2>4. Seqn!Answer({"erase"}, "ok", Seqn!RemoveAt(Sequence, call.at + 1))
      BY <1>4, <1>8, <2>2, Answers
    <2> QED
      BY <2>3, <2>4 DEF Seqn!Next, Seqn!Erase
  <1> QED
    BY <1>2, <1>6, <1>7, <1>8 DEF ErasesAt

LEMMA SetShows ==
    ASSUME Inv, Set
    PROVE  [Seqn!Next]_Seqn!seqVars
  <1>1. PICK m \in Nat :
          /\ call.op = "set" /\ call.elem \in Elements
          /\ call.at \in Nat /\ call.at + 1 \in 1 .. m
          /\ Sequence \in [1 .. m -> Elements]
          /\ Sequence' \in [1 .. m -> Elements]
          /\ OneOther(m, Sequence, Sequence', call.at + 1)
          /\ Sequence'[call.at + 1] = call.elem
    BY SetStep
  <1>2. Return("ok") /\ pc # "idle"
    BY DEF Set
  <1>3. Len(Sequence) = m
    BY <1>1, SequenceOf
  <1>4. Sequence' = [Sequence EXCEPT ![call.at + 1] = call.elem]
    BY <1>1 DEF OneOther
  <1>5. Sequence' = Seqn!ReplaceAt(Sequence, call.at + 1, call.elem)
    BY <1>4 DEF Seqn!ReplaceAt
  <1>6. Seqn!Answer({"set"}, "ok", Seqn!ReplaceAt(Sequence, call.at + 1, call.elem))
    BY <1>1, <1>2, <1>5, Answers
  <1> QED
    BY <1>1, <1>3, <1>6 DEF Seqn!Next, Seqn!Set

LEMMA NothingDoneShows ==
    ASSUME Inv, NothingDone
    PROVE  [Seqn!Next]_Seqn!seqVars
  <1>1. Sequence' = Sequence
    BY NothingDoneInv
  <1>2. ControlShape /\ call \in CallRecords
    BY InvParts DEF TypeOK
  <1>3. CASE AddFails \/ SetFails
    <2>1. Return("error") /\ pc # "idle"
      BY <1>3 DEF AddFails, SetFails, Fail
    <2>2. call.op \in {"push_back", "push_front", "insert", "set", "reserve"}
      BY <1>2, <1>3 DEF AddFails, SetFails, ControlShape, Functions
    <2>3. Seqn!Answer({"push_back", "push_front", "insert", "set", "reserve"},
                      "error", Sequence)
      BY <1>1, <2>1, <2>2, Answers
    <2> QED
      BY <2>3 DEF Seqn!Next, Seqn!Refuse
  <1>4. CASE PopMissing
    <2>1. Return("error") /\ pc \in {"pop_back", "pop_front"} /\ size = 0
      BY <1>4 DEF PopMissing, Fail
    <2>2. call.op \in {"pop_back", "pop_front"}
      BY <1>2, <2>1 DEF ControlShape, Functions
    <2>3. Sequence = <<>>
      BY <2>1, SequenceLength DEF Clearing
    <2>4. Seqn!Answer({"pop_back", "pop_front"}, "error", Sequence)
      BY <1>1, <2>1, <2>2, Answers
    <2> QED
      BY <2>3, <2>4 DEF Seqn!Next, Seqn!PopMissing
  <1>5. CASE EraseMissing
    <2>1. pc = "erase" /\ call.at >= size /\ Return("ok")
      BY <1>5 DEF EraseMissing
    <2>2. call.op = "erase"
      BY <1>2, <2>1 DEF ControlShape, Functions
    <2>3. Len(Sequence) = size /\ size \in Nat /\ call.at \in Nat
      BY <1>2, <2>1, SequenceLength DEF Clearing, CallRecords
    <2>4. ~ (call.at < Len(Sequence))
      BY <2>1, <2>3
    <2>5. Seqn!Answer({"erase"}, "ok", Sequence)
      BY <1>1, <2>1, <2>2, Answers
    <2> QED
      BY <2>4, <2>5 DEF Seqn!Next, Seqn!Erase
  <1>6. CASE CopyEnd
    <2>1. pc = "copying" /\ i >= Len(call.source) /\ Return("ok")
      BY <1>6 DEF CopyEnd
    <2>2. /\ call.op = "copy" /\ i = size /\ i <= Len(call.source)
          /\ \A n \in 1 .. i : Sequence[n] = call.source[n]
      BY <1>2, <2>1 DEF ControlShape
    <2>3. size = Count /\ Count \in Nat /\ Sequence \in [1 .. Count -> Elements]
      BY <2>1, SequenceLength DEF Clearing
    <2>4. call.source \in Seq(Elements) /\ Len(call.source) \in Nat
      BY <1>2, LenProperties DEF CallRecords
    <2>5. Count <= Len(call.source) /\ Count = Len(call.source)
      BY <2>1, <2>2, <2>3, <2>4
    <2>6. \A n \in 1 .. Count : Sequence[n] = call.source[n]
      BY <2>2, <2>3
    <2>7. Sequence = call.source
      BY <2>3, <2>4, <2>5, <2>6, PrefixIs
    <2>8. Seqn!Answer({"copy"}, "ok", Sequence)
      BY <1>1, <2>1, <2>2, Answers
    <2> QED
      BY <2>7, <2>8 DEF Seqn!Next, Seqn!CopyEnd
  <1> QED
    BY <1>3, <1>4, <1>5, <1>6 DEF NothingDone

LEMMA ClearStepShows ==
    ASSUME Inv, ClearStep
    PROVE  [Seqn!Next]_Seqn!seqVars
  <1>1. PICK m \in Nat : 1 \in 1 .. m /\ Erased(m, 1)
    BY ClearStepTakes
  <1>2. /\ m - 1 \in Nat /\ (m - 1) + 1 = m
        /\ OneMore(m - 1, Sequence', Sequence, 1)
        /\ Sequence \in [1 .. (m - 1) + 1 -> Elements]
        /\ Sequence' \in [1 .. m - 1 -> Elements]
    BY <1>1 DEF Erased
  <1>3. \A n \in 1 .. m - 1 : Sequence[n + 1] = Sequence'[n]
    <2>1. \A n \in 1 .. m - 1 : ~ (n < 1)
      BY <1>1
    <2> QED
      BY <1>2, <2>1 DEF OneMore
  <1>4. Sequence' = Tail(Sequence)
    BY <1>2, <1>3, ConsIs
  <1>5. Sequence # <<>>
    <2>1. Sequence \in [1 .. m -> Elements] /\ m # 0
      BY <1>1 DEF Erased
    <2>2. Len(Sequence) = m
      BY <1>1, <2>1, SequenceOf
    <2> QED
      BY <2>1, <2>2
  <1>6. /\ Clearing /\ UNCHANGED call
    BY DEF ClearStep
  <1>7. call.ret = "pending" /\ call.op \in {"clear", "destroy", "copy"}
    BY <1>6, InvParts DEF ControlShape, Clearing
  <1> QED
    BY <1>4, <1>5, <1>6, <1>7 DEF Seqn!Next, Seqn!Discard, Seqn!Idle

LEMMA ClearEndShows ==
    ASSUME Inv, ClearEnd
    PROVE  [Seqn!Next]_Seqn!seqVars
  <1>1. Sequence' = Sequence /\ Sequence = <<>>
    BY ClearEndEmpties, EmptyIs
  <1>2. CASE pc = "clearing" /\ call.op = "copy"
    BY <1>1, <1>2 DEF ClearEnd, Seqn!seqVars
  <1>3. CASE pc = "clearing" /\ call.op # "copy"
    <2>1. Return("ok") /\ call.op \in {"clear", "destroy"}
      BY <1>3, InvParts DEF ClearEnd, ControlShape
    <2>2. Seqn!Answer({"clear", "destroy"}, "ok", <<>>)
      BY <1>1, <1>3, <2>1, Answers
    <2> QED
      BY <2>2 DEF Seqn!Next, Seqn!Clear
  <1>4. CASE pc = "unwinding"
    <2>1. Return("error") /\ call.op = "copy"
      BY <1>4, InvParts DEF ClearEnd, ControlShape
    <2>2. Seqn!Answer({"copy"}, "error", <<>>)
      BY <1>1, <1>4, <2>1, Answers
    <2> QED
      BY <2>2 DEF Seqn!Next, Seqn!CopyFails
  <1> QED
    BY <1>2, <1>3, <1>4 DEF ClearEnd, Clearing

LEMMA CopyStepShows ==
    ASSUME Inv, CopyStep
    PROVE  [Seqn!Next]_Seqn!seqVars
  <1>1. PICK m \in Nat :
          /\ i = m /\ m < Len(call.source) /\ call.op = "copy"
          /\ Added(m, m + 1, call.source[m + 1])
          /\ \A n \in 1 .. m : Sequence[n] = call.source[n]
    BY CopyStepAdds
  <1>2. /\ Sequence \in [1 .. m -> Elements] /\ Sequence' \in [1 .. m + 1 -> Elements]
        /\ OneMore(m, Sequence, Sequence', m + 1)
        /\ Sequence'[m + 1] = call.source[m + 1]
    BY <1>1 DEF Added
  <1>3. pc = "copying" /\ UNCHANGED call /\ call.ret = "pending"
        /\ call.source \in Seq(Elements) /\ Len(call.source) \in Nat
    BY InvParts, LenProperties DEF CopyStep, ControlShape, TypeOK, CallRecords
  <1>4. Len(Sequence) = m
    BY <1>1, <1>2, SequenceOf
  <1>5. Sequence' = Append(Sequence, call.source[Len(Sequence) + 1])
    <2>1. \A n \in 1 .. m : Sequence'[n] = Sequence[n]
      <3>1. \A n \in 1 .. m : n < m + 1
        BY <1>1
      <3> QED
        BY <1>2, <3>1 DEF OneMore
    <2> QED
      BY <1>1, <1>2, <1>4, <2>1, AppendIs
  <1>6. Seqn!IsStrictPrefix(Sequence, call.source)
    <2>1. m <= Len(call.source) /\ m # Len(call.source)
      BY <1>1, <1>3
    <2>2. /\ Len(Sequence) <= Len(call.source)
          /\ SubSeq(Sequence, 1, Len(Sequence)) = SubSeq(call.source, 1, Len(Sequence))
          /\ Sequence # call.source
      BY <1>1, <1>2, <1>3, <2>1, PrefixIs
    <2> QED
      BY <2>2 DEF Seqn!IsStrictPrefix, Seqn!IsPrefix
  <1> QED
    BY <1>1, <1>3, <1>5, <1>6 DEF Seqn!Next, Seqn!CopyElement, Seqn!Idle

LEMMA NextStep == Inv /\ [Next]_vars => [Seqn!Next]_Seqn!seqVars
  <1> SUFFICES ASSUME Inv, [Next]_vars PROVE [Seqn!Next]_Seqn!seqVars
    OBVIOUS
  <1>1. CASE Add
    BY <1>1, AddShows
  <1>2. CASE NothingDone
    BY <1>2, NothingDoneShows
  <1>3. CASE Erase
    BY <1>3, EraseShows
  <1>4. CASE Set
    BY <1>4, SetShows
  <1>5. CASE ClearBegin \/ CopyFails
    <2>1. Sequence' = Sequence /\ UNCHANGED call
      BY <1>5, ClearingBegins DEF ClearBegin, CopyFails
    <2> QED
      BY <2>1 DEF Seqn!seqVars
  <1>6. CASE ClearStep
    BY <1>6, ClearStepShows
  <1>7. CASE ClearEnd
    BY <1>7, ClearEndShows
  <1>8. CASE CopyStep
    BY <1>8, CopyStepShows
  <1>9. CASE Calls
    BY <1>9, CallsStep
  <1>10. CASE UNCHANGED vars
    BY <1>10, StoppedInv DEF vars, Seqn!seqVars
  <1> QED
    BY <1>1, <1>2, <1>3, <1>4, <1>5, <1>6, <1>7, <1>8, <1>9, <1>10
       DEF Next, Body, NothingDone

\* list.c implements a sequence: whether callers address its elements by
\* index or by node, every call shows them a behaviour of SeqSpec.
THEOREM ListImplementsSequence == Spec => ImplementsSequence
  <1>1. Init => Seqn!Init
    BY InitInv DEF Init, Seqn!Init
  <1>2. Spec => Seqn!Spec
    BY <1>1, InvHolds, NextStep, PTL DEF Spec, Seqn!Spec
  <1> QED
    BY <1>2 DEF ImplementsSequence
=============================================================================
