--------------------------- MODULE PartitionSpec ---------------------------
(***************************************************************************)
(* What src/unionfind.h promises: a partition of the elements 0 .. n - 1,  *)
(* each class with a member that leads it; finding never changes who leads *)
(* whom, and every answer is that of the partition.                        *)
(***************************************************************************)
EXTENDS Integers, FiniteSets

CONSTANT MaxSize

VARIABLES leader, \* leader[x] leads the class of x
          count,  \* what unionfind_set_count returns
          answer  \* the last call and what it returned

partitionVars == <<leader, count, answer>>

Members == DOMAIN leader
Class(x) == {y \in Members : leader[y] = leader[x]}

\* The call of op with a and b has returned ret.
Returns(op, a, b, ret) == answer' = [op |-> op, a |-> a, b |-> b, ret |-> ret]

Singletons(n) ==
    /\ leader' = [x \in 0 .. n - 1 |-> x]
    /\ count' = n

Init ==
    /\ leader = [x \in 0 .. -1 |-> x]
    /\ count = 0
    /\ answer = [op |-> "destroy", a |-> 0, b |-> 0, ret |-> 0]

Create(n) == Singletons(n) /\ Returns("init", n, 0, 0)
CreateFails(n) == Singletons(0) /\ Returns("init", n, 0, -1)
Destroy == Singletons(0) /\ Returns("destroy", 0, 0, 0)
Reset == Singletons(Cardinality(Members)) /\ Returns("reset", 0, 0, 0)

\* Another partition, of n elements into k classes, takes its place.
Copy(n, k) ==
    /\ k = 0 => n = 0
    /\ leader' = [x \in 0 .. n - 1 |-> x % k]
    /\ count' = k
    /\ Returns("copy", n, k, 0)

\* The elements of one of two classes follow the leader of the other.
Union(a, b) ==
    /\ leader[a] # leader[b]
    /\ \E winner \in {leader[a], leader[b]} :
          leader' = [x \in Members |-> IF x \in Class(a) \cup Class(b)
                                          THEN winner ELSE leader[x]]
    /\ count' = count - 1
    /\ Returns("union", a, b, 1)

Asks(op, a, b, ret) == Returns(op, a, b, ret) /\ UNCHANGED <<leader, count>>

Next ==
    \/ \E n \in 0 .. MaxSize :
          \/ Create(n) \/ CreateFails(n)
          \/ \E k \in 0 .. n : Copy(n, k)
          \/ Asks("copy", n, 0, -1)
    \/ Destroy \/ Reset
    \/ \E a, b \in Members :
          \/ Union(a, b)
          \/ leader[a] = leader[b] /\ Asks("union", a, b, 0)
          \/ Asks("same", a, b, IF leader[a] = leader[b] THEN 1 ELSE 0)
    \/ \E a \in Members :
          \/ Asks("find", a, 0, leader[a])
          \/ Asks("set_size", a, 0, Cardinality(Class(a)))
    \/ \E a, b \in 0 .. MaxSize, op \in {"union", "same"} :
          ~({a, b} \subseteq Members) /\ Asks(op, a, b, -1)
    \/ \E a \in (0 .. MaxSize) \ Members :
          Asks("find", a, 0, -1) \/ Asks("set_size", a, 0, 0)

Spec == Init /\ [][Next]_partitionVars
=============================================================================
