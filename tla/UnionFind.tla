----------------------------- MODULE UnionFind -----------------------------
(***************************************************************************)
(* src/unionfind.c: a partition as a forest, with union by size and path   *)
(* compression.  No call can fail half-way and none calls back, so each is *)
(* one action.                                                             *)
(***************************************************************************)
EXTENDS Integers, FiniteSets

CONSTANT MaxSize \* a bound of this model: no larger forest is made

ASSUME MaxSizeAssumption == MaxSize \in Nat

VARIABLES size, set_count, parents, sizes, \* struct unionfind
          answer                           \* the last call and its answer

unionfind == <<size, set_count, parents, sizes>>
vars == <<size, set_count, parents, sizes, answer>>

INVALID == -1 \* UNIONFIND_INVALID, (size_t)-1

Ids == 0 .. size - 1

-----------------------------------------------------------------------------
(* A forest p, the array parents *)

Root(p, x) ==
    LET up[y \in DOMAIN p] == IF p[y] = y THEN y ELSE up[p[y]]
    IN  up[x]

\* x and all that is above it.
Path(p, x) ==
    LET up[y \in DOMAIN p] == {y} \cup (IF p[y] = y THEN {} ELSE up[p[y]])
    IN  up[x]

\* The second loop of unionfind_find: all of the path points to the root.
Compress(p, x) ==
    [y \in DOMAIN p |-> IF y \in Path(p, x) THEN Root(p, x) ELSE p[y]]

-----------------------------------------------------------------------------
Returns(op, a, b, ret) == answer' = [op |-> op, a |-> a, b |-> b, ret |-> ret]

\* unionfind_resize and unionfind_reset
Fill(n) ==
    /\ size' = n /\ set_count' = n
    /\ parents' = [x \in 0 .. n - 1 |-> x]
    /\ sizes' = [x \in 0 .. n - 1 |-> 1]

Empty ==
    /\ size = 0 /\ set_count = 0
    /\ parents = [x \in 0 .. -1 |-> x] /\ sizes = [x \in 0 .. -1 |-> 1]

Init ==
    /\ Empty
    /\ answer = [op |-> "destroy", a |-> 0, b |-> 0, ret |-> 0]

\* unionfind_init of a struct that holds nothing, with memory or without.
Create(n) ==
    /\ size = 0
    /\ Fill(n)
    /\ Returns("init", n, 0, 0)

CreateFails(n) ==
    /\ size = 0 /\ n # 0
    /\ Fill(0)
    /\ Returns("init", n, 0, -1)

Destroy ==
    /\ Fill(0)
    /\ Returns("destroy", 0, 0, 0)

Reset ==
    /\ Fill(size)
    /\ Returns("reset", 0, 0, 0)

\* unionfind_copy of a forest of n elements and k sets, each of which hangs
\* below its first element; a target without memory stays as it was.
Copy(n, k) ==
    /\ k <= n /\ (k = 0 => n = 0)
    /\ size' = n /\ set_count' = k
    /\ parents' = [x \in 0 .. n - 1 |-> x % k]
    /\ sizes' = [x \in 0 .. n - 1 |->
                    IF x < k THEN Cardinality({y \in 0 .. n - 1 : y % k = x}) ELSE 0]
    /\ Returns("copy", n, k, 0)

CopyFails(n) ==
    /\ n # 0
    /\ Returns("copy", n, 0, -1)
    /\ UNCHANGED unionfind

Find(x) ==
    /\ x \in Ids
    /\ parents' = Compress(parents, x)
    /\ Returns("find", x, 0, Root(parents, x))
    /\ UNCHANGED <<size, set_count, sizes>>

FindConst(x) ==
    /\ x \in Ids
    /\ Returns("find", x, 0, Root(parents, x))
    /\ UNCHANGED unionfind

\* The forest after both finds of unionfind_union and unionfind_same.
Found(a, b) == Compress(Compress(parents, a), b)

UnionSame(a, b) ==
    /\ {a, b} \subseteq Ids
    /\ Root(parents, a) = Root(parents, b)
    /\ parents' = Found(a, b)
    /\ Returns("union", a, b, 0)
    /\ UNCHANGED <<size, set_count, sizes>>

\* Mutant: the size of the child stays counted at the child only.
UnionUncounted(a, b) ==
    /\ {a, b} \subseteq Ids
    /\ LET ra == Root(parents, a)
           rb == Root(parents, b)
           top == IF sizes[ra] < sizes[rb] THEN rb ELSE ra
           low == IF sizes[ra] < sizes[rb] THEN ra ELSE rb
       IN  /\ ra # rb
           /\ parents' = [Found(a, b) EXCEPT ![low] = top]
    /\ set_count' = set_count - 1
    /\ Returns("union", a, b, 1)
    /\ UNCHANGED <<size, sizes>>

\* Mutant: the second root always hangs below the first.
UnionUnbalanced(a, b) ==
    /\ {a, b} \subseteq Ids
    /\ LET top == Root(parents, a)
           low == Root(parents, b)
       IN  /\ top # low
           /\ parents' = [Found(a, b) EXCEPT ![low] = top]
           /\ sizes' = [sizes EXCEPT ![top] = @ + sizes[low], ![low] = 0]
    /\ set_count' = set_count - 1
    /\ Returns("union", a, b, 1)
    /\ UNCHANGED size

\* The root of the smaller set hangs below the other one.
Union(a, b) ==
    /\ {a, b} \subseteq Ids
    /\ LET ra == Root(parents, a)
           rb == Root(parents, b)
           top == IF sizes[ra] < sizes[rb] THEN rb ELSE ra
           low == IF sizes[ra] < sizes[rb] THEN ra ELSE rb
       IN  /\ ra # rb
           /\ parents' = [Found(a, b) EXCEPT ![low] = top]
           /\ sizes' = [sizes EXCEPT ![top] = @ + sizes[low], ![low] = 0]
    /\ set_count' = set_count - 1
    /\ Returns("union", a, b, 1)
    /\ UNCHANGED size

Same(a, b) ==
    /\ {a, b} \subseteq Ids
    /\ parents' = Found(a, b)
    /\ Returns("same", a, b, IF Root(parents, a) = Root(parents, b) THEN 1 ELSE 0)
    /\ UNCHANGED <<size, set_count, sizes>>

SetSize(x) ==
    /\ x \in Ids
    /\ parents' = Compress(parents, x)
    /\ Returns("set_size", x, 0, sizes[Root(parents, x)])
    /\ UNCHANGED <<size, set_count, sizes>>

OutOfRange(a, b) ==
    /\ \/ /\ ~({a, b} \subseteq Ids)
          /\ \E op \in {"union", "same"} : Returns(op, a, b, -1)
       \/ /\ a \notin Ids
          /\ Returns("find", a, 0, INVALID) \/ Returns("set_size", a, 0, 0)
    /\ UNCHANGED unionfind

Next ==
    \/ \E n \in 0 .. MaxSize :
          \/ Create(n) \/ CreateFails(n)
          \/ CopyFails(n) \/ \E k \in 0 .. MaxSize : Copy(n, k)
    \/ Destroy \/ Reset
    \/ \E x \in 0 .. MaxSize : Find(x) \/ FindConst(x) \/ SetSize(x)
    \/ \E a, b \in 0 .. MaxSize :
          UnionSame(a, b) \/ Union(a, b) \/ Same(a, b) \/ OutOfRange(a, b)

Spec == Init /\ [][Next]_vars
-----------------------------------------------------------------------------
(* Properties *)

\* Every variable stays in its domain.
TypeOK ==
    /\ size \in 0 .. MaxSize /\ set_count \in 0 .. size
    /\ parents \in [Ids -> Ids] /\ sizes \in [Ids -> 0 .. size]

Height(x) == Cardinality(Path(parents, x)) - 1

PowerOfTwo(m) ==
    LET f[n \in 0 .. m] == IF n = 0 THEN 1 ELSE 2 * f[n - 1] IN f[m]

\* A root knows the size of its set, every other element has given its count
\* away, and union by size keeps the forest low: a find climbs at most the
\* binary logarithm of the size of the set.
LowForest ==
    /\ TypeOK
    /\ set_count = Cardinality({x \in Ids : parents[x] = x})
    /\ \A r \in Ids :
          sizes[r] = IF parents[r] # r THEN 0
                     ELSE Cardinality({x \in Ids : Root(parents, x) = r})
    /\ \A x \in Ids : PowerOfTwo(Height(x)) <= sizes[Root(parents, x)]

\* The forest is the partition, and compression never shows.
Partition == INSTANCE PartitionSpec WITH
                leader <- [x \in Ids |-> Root(parents, x)],
                count <- set_count
ImplementsPartition == Partition!Spec
=============================================================================
