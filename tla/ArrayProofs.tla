---------------------------- MODULE ArrayProofs ----------------------------
(* What is proved of the containers of Arrays, for every size: forests stay *)
(* low and are the partition that callers see, bytes are those of their set *)
(* of positions, ranges of a Fenwick tree are the sums of their values and  *)
(* those of a segment tree their merge in order, strings are what the calls *)
(* made of them, and both heaps keep their order and show callers a bag.    *)
EXTENDS Arrays, ContainerLemmas

-----------------------------------------------------------------------------
(* Powers of two *)

\* g doubles from 1 on, m times.
Doubles(m, g) == g = [n \in 0 .. m |-> IF n = 0 THEN 1 ELSE 2 * g[n - 1]]

LEMMA DoublesAgree ==
    ASSUME NEW m \in Nat, NEW k \in Nat, m <= k, NEW g, NEW h,
           Doubles(m, g), Doubles(k, h)
    PROVE  \A n \in 0 .. m : g[n] = h[n]
  <1> DEFINE D == {n \in 0 .. m : g[n] # h[n]}
  <1>1. SUFFICES ASSUME D # {} PROVE FALSE
    OBVIOUS
  <1>2. PICK d \in D : \A n \in D : d <= n
    <2>1. D \subseteq Nat
      OBVIOUS
    <2> HIDE DEF D
    <2> QED
      BY <1>1, <2>1, LeastNatural
  <1>3. d \in 0 .. m /\ d \in 0 .. k /\ g[d] # h[d]
    OBVIOUS
  <1>4. CASE d = 0
    <2>1. g[0] = 1 /\ h[0] = 1
      BY DEF Doubles
    <2> QED
      BY <1>3, <1>4, <2>1
  <1>5. CASE d # 0
    <2>1. d - 1 \in 0 .. m /\ ~ (d <= d - 1)
      BY <1>3, <1>5
    <2>2. g[d - 1] = h[d - 1]
      BY <1>2, <2>1
    <2>3. g[d] = 2 * g[d - 1] /\ h[d] = 2 * h[d - 1]
      BY <1>3, <1>5 DEF Doubles
    <2> QED
      BY <1>3, <2>2, <2>3
  <1> QED
    BY <1>4, <1>5

LEMMA DoublesExist == \A m \in Nat : \E g : Doubles(m, g)
  <1> DEFINE D == {m \in Nat : ~ \E g : Doubles(m, g)}
  <1>1. SUFFICES ASSUME D # {} PROVE FALSE
    OBVIOUS
  <1>2. PICK m \in D : \A n \in D : m <= n
    <2>1. D \subseteq Nat
      OBVIOUS
    <2> HIDE DEF D
    <2> QED
      BY <1>1, <2>1, LeastNatural
  <1>3. m \in Nat /\ ~ \E g : Doubles(m, g)
    OBVIOUS
  <1>4. CASE m = 0
    <2> DEFINE h == [n \in 0 .. 0 |-> 1]
    <2>1. Doubles(0, h)
      BY DEF Doubles
    <2> QED
      BY <1>3, <1>4, <2>1
  <1>5. CASE m # 0
    <2>1. m - 1 \in Nat /\ ~ (m <= m - 1)
      BY <1>3, <1>5
    <2>2. PICK g : Doubles(m - 1, g)
      BY <1>2, <2>1
    <2> DEFINE h == [n \in 0 .. m |-> IF n = 0 THEN 1 ELSE 2 * g[n - 1]]
    <2>3. ASSUME NEW n \in 0 .. m - 1
          PROVE  h[n] = g[n]
      <3>1. n \in 0 .. m /\ h[n] = IF n = 0 THEN 1 ELSE 2 * g[n - 1]
        BY <1>3
      <3>2. g[n] = IF n = 0 THEN 1 ELSE 2 * g[n - 1]
        BY <2>2 DEF Doubles
      <3> QED
        BY <3>1, <3>2
    <2>4. ASSUME NEW n \in 0 .. m
          PROVE  h[n] = IF n = 0 THEN 1 ELSE 2 * h[n - 1]
      <3>1. CASE n = 0
        BY <3>1
      <3>2. CASE n # 0
        <4>1. n - 1 \in 0 .. m - 1
          BY <1>3, <3>2
        <4> QED
          BY <2>3, <3>2, <4>1
      <3> QED
        BY <3>1, <3>2
    <2>5. Doubles(m, h)
      BY <2>4 DEF Doubles
    <2> QED
      BY <1>3, <2>5
  <1> QED
    BY <1>4, <1>5

LEMMA PowerIs ==
    ASSUME NEW m \in Nat, NEW g, Doubles(m, g)
    PROVE  PowerOfTwo(m) = g[m]
  <1> DEFINE F == CHOOSE f : f = [n \in 0 .. m |-> IF n = 0 THEN 1 ELSE 2 * f[n - 1]]
  <1>1. F = [n \in 0 .. m |-> IF n = 0 THEN 1 ELSE 2 * F[n - 1]]
    BY DEF Doubles
  <1>2. PowerOfTwo(m) = F[m]
    BY DEF PowerOfTwo
  <1> HIDE DEF F
  <1>3. Doubles(m, F)
    BY <1>1 DEF Doubles
  <1>4. \A n \in 0 .. m : F[n] = g[n]
    <2>1. m <= m
      OBVIOUS
    <2> QED
      BY <1>3, <2>1, DoublesAgree
  <1> QED
    BY <1>2, <1>4

\* PowerOfTwo doubles.
LEMMA PowerDoubles ==
    ASSUME NEW m \in Nat
    PROVE  PowerOfTwo(0) = 1 /\ PowerOfTwo(m + 1) = 2 * PowerOfTwo(m)
  <1>1. PICK g : Doubles(m + 1, g)
    BY DoublesExist
  <1>2. PICK h : Doubles(m, h)
    BY DoublesExist
  <1>3. PICK z : Doubles(0, z)
    BY DoublesExist
  <1>4. /\ PowerOfTwo(m + 1) = g[m + 1] /\ PowerOfTwo(m) = h[m]
        /\ PowerOfTwo(0) = z[0]
    <2>1. m + 1 \in Nat /\ 0 \in Nat
      OBVIOUS
    <2>2. PowerOfTwo(m + 1) = g[m + 1]
      BY <1>1, <2>1, PowerIs
    <2>3. PowerOfTwo(m) = h[m]
      BY <1>2, PowerIs
    <2>4. PowerOfTwo(0) = z[0]
      BY <1>3, <2>1, PowerIs
    <2> QED
      BY <2>2, <2>3, <2>4
  <1>5. h[m] = g[m]
    <2>1. m + 1 \in Nat /\ m <= m + 1 /\ m \in 0 .. m
      OBVIOUS
    <2>2. \A n \in 0 .. m : h[n] = g[n]
      BY <1>1, <1>2, <2>1, DoublesAgree
    <2> QED
      BY <2>1, <2>2
  <1>6. g[m + 1] = 2 * g[m]
    <2>1. m + 1 \in 0 .. m + 1 /\ m + 1 # 0 /\ (m + 1) - 1 = m
      OBVIOUS
    <2> QED
      BY <1>1, <2>1 DEF Doubles
  <1>7. z[0] = 1
    BY <1>3 DEF Doubles
  <1> QED
    BY <1>4, <1>5, <1>6, <1>7

LEMMA PowerIsNat ==
    ASSUME NEW k \in Nat
    PROVE  PowerOfTwo(k) \in Nat \ {0}
  <1> DEFINE D == {n \in Nat : PowerOfTwo(n) \notin Nat \ {0}}
  <1>1. SUFFICES ASSUME D # {} PROVE FALSE
    OBVIOUS
  <1>2. PICK d \in D : \A n \in D : d <= n
    <2>1. D \subseteq Nat
      OBVIOUS
    <2> HIDE DEF D
    <2> QED
      BY <1>1, <2>1, LeastNatural
  <1>3. d \in Nat /\ PowerOfTwo(d) \notin Nat \ {0}
    OBVIOUS
  <1>4. CASE d = 0
    <2>1. PowerOfTwo(0) = 1
      BY PowerDoubles
    <2> QED
      BY <1>3, <1>4, <2>1
  <1>5. CASE d # 0
    <2>1. d - 1 \in Nat /\ ~ (d <= d - 1) /\ (d - 1) + 1 = d
      BY <1>3, <1>5
    <2>2. PowerOfTwo(d - 1) \in Nat \ {0}
      BY <1>2, <2>1
    <2>3. PowerOfTwo(d) = 2 * PowerOfTwo(d - 1)
      BY <2>1, PowerDoubles
    <2>4. \A x \in Nat \ {0} : 2 * x \in Nat \ {0}
      OBVIOUS
    <2> QED
      BY <1>3, <2>2, <2>3, <2>4
  <1> QED
    BY <1>4, <1>5

LEMMA PowerGrows ==
    ASSUME NEW m \in Nat, NEW k \in Nat, m <= k
    PROVE  PowerOfTwo(m) <= PowerOfTwo(k)
  <1> DEFINE D == {n \in Nat : m <= n /\ ~ (PowerOfTwo(m) <= PowerOfTwo(n))}
  <1>1. SUFFICES ASSUME D # {} PROVE FALSE
    OBVIOUS
  <1>2. PICK d \in D : \A n \in D : d <= n
    <2>1. D \subseteq Nat
      OBVIOUS
    <2> HIDE DEF D
    <2> QED
      BY <1>1, <2>1, LeastNatural
  <1>3. d \in Nat /\ m <= d /\ ~ (PowerOfTwo(m) <= PowerOfTwo(d))
    OBVIOUS
  <1>4. PowerOfTwo(m) \in Nat
    BY PowerIsNat
  <1>5. m # d
    BY <1>3, <1>4
  <1>6. d - 1 \in Nat /\ ~ (d <= d - 1) /\ (d - 1) + 1 = d /\ m <= d - 1
    BY <1>3, <1>5
  <1>7. PowerOfTwo(m) <= PowerOfTwo(d - 1)
    BY <1>2, <1>6
  <1>8. PowerOfTwo(d) = 2 * PowerOfTwo(d - 1)
    BY <1>6, PowerDoubles
  <1>9. PowerOfTwo(d - 1) \in Nat
    BY <1>6, PowerIsNat
  <1> QED
    BY <1>3, <1>4, <1>7, <1>8, <1>9

-----------------------------------------------------------------------------
(* Forests *)

\* p is a forest on I: root gives every element its root, and rank rises on
\* the way up, so that there is no cycle.
Ranked(I, p, root, rank) ==
    /\ IsFiniteSet(I)
    /\ p \in [I -> I] /\ root \in [I -> I] /\ rank \in [I -> Nat]
    /\ \A y \in I : root[y] = IF p[y] = y THEN y ELSE root[p[y]]
    /\ \A y \in I : p[y] # y => rank[y] < rank[p[y]]

LEMMA Highest ==
    ASSUME NEW I, IsFiniteSet(I), NEW rank \in [I -> Nat],
           NEW D, D \subseteq I, D # {}
    PROVE  \E d \in D : \A e \in D : rank[e] <= rank[d]
  <1> DEFINE T == {rank[d] : d \in D}
  <1>1. IsFiniteSet(T)
    <2>1. IsFiniteSet(D)
      BY FS_Subset
    <2> DEFINE f == [d \in D |-> rank[d]]
    <2>2. f \in Surjection(D, T)
      BY DEF Surjection
    <2> QED
      BY <2>1, <2>2, FS_Surjection
  <1>2. T \subseteq Int /\ T # {}
    OBVIOUS
  <1>3. PICK m \in T : \A n \in T : n <= m
    <2> HIDE DEF T
    <2> QED
      BY <1>1, <1>2, GreatestMember
  <1>4. PICK d \in D : rank[d] = m
    OBVIOUS
  <1> QED
    BY <1>3, <1>4

\* What root and rank say of an element.
LEMMA RootsAre ==
    ASSUME NEW I, NEW p, NEW root, NEW rank, Ranked(I, p, root, rank),
           NEW x \in I
    PROVE  /\ root[x] \in I
           /\ p[root[x]] = root[x] /\ root[root[x]] = root[x]
           /\ rank[x] <= rank[root[x]]
           /\ root[x] = x <=> p[x] = x
           /\ root[x] # x => rank[x] < rank[root[x]]
  <1> DEFINE Good(y) == p[root[y]] = root[y] /\ rank[y] <= rank[root[y]]
             D == {y \in I : ~Good(y)}
  <1>1. ASSUME D # {} PROVE FALSE
    <2>1. PICK d \in D : \A e \in D : rank[e] <= rank[d]
      <3>1. D \subseteq I
        OBVIOUS
      <3> HIDE DEF D
      <3> QED
        BY <1>1, <3>1, Highest DEF Ranked
    <2>2. d \in I /\ ~Good(d)
      OBVIOUS
    <2>3. rank[d] \in Nat /\ p[d] \in I /\ rank[p[d]] \in Nat
      BY <2>2 DEF Ranked
    <2>4. p[d] # d /\ root[d] = root[p[d]] /\ rank[d] < rank[p[d]]
      BY <2>2, <2>3 DEF Ranked
    <2>5. p[d] \notin D
      BY <2>1, <2>3, <2>4
    <2>6. Good(p[d])
      BY <2>3, <2>5
    <2>7. root[p[d]] \in I /\ rank[root[p[d]]] \in Nat
      BY <2>3 DEF Ranked
    <2> QED
      BY <2>2, <2>3, <2>4, <2>6, <2>7
  <1>2. \A y \in I : Good(y)
    BY <1>1
  <1>3. /\ root[x] \in I /\ p[x] \in I /\ root[p[x]] \in I
        /\ rank[x] \in Nat /\ rank[p[x]] \in Nat /\ rank[root[p[x]]] \in Nat
    BY DEF Ranked
  <1>4. p[root[x]] = root[x] /\ rank[x] <= rank[root[x]]
    BY <1>2
  <1>5. root[root[x]] = root[x]
    BY <1>3, <1>4 DEF Ranked
  <1>6. CASE p[x] = x
    <2>1. root[x] = x
      BY <1>6 DEF Ranked
    <2> QED
      BY <1>3, <1>4, <1>5, <1>6, <2>1
  <1>7. CASE p[x] # x
    <2>1. root[x] = root[p[x]] /\ rank[x] < rank[p[x]]
      BY <1>7 DEF Ranked
    <2>2. rank[p[x]] <= rank[root[p[x]]]
      BY <1>2, <1>3
    <2>3. rank[x] < rank[root[x]]
      BY <1>3, <2>1, <2>2
    <2>4. root[x] # x
      BY <1>3, <2>3
    <2> QED
      BY <1>3, <1>4, <1>5, <1>7, <2>3, <2>4
  <1> QED
    BY <1>6, <1>7

LEMMA RootIs ==
    ASSUME NEW I, NEW p, NEW root, NEW rank, Ranked(I, p, root, rank),
           NEW x \in I
    PROVE  Root(p, x) = root[x]
  <1> DEFINE Is(f) == f = [y \in I |-> IF p[y] = y THEN y ELSE f[p[y]]]
             F == CHOOSE f : Is(f)
  <1>1. DOMAIN p = I
    BY DEF Ranked
  <1>2. Root(p, x) = F[x]
    BY <1>1 DEF Root
  <1>3. Is(root)
    BY DEF Ranked
  <1>4. Is(F)
    BY <1>3
  <1> HIDE DEF F
  <1> DEFINE D == {y \in I : F[y] # root[y]}
  <1>5. ASSUME D # {} PROVE FALSE
    <2>1. PICK d \in D : \A e \in D : rank[e] <= rank[d]
      <3>1. D \subseteq I
        OBVIOUS
      <3> HIDE DEF D
      <3> QED
        BY <1>5, <3>1, Highest DEF Ranked
    <2>2. d \in I /\ F[d] # root[d]
      OBVIOUS
    <2>3. /\ F[d] = IF p[d] = d THEN d ELSE F[p[d]]
          /\ root[d] = IF p[d] = d THEN d ELSE root[p[d]]
      BY <1>3, <1>4, <2>2
    <2>4. p[d] # d /\ p[d] \in I /\ rank[d] \in Nat /\ rank[p[d]] \in Nat
      BY <2>2, <2>3 DEF Ranked
    <2>5. rank[d] < rank[p[d]]
      BY <2>2, <2>4 DEF Ranked
    <2>6. p[d] \notin D
      BY <2>1, <2>4, <2>5
    <2> QED
      BY <2>2, <2>3, <2>4, <2>6
  <1> QED
    BY <1>2, <1>5

\* x and all that is above it: what every set that is closed under p has.
Closed(I, p, x, S) == S \subseteq I /\ x \in S /\ \A u \in S : p[u] \in S
Above(I, p, x) == {z \in I : \A S \in SUBSET I : Closed(I, p, x, S) => z \in S}

LEMMA AboveIs ==
    ASSUME NEW I, NEW p \in [I -> I], NEW x \in I
    PROVE  /\ Closed(I, p, x, Above(I, p, x))
           /\ \A S : Closed(I, p, x, S) => Above(I, p, x) \subseteq S
  BY DEF Above, Closed

LEMMA AboveUnfolds ==
    ASSUME NEW I, NEW p \in [I -> I], NEW x \in I
    PROVE  Above(I, p, x) = {x} \cup (IF p[x] = x THEN {} ELSE Above(I, p, p[x]))
  <1>1. Closed(I, p, x, Above(I, p, x))
    BY AboveIs
  <1>2. CASE p[x] = x
    <2>1. Closed(I, p, x, {x})
      BY <1>2 DEF Closed
    <2>2. Above(I, p, x) \subseteq {x}
      BY <2>1, AboveIs
    <2> QED
      BY <1>1, <1>2, <2>2 DEF Closed
  <1>3. CASE p[x] # x
    <2>1. p[x] \in I
      OBVIOUS
    <2>2. Closed(I, p, p[x], Above(I, p, p[x]))
      BY <2>1, AboveIs
    <2>3. Closed(I, p, x, {x} \cup Above(I, p, p[x]))
      BY <2>2 DEF Closed
    <2>4. Above(I, p, x) \subseteq {x} \cup Above(I, p, p[x])
      BY <2>3, AboveIs
    <2>5. Closed(I, p, p[x], Above(I, p, x))
      BY <1>1 DEF Closed
    <2>6. Above(I, p, p[x]) \subseteq Above(I, p, x)
      BY <2>1, <2>5, AboveIs
    <2> QED
      BY <1>1, <1>3, <2>4, <2>6 DEF Closed
  <1> QED
    BY <1>2, <1>3

LEMMA PathIs ==
    ASSUME NEW I, NEW p, NEW root, NEW rank, Ranked(I, p, root, rank),
           NEW x \in I
    PROVE  Path(p, x) = Above(I, p, x)
  <1> DEFINE Is(f) == f = [y \in I |-> {y} \cup (IF p[y] = y THEN {} ELSE f[p[y]])]
             F == CHOOSE f : Is(f)
             G == [y \in I |-> Above(I, p, y)]
  <1>1. DOMAIN p = I /\ p \in [I -> I]
    BY DEF Ranked
  <1>2. Path(p, x) = F[x]
    BY <1>1 DEF Path
  <1>3. Is(G)
    <2>1. ASSUME NEW y \in I
          PROVE  G[y] = {y} \cup (IF p[y] = y THEN {} ELSE G[p[y]])
      BY <1>1, AboveUnfolds
    <2> QED
      BY <2>1
  <1>4. Is(F)
    BY <1>3
  <1> HIDE DEF F, G
  <1> DEFINE D == {y \in I : F[y] # G[y]}
  <1>5. ASSUME D # {} PROVE FALSE
    <2>1. PICK d \in D : \A e \in D : rank[e] <= rank[d]
      <3>1. D \subseteq I
        OBVIOUS
      <3> HIDE DEF D
      <3> QED
        BY <1>5, <3>1, Highest DEF Ranked
    <2>2. d \in I /\ F[d] # G[d]
      OBVIOUS
    <2>3. /\ F[d] = {d} \cup (IF p[d] = d THEN {} ELSE F[p[d]])
          /\ G[d] = {d} \cup (IF p[d] = d THEN {} ELSE G[p[d]])
      BY <1>3, <1>4, <2>2
    <2>4. p[d] # d /\ p[d] \in I /\ rank[d] \in Nat /\ rank[p[d]] \in Nat
      BY <2>2, <2>3 DEF Ranked
    <2>5. rank[d] < rank[p[d]]
      BY <2>2, <2>4 DEF Ranked
    <2>6. p[d] \notin D
      BY <2>1, <2>4, <2>5
    <2> QED
      BY <2>2, <2>3, <2>4, <2>6
  <1>6. F[x] = G[x]
    BY <1>5
  <1> QED
    BY <1>2, <1>6 DEF G

\* All that is above x is in the tree of x, and its root is.
LEMMA AboveRoots ==
    ASSUME NEW I, NEW p, NEW root, NEW rank, Ranked(I, p, root, rank),
           NEW x \in I
    PROVE  /\ \A u \in Above(I, p, x) : u \in I /\ root[u] = root[x]
           /\ root[x] \in Above(I, p, x)
  <1>1. p \in [I -> I] /\ root \in [I -> I]
    BY DEF Ranked
  <1> DEFINE S == {u \in I : root[u] = root[x]}
             A == Above(I, p, x)
  <1>2. Closed(I, p, x, S)
    BY DEF Closed, Ranked
  <1>3. A \subseteq S
    BY <1>1, <1>2, AboveIs
  <1>4. Closed(I, p, x, A)
    BY <1>1, AboveIs
  <1>5. PICK d \in A : \A e \in A : rank[e] <= rank[d]
    <2>1. A \subseteq I /\ A # {}
      BY <1>4 DEF Closed
    <2> HIDE DEF A
    <2> QED
      BY <2>1, Highest DEF Ranked
  <1>6. d \in I /\ root[d] = root[x]
    BY <1>3
  <1>7. p[d] = d
    <2>1. p[d] \in A
      BY <1>4 DEF Closed
    <2>2. rank[p[d]] <= rank[d] /\ rank[d] \in Nat /\ rank[p[d]] \in Nat
      BY <1>1, <1>5, <1>6, <2>1 DEF Ranked
    <2> QED
      BY <1>6, <2>2 DEF Ranked
  <1>8. root[d] = d
    BY <1>6, <1>7 DEF Ranked
  <1> QED
    BY <1>3, <1>5, <1>6, <1>8

-----------------------------------------------------------------------------
(* What the two assignments to the array do to a forest *)

\* Pointing the path of x to its root leaves every root.
Squeezed(I, p, root, x) ==
    [y \in I |-> IF y \in Above(I, p, x) THEN root[x] ELSE p[y]]

LEMMA SqueezedRanked ==
    ASSUME NEW I, NEW p, NEW root, NEW rank, Ranked(I, p, root, rank),
           NEW x \in I
    PROVE  /\ Ranked(I, Squeezed(I, p, root, x), root, rank)
           /\ \A z \in I : Above(I, Squeezed(I, p, root, x), z)
                             \subseteq Above(I, p, z)
  <1> DEFINE q == Squeezed(I, p, root, x)
             A == Above(I, p, x)
  <1>1. p \in [I -> I] /\ root \in [I -> I] /\ rank \in [I -> Nat]
    BY DEF Ranked
  <1>2. \A u \in A : u \in I /\ root[u] = root[x]
    BY AboveRoots
  <1>3. \A y \in I : q[y] = IF y \in A THEN root[y] ELSE p[y]
    BY <1>2 DEF Squeezed
  <1>4. q \in [I -> I]
    BY <1>1 DEF Squeezed
  <1> HIDE DEF q, A
  <1>5. ASSUME NEW y \in I
        PROVE  /\ root[y] = IF q[y] = y THEN y ELSE root[q[y]]
               /\ q[y] # y => rank[y] < rank[q[y]]
    <2>1. CASE y \in A
      <3>1. q[y] = root[y]
        BY <1>3, <2>1
      <3>2. root[root[y]] = root[y] /\ (root[y] # y => rank[y] < rank[root[y]])
        BY RootsAre
      <3> QED
        BY <3>1, <3>2
    <2>2. CASE y \notin A
      <3>1. q[y] = p[y]
        BY <1>3, <2>2
      <3> QED
        BY <3>1 DEF Ranked
    <2> QED
      BY <2>1, <2>2
  <1>6. Ranked(I, q, root, rank)
    BY <1>1, <1>4, <1>5 DEF Ranked
  <1>7. ASSUME NEW z \in I
        PROVE  Above(I, q, z) \subseteq Above(I, p, z)
    <2> DEFINE S == Above(I, p, z)
    <2>1. Closed(I, p, z, S)
      BY <1>1, AboveIs
    <2>2. (\A u \in S : u \in I /\ root[u] = root[z]) /\ root[z] \in S
      BY AboveRoots
    <2> HIDE DEF S
    <2>3. \A u \in S : q[u] \in S
      BY <1>3, <2>1, <2>2 DEF Closed
    <2>4. Closed(I, q, z, S)
      BY <2>1, <2>3 DEF Closed
    <2> QED
      BY <1>4, <2>4, AboveIs DEF S
  <1> QED
    BY <1>6, <1>7 DEF q

LEMMA CompressIs ==
    ASSUME NEW I, NEW p, NEW root, NEW rank, Ranked(I, p, root, rank),
           NEW x \in I
    PROVE  Compress(p, x) = Squeezed(I, p, root, x)
  <1>1. DOMAIN p = I
    BY DEF Ranked
  <1>2. Root(p, x) = root[x] /\ Path(p, x) = Above(I, p, x)
    BY RootIs, PathIs
  <1> QED
    BY <1>1, <1>2 DEF Compress, Squeezed

\* Hanging the tree of the root low below the root top.
LinkRoot(I, root, low, top) ==
    [y \in I |-> IF root[y] = low THEN top ELSE root[y]]
LinkRank(I, root, rank, low, top) ==
    [y \in I |-> IF root[y] = top THEN rank[y] + rank[low] + 1 ELSE rank[y]]

Hung(p, low, top) == [p EXCEPT ![low] = top]

LEMMA LinkRanked ==
    ASSUME NEW I, NEW p, NEW root, NEW rank, Ranked(I, p, root, rank),
           NEW low \in I, NEW top \in I, low # top,
           root[low] = low, root[top] = top,
           NEW q, q = Hung(p, low, top)
    PROVE  /\ Ranked(I, q, LinkRoot(I, root, low, top),
                           LinkRank(I, root, rank, low, top))
           /\ \A z \in I : Above(I, q, z) \subseteq
                 Above(I, p, z) \cup (IF root[z] = low THEN {top} ELSE {})
  <1> DEFINE r == LinkRoot(I, root, low, top)
             k == LinkRank(I, root, rank, low, top)
  <1>1. IsFiniteSet(I) /\ p \in [I -> I] /\ root \in [I -> I] /\ rank \in [I -> Nat]
    BY DEF Ranked
  <1>2. q \in [I -> I] /\ q[low] = top /\ \A y \in I : y # low => q[y] = p[y]
    BY <1>1 DEF Hung
  <1>3. /\ \A y \in I : r[y] = IF root[y] = low THEN top ELSE root[y]
        /\ \A y \in I : k[y] = IF root[y] = top THEN rank[y] + rank[low] + 1
                               ELSE rank[y]
        /\ r \in [I -> I]
    BY <1>1 DEF LinkRoot, LinkRank
  <1>4. k \in [I -> Nat]
    <2>1. \A y \in I : rank[y] + rank[low] + 1 \in Nat /\ rank[y] \in Nat
      BY <1>1
    <2> QED
      BY <2>1 DEF LinkRank
  <1> HIDE DEF r, k
  <1>5. p[low] = low /\ p[top] = top
    BY RootsAre
  <1>6. ASSUME NEW y \in I
        PROVE  /\ r[y] = IF q[y] = y THEN y ELSE r[q[y]]
               /\ q[y] # y => k[y] < k[q[y]]
    <2>1. CASE y = low
      <3>1. q[y] = top /\ r[y] = top /\ r[top] = top
        BY <1>2, <1>3, <2>1
      <3>2. k[y] = rank[low] /\ k[top] = rank[top] + rank[low] + 1
        BY <1>3, <2>1
      <3>3. rank[low] \in Nat /\ rank[top] \in Nat
        BY <1>1
      <3> QED
        BY <2>1, <3>1, <3>2, <3>3
    <2>2. CASE y # low
      <3>1. q[y] = p[y] /\ p[y] \in I
        BY <1>1, <1>2, <2>2
      <3>2. CASE p[y] = y
        <4>1. root[y] = y
          BY <3>2 DEF Ranked
        <4> QED
          BY <1>3, <2>2, <3>1, <3>2, <4>1
      <3>3. CASE p[y] # y
        <4>1. root[y] = root[p[y]] /\ rank[y] < rank[p[y]]
          BY <3>3 DEF Ranked
        <4>2. r[y] = r[p[y]]
          BY <1>3, <3>1, <4>1
        <4>3. rank[y] \in Nat /\ rank[p[y]] \in Nat /\ rank[low] \in Nat
          BY <1>1, <3>1
        <4>4. k[y] < k[p[y]]
          <5>1. CASE root[y] = top
            <6>1. k[y] = rank[y] + rank[low] + 1 /\ k[p[y]] = rank[p[y]] + rank[low] + 1
              BY <1>3, <3>1, <4>1, <5>1
            <6> QED
              BY <4>1, <4>3, <6>1
          <5>2. CASE root[y] # top
            BY <1>3, <3>1, <4>1, <5>2
          <5> QED
            BY <5>1, <5>2
        <4> QED
          BY <3>1, <3>3, <4>2, <4>4
      <3> QED
        BY <3>2, <3>3
    <2> QED
      BY <2>1, <2>2
  <1>7. Ranked(I, q, r, k)
    BY <1>1, <1>2, <1>3, <1>4, <1>6 DEF Ranked
  <1>8. ASSUME NEW z \in I
        PROVE  Above(I, q, z) \subseteq
                 Above(I, p, z) \cup (IF root[z] = low THEN {top} ELSE {})
    <2> DEFINE A == Above(I, p, z)
               S == A \cup (IF root[z] = low THEN {top} ELSE {})
    <2>1. Closed(I, p, z, A)
      BY <1>1, AboveIs
    <2>2. \A u \in A : u \in I /\ root[u] = root[z]
      BY AboveRoots
    <2> HIDE DEF A
    <2>3. ASSUME NEW u \in S
          PROVE  q[u] \in S
      <3>1. CASE u = low
        <4>1. root[z] = low
          BY <2>2, <3>1
        <4> QED
          BY <1>2, <3>1, <4>1
      <3>2. CASE u # low /\ u = top
        BY <1>2, <1>5, <3>2
      <3>3. CASE u # low /\ u # top
        <4>1. u \in A
          BY <3>3
        <4> QED
          BY <1>2, <2>1, <2>2, <3>3, <4>1 DEF Closed
      <3> QED
        BY <3>1, <3>2, <3>3
    <2>4. Closed(I, q, z, S)
      BY <2>1, <2>3 DEF Closed
    <2>5. Above(I, q, z) \subseteq S
      BY <1>2, <2>4, AboveIs
    <2> QED
      BY <2>5 DEF A
  <1> QED
    BY <1>7, <1>8 DEF r, k

-----------------------------------------------------------------------------
(* The struct: what it counts of its forest *)

Roots(I, root) == {x \in I : root[x] = x}
Tree(I, root, r) == {x \in I : root[x] = r}
TreeSizes(I, root) ==
    [r \in I |-> IF root[r] = r THEN Cardinality(Tree(I, root, r)) ELSE 0]
Low(I, p, s, root) ==
    \A x \in I : PowerOfTwo(Cardinality(Above(I, p, x)) - 1) <= s[root[x]]

Forest(I, p, c, s, root, rank) ==
    /\ Ranked(I, p, root, rank)
    /\ c = Cardinality(Roots(I, root))
    /\ s = TreeSizes(I, root)
    /\ Low(I, p, s, root)

\* Every element has something above it, itself, and not more than there is.
LEMMA AboveCounts ==
    ASSUME NEW I, IsFiniteSet(I), NEW p \in [I -> I], NEW x \in I
    PROVE  /\ IsFiniteSet(Above(I, p, x))
           /\ Cardinality(Above(I, p, x)) \in Nat \ {0}
           /\ Cardinality(Above(I, p, x)) - 1 \in Nat
  <1> DEFINE A == Above(I, p, x)
  <1>1. A \subseteq I /\ x \in A
    BY AboveIs DEF Closed
  <1> HIDE DEF A
  <1>2. IsFiniteSet(A)
    BY <1>1, FS_Subset
  <1>3. Cardinality(A) \in Nat
    BY <1>2, FS_CardinalityType
  <1>4. Cardinality(A) # 0
    BY <1>1, <1>2, FS_EmptySet
  <1> QED
    BY <1>2, <1>3, <1>4 DEF A

LEMMA TreeCounts ==
    ASSUME NEW I, IsFiniteSet(I), NEW root \in [I -> I], NEW r
    PROVE  /\ IsFiniteSet(Tree(I, root, r))
           /\ Cardinality(Tree(I, root, r)) \in 0 .. Cardinality(I)
           /\ TreeSizes(I, root) \in [I -> 0 .. Cardinality(I)]
           /\ IsFiniteSet(Roots(I, root))
           /\ Cardinality(Roots(I, root)) \in 0 .. Cardinality(I)
  <1>0. Cardinality(I) \in Nat
    BY FS_CardinalityType
  <1>1. ASSUME NEW S, S \subseteq I
        PROVE  IsFiniteSet(S) /\ Cardinality(S) \in 0 .. Cardinality(I)
    <2>1. IsFiniteSet(S) /\ Cardinality(S) <= Cardinality(I)
      BY <1>1, FS_Subset
    <2>2. Cardinality(S) \in Nat
      BY <2>1, FS_CardinalityType
    <2> QED
      BY <1>0, <2>1, <2>2
  <1>2. \A t : Tree(I, root, t) \subseteq I
    BY DEF Tree
  <1>3. Roots(I, root) \subseteq I
    BY DEF Roots
  <1>4. \A t : Cardinality(Tree(I, root, t)) \in 0 .. Cardinality(I)
    BY <1>1, <1>2
  <1>5. 0 \in 0 .. Cardinality(I)
    BY <1>0
  <1>6. TreeSizes(I, root) \in [I -> 0 .. Cardinality(I)]
    BY <1>4, <1>5 DEF TreeSizes
  <1> QED
    BY <1>1, <1>2, <1>3, <1>4, <1>6

\* A find that compresses leaves the forest as it is counted.
LEMMA CompressForest ==
    ASSUME NEW I, NEW p, NEW c, NEW s, NEW root, NEW rank,
           Forest(I, p, c, s, root, rank), NEW x \in I
    PROVE  Forest(I, Compress(p, x), c, s, root, rank)
  <1> DEFINE q == Compress(p, x)
  <1>1. Ranked(I, p, root, rank)
    BY DEF Forest
  <1>2. Ranked(I, q, root, rank)
    BY <1>1, CompressIs, SqueezedRanked
  <1>3. \A z \in I : Above(I, q, z) \subseteq Above(I, p, z)
    BY <1>1, CompressIs, SqueezedRanked
  <1> HIDE DEF q
  <1>4. IsFiniteSet(I) /\ p \in [I -> I] /\ q \in [I -> I]
    BY <1>1, <1>2 DEF Ranked
  <1>5. ASSUME NEW z \in I
        PROVE  PowerOfTwo(Cardinality(Above(I, q, z)) - 1) <= s[root[z]]
    <2> DEFINE A == Above(I, p, z)
               B == Above(I, q, z)
               a == Cardinality(A) - 1
               b == Cardinality(B) - 1
    <2>1. IsFiniteSet(A) /\ a \in Nat /\ Cardinality(A) \in Nat
      BY <1>4, AboveCounts
    <2>2. b \in Nat /\ Cardinality(B) \in Nat
      BY <1>4, AboveCounts
    <2>3. Cardinality(B) <= Cardinality(A)
      BY <1>3, <2>1, FS_Subset
    <2>4. b <= a
      BY <2>1, <2>2, <2>3
    <2>5. PowerOfTwo(a) <= s[root[z]]
      BY DEF Forest, Low
    <2>6. s[root[z]] \in Int
      <3>1. s \in [I -> 0 .. Cardinality(I)] /\ root \in [I -> I]
        BY <1>1, <1>4, TreeCounts DEF Forest, Ranked
      <3> QED
        BY <3>1
    <2> HIDE DEF a, b
    <2>7. PowerOfTwo(b) <= PowerOfTwo(a)
      BY <2>1, <2>2, <2>4, PowerGrows
    <2>8. PowerOfTwo(b) \in Nat /\ PowerOfTwo(a) \in Nat
      BY <2>1, <2>2, PowerIsNat
    <2>9. PowerOfTwo(b) <= s[root[z]]
      BY <2>5, <2>6, <2>7, <2>8
    <2> QED
      BY <2>9 DEF b
  <1> QED
    BY <1>2, <1>5 DEF Forest, Low, q

\* Hanging the smaller of two trees below the root of the other one.
LEMMA LinkForest ==
    ASSUME NEW I, NEW p, NEW c, NEW s, NEW root, NEW rank,
           Forest(I, p, c, s, root, rank),
           NEW low \in I, NEW top \in I, low # top,
           root[low] = low, root[top] = top, s[low] <= s[top],
           NEW q, q = [p EXCEPT ![low] = top],
           NEW t, t = [s EXCEPT ![top] = @ + s[low], ![low] = 0]
    PROVE  Forest(I, q, c - 1, t, LinkRoot(I, root, low, top),
                  LinkRank(I, root, rank, low, top))
  <1> DEFINE r == LinkRoot(I, root, low, top)
             k == LinkRank(I, root, rank, low, top)
  <1>1. Ranked(I, p, root, rank)
    BY DEF Forest
  <1>2. /\ Ranked(I, q, r, k)
        /\ \A z \in I : Above(I, q, z) \subseteq
              Above(I, p, z) \cup (IF root[z] = low THEN {top} ELSE {})
    <2>1. q = Hung(p, low, top)
      BY DEF Hung
    <2> HIDE DEF r, k
    <2> QED
      BY ONLY <1>1, <2>1, LinkRanked, low \in I, top \in I, low # top,
              root[low] = low, root[top] = top DEF r, k
  <1>3. \A z \in I : Above(I, q, z) \subseteq
           Above(I, p, z) \cup (IF root[z] = low THEN {top} ELSE {})
    BY <1>2
  <1>4. \A y \in I : r[y] = IF root[y] = low THEN top ELSE root[y]
    BY DEF LinkRoot
  <1>5. /\ IsFiniteSet(I) /\ p \in [I -> I] /\ q \in [I -> I]
        /\ root \in [I -> I] /\ r \in [I -> I]
    BY <1>1, <1>2 DEF Ranked
  <1> HIDE DEF r, k
  <1>6. s \in [I -> 0 .. Cardinality(I)] /\ s = TreeSizes(I, root)
    BY <1>5, TreeCounts DEF Forest
  <1>7. Cardinality(I) \in Nat
    BY <1>5, FS_CardinalityType
  <1>8. s[low] \in Nat /\ s[top] \in Nat
    BY <1>6, <1>7
  <1>9. c - 1 = Cardinality(Roots(I, r))
    <2>1. Roots(I, r) = Roots(I, root) \ {low}
      BY <1>4, <1>5 DEF Roots
    <2>2. low \in Roots(I, root)
      BY DEF Roots
    <2>3. IsFiniteSet(Roots(I, root))
      BY <1>5, TreeCounts
    <2>4. Cardinality(Roots(I, root) \ {low}) = Cardinality(Roots(I, root)) - 1
      BY <2>2, <2>3, FS_RemoveElement
    <2> QED
      BY <2>1, <2>4 DEF Forest
  <1>10. /\ t \in [I -> Int] /\ t[low] = 0 /\ t[top] = s[top] + s[low]
         /\ \A y \in I \ {low, top} : t[y] = s[y]
    BY <1>6, <1>7, <1>8
  <1>11. t = TreeSizes(I, r)
    <2>1. ASSUME NEW y \in I
          PROVE  t[y] = IF r[y] = y THEN Cardinality(Tree(I, r, y)) ELSE 0
      <3>1. CASE y = low
        <4>1. r[y] = top
          BY <1>4, <3>1
        <4> QED
          BY <1>10, <3>1, <4>1
      <3>2. CASE y = top
        <4> DEFINE A == Tree(I, root, top)
                   B == Tree(I, root, low)
        <4>1. Tree(I, r, top) = A \cup B /\ A \cap B = {}
          BY <1>4, <1>5 DEF Tree
        <4>2. IsFiniteSet(A) /\ IsFiniteSet(B)
          BY <1>5, TreeCounts
        <4>3. s[top] = Cardinality(A) /\ s[low] = Cardinality(B)
          BY <1>6 DEF TreeSizes
        <4> HIDE DEF A, B
        <4>4. Cardinality(A \cup B) = Cardinality(A) + Cardinality(B) - Cardinality(A \cap B)
          BY <4>2, FS_Union
        <4>5. Cardinality(A \cap B) = 0
          BY <4>1, FS_EmptySet
        <4>6. Cardinality(A \cup B) = s[top] + s[low]
          BY <1>8, <4>3, <4>4, <4>5
        <4>7. r[top] = top
          BY <1>4
        <4> QED
          BY <1>10, <3>2, <4>1, <4>6, <4>7
      <3>3. CASE y # low /\ y # top
        <4>1. r[y] = y <=> root[y] = y
          BY <1>4, <3>3
        <4>2. Tree(I, r, y) = Tree(I, root, y)
          BY <1>4, <1>5, <3>3 DEF Tree
        <4>3. s[y] = IF root[y] = y THEN Cardinality(Tree(I, root, y)) ELSE 0
          BY <1>6 DEF TreeSizes
        <4> QED
          BY <1>10, <3>3, <4>1, <4>2, <4>3
      <3> QED
        BY <3>1, <3>2, <3>3
    <2> QED
      BY <1>10, <2>1 DEF TreeSizes
  <1>12. ASSUME NEW z \in I
         PROVE  PowerOfTwo(Cardinality(Above(I, q, z)) - 1) <= t[r[z]]
    <2> DEFINE A == Above(I, p, z)
               B == Above(I, q, z)
               a == Cardinality(A) - 1
               b == Cardinality(B) - 1
    <2>1. IsFiniteSet(A) /\ a \in Nat /\ Cardinality(A) \in Nat
      BY <1>5, AboveCounts
    <2>2. b \in Nat /\ Cardinality(B) \in Nat
      BY <1>5, AboveCounts
    <2>3. PowerOfTwo(a) <= s[root[z]]
      BY DEF Forest, Low
    <2>4. B \subseteq A \cup (IF root[z] = low THEN {top} ELSE {})
      BY <1>3
    <2>5. root[z] \in I /\ s[root[z]] \in Nat
      BY <1>5, <1>6, <1>7
    <2>6. PowerOfTwo(a) \in Nat /\ PowerOfTwo(b) \in Nat
      BY <2>1, <2>2, PowerIsNat
    <2> HIDE DEF A, B
    <2>7. CASE root[z] = low
      <3>1. IsFiniteSet(A \cup {top}) /\ Cardinality(A \cup {top}) <= Cardinality(A) + 1
        BY <2>1, FS_AddElement
      <3>2. Cardinality(A \cup {top}) \in Nat
        BY <3>1, FS_CardinalityType
      <3>3. Cardinality(B) <= Cardinality(A \cup {top})
        BY <2>4, <2>7, <3>1, FS_Subset
      <3>4. b <= a + 1 /\ a + 1 \in Nat
        BY <2>1, <2>2, <3>1, <3>2, <3>3
      <3> HIDE DEF a, b
      <3>5. PowerOfTwo(b) <= PowerOfTwo(a + 1)
        BY <2>2, <3>4, PowerGrows
      <3>6. PowerOfTwo(a + 1) = 2 * PowerOfTwo(a)
        BY <2>1, PowerDoubles
      <3>7. r[z] = top /\ t[r[z]] = s[top] + s[low]
        BY <1>4, <1>10, <2>7
      <3>8. PowerOfTwo(a) <= s[low]
        BY <2>3, <2>7
      <3>9. PowerOfTwo(b) <= s[top] + s[low]
        BY <1>8, <2>6, <3>5, <3>6, <3>8
      <3> QED
        BY <3>7, <3>9 DEF b, B
    <2>8. CASE root[z] # low
      <3>1. Cardinality(B) <= Cardinality(A)
        BY <2>1, <2>4, <2>8, FS_Subset
      <3>2. b <= a
        BY <2>1, <2>2, <3>1
      <3> HIDE DEF a, b
      <3>3. PowerOfTwo(b) <= PowerOfTwo(a)
        BY <2>1, <2>2, <3>2, PowerGrows
      <3>4. r[z] = root[z]
        BY <1>4, <2>8
      <3>5. t[r[z]] \in Int /\ s[root[z]] <= t[r[z]]
        <4>1. CASE root[z] = top
          BY <1>8, <1>10, <3>4, <4>1
        <4>2. CASE root[z] # top
          BY <1>10, <2>5, <2>8, <3>4, <4>2
        <4> QED
          BY <4>1, <4>2
      <3>6. PowerOfTwo(b) <= t[r[z]]
        BY <2>3, <2>5, <2>6, <3>3, <3>5
      <3> QED
        BY <3>6 DEF b, B
    <2> QED
      BY <2>7, <2>8
  <1> QED
    BY <1>2, <1>9, <1>11, <1>12 DEF Forest, Low, r, k

\* n elements, each alone.
LEMMA FillForest ==
    ASSUME NEW n \in Nat
    PROVE  LET id == [x \in 0 .. n - 1 |-> x] IN
           Forest(0 .. n - 1, id, n, [x \in 0 .. n - 1 |-> 1],
                  id, [x \in 0 .. n - 1 |-> 0])
  <1> DEFINE I == 0 .. n - 1
             id == [x \in I |-> x]
             ones == [x \in I |-> 1]
             zeros == [x \in I |-> 0]
  <1>1. IsFiniteSet(I) /\ Cardinality(I) = n
    <2>1. 0 \in Int /\ n - 1 \in Int
      OBVIOUS
    <2>2. IsFiniteSet(I) /\ Cardinality(I) = IF 0 <= n - 1 THEN (n - 1) - 0 + 1 ELSE 0
      BY <2>1, FS_Interval
    <2> QED
      BY <2>2
  <1> HIDE DEF I
  <1>2. id \in [I -> I] /\ zeros \in [I -> Nat] /\ \A x \in I : id[x] = x
    OBVIOUS
  <1>3. Ranked(I, id, id, zeros)
    BY <1>1, <1>2 DEF Ranked
  <1>4. n = Cardinality(Roots(I, id))
    <2>1. Roots(I, id) = I
      BY <1>2 DEF Roots
    <2> QED
      BY <1>1, <2>1
  <1>5. ones = TreeSizes(I, id)
    <2>1. ASSUME NEW x \in I
          PROVE  Cardinality(Tree(I, id, x)) = 1
      <3>1. Tree(I, id, x) = {x}
        BY <1>2 DEF Tree
      <3> QED
        BY <3>1, FS_Singleton
    <2> QED
      BY <1>2, <2>1 DEF TreeSizes
  <1>6. ASSUME NEW x \in I
        PROVE  PowerOfTwo(Cardinality(Above(I, id, x)) - 1) <= ones[id[x]]
    <2>1. Closed(I, id, x, {x})
      BY <1>2 DEF Closed
    <2>2. Above(I, id, x) = {x}
      <3> HIDE DEF id
      <3>1. Closed(I, id, x, Above(I, id, x)) /\ Above(I, id, x) \subseteq {x}
        BY <1>2, <2>1, AboveIs
      <3> QED
        BY <3>1 DEF Closed
    <2>3. Cardinality(Above(I, id, x)) - 1 = 0
      BY <2>2, FS_Singleton
    <2>4. PowerOfTwo(0) = 1
      BY PowerDoubles
    <2> QED
      BY <1>2, <2>3, <2>4
  <1> QED
    BY <1>3, <1>4, <1>5, <1>6 DEF Forest, Low, I

\* n elements in k classes, as unionfind_copy brings them.
LEMMA CopyForest ==
    ASSUME NEW n \in Nat, NEW k \in Nat, k <= n, k = 0 => n = 0
    PROVE  LET p == [x \in 0 .. n - 1 |-> x % k] IN
           Forest(0 .. n - 1, p, k,
                  [x \in 0 .. n - 1 |->
                     IF x < k THEN Cardinality({y \in 0 .. n - 1 : y % k = x}) ELSE 0],
                  p, [x \in 0 .. n - 1 |-> IF x < k THEN 1 ELSE 0])
  <1> DEFINE I == 0 .. n - 1
             p == [x \in I |-> x % k]
             s == [x \in I |-> IF x < k THEN Cardinality({y \in I : y % k = x}) ELSE 0]
             rank == [x \in I |-> IF x < k THEN 1 ELSE 0]
  <1>1. IsFiniteSet(I)
    BY FS_Interval
  <1>2. ASSUME NEW x \in I
        PROVE  /\ x \in Nat /\ x % k \in 0 .. k - 1 /\ x % k \in I
               /\ x < k => x % k = x
    <2>1. x \in Nat /\ k \in Nat \ {0}
      OBVIOUS
    <2>2. x % k \in 0 .. k - 1
      BY <2>1
    <2>3. x < k => x % k = x
      BY <2>1
    <2> QED
      BY <2>1, <2>2, <2>3
  <1>3. /\ p \in [I -> I] /\ rank \in [I -> Nat]
        /\ \A x \in I : /\ p[x] = x % k /\ rank[x] = IF x < k THEN 1 ELSE 0
                        /\ s[x] = IF x < k THEN Cardinality({y \in I : y % k = x}) ELSE 0
    BY <1>2
  <1>4. ASSUME NEW x \in I
        PROVE  (p[x] = x <=> x < k) /\ p[x] < k /\ p[p[x]] = p[x]
    <2>1. p[x] = x % k /\ x % k \in 0 .. k - 1 /\ x % k \in I /\ (x < k => x % k = x) /\ x \in Nat
      BY <1>2, <1>3
    <2>2. p[x] < k /\ p[x] \in I
      BY <2>1
    <2>3. p[p[x]] = p[x] % k /\ p[x] % k = p[x]
      BY <1>2, <1>3, <2>2
    <2> QED
      BY <2>1, <2>2, <2>3
  <1> HIDE DEF I, p, s, rank
  <1>5. Ranked(I, p, p, rank)
    <2>1. ASSUME NEW y \in I, p[y] # y
          PROVE  rank[y] < rank[p[y]]
      <3>1. p[y] \in I /\ ~ (y < k) /\ p[y] < k
        BY <1>3, <1>4, <2>1
      <3>2. rank[y] = IF y < k THEN 1 ELSE 0
        BY <1>3
      <3>3. rank[p[y]] = IF p[y] < k THEN 1 ELSE 0
        BY <1>3, <3>1
      <3>4. rank[y] = 0 /\ rank[p[y]] = 1
        BY <3>1, <3>2, <3>3
      <3> QED
        BY <3>4
    <2>2. \A y \in I : p[y] = IF p[y] = y THEN y ELSE p[p[y]]
      BY <1>4
    <2> QED
      BY <1>1, <1>3, <2>1, <2>2 DEF Ranked
  <1>6. k = Cardinality(Roots(I, p))
    <2>1. Roots(I, p) = {x \in I : x < k}
      BY <1>4 DEF Roots
    <2>2. {x \in I : x < k} = 0 .. k - 1
      BY DEF I
    <2>3. Cardinality(0 .. k - 1) = IF 0 <= k - 1 THEN (k - 1) - 0 + 1 ELSE 0
      <3>1. 0 \in Int /\ k - 1 \in Int
        OBVIOUS
      <3> QED
        BY <3>1, FS_Interval
    <2>4. Cardinality(0 .. k - 1) = k
      BY <2>3
    <2>5. Roots(I, p) = 0 .. k - 1
      BY <2>1, <2>2
    <2> QED
      BY <2>4, <2>5
  <1>7. \A x \in I : Tree(I, p, x) = {y \in I : y % k = x}
    BY <1>3 DEF Tree
  <1>8. s = TreeSizes(I, p)
    <2>1. \A x \in I : s[x] = IF p[x] = x THEN Cardinality(Tree(I, p, x)) ELSE 0
      BY <1>3, <1>4, <1>7
    <2>2. s = [x \in I |-> s[x]]
      BY DEF s
    <2> QED
      BY <2>1, <2>2 DEF TreeSizes
  <1>9. ASSUME NEW x \in I
        PROVE  PowerOfTwo(Cardinality(Above(I, p, x)) - 1) <= s[p[x]]
    <2> DEFINE A == Above(I, p, x)
               T == Tree(I, p, p[x])
    <2>1. p[x] \in I /\ p[p[x]] = p[x]
      BY <1>3, <1>4
    <2>2. Closed(I, p, x, {x, p[x]})
      BY <2>1 DEF Closed
    <2>3. A \subseteq {x, p[x]} /\ Closed(I, p, x, A)
      BY <1>3, <2>2, AboveIs
    <2>4. A = {x, p[x]}
      BY <2>3 DEF Closed
    <2>5. s[p[x]] = Cardinality(T)
      BY <1>8, <2>1 DEF TreeSizes
    <2>6. IsFiniteSet(T) /\ Cardinality(T) \in Nat
      <3>1. IsFiniteSet(T)
        BY <1>1, <1>3, TreeCounts
      <3> QED
        BY <3>1, FS_CardinalityType
    <2>7. A \subseteq T
      BY <1>4, <2>1, <2>4 DEF Tree
    <2>8. Cardinality(A) <= Cardinality(T)
      BY <2>6, <2>7, FS_Subset
    <2>9. Cardinality(A) = IF p[x] = x THEN 1 ELSE 2
      <3>1. CASE p[x] = x
        <4>1. A = {x}
          BY <2>4, <3>1
        <4> QED
          BY <3>1, <4>1, FS_Singleton
      <3>2. CASE p[x] # x
        <4>1. IsFiniteSet({x}) /\ Cardinality({x}) = 1
          BY FS_Singleton
        <4>2. p[x] \notin {x}
          BY <3>2
        <4>3. Cardinality({x} \cup {p[x]}) = Cardinality({x}) + 1
          BY <4>1, <4>2, FS_AddElement
        <4>4. A = {x} \cup {p[x]}
          BY <2>4
        <4> HIDE DEF A
        <4> QED
          BY <3>2, <4>1, <4>3, <4>4
      <3> QED
        BY <3>1, <3>2
    <2>10. PowerOfTwo(0) = 1 /\ PowerOfTwo(1) = 2
      <3>1. 0 \in Nat /\ 0 + 1 = 1
        OBVIOUS
      <3>2. PowerOfTwo(0) = 1 /\ PowerOfTwo(0 + 1) = 2 * PowerOfTwo(0)
        BY <3>1, PowerDoubles
      <3> QED
        BY <3>1, <3>2
    <2>11. PowerOfTwo(Cardinality(A) - 1) = Cardinality(A)
      BY <2>9, <2>10
    <2> QED
      BY <2>5, <2>8, <2>11
  <1>10. Forest(I, p, k, s, p, rank)
    BY <1>5, <1>6, <1>8, <1>9 DEF Forest, Low
  <1> QED
    BY <1>10 DEF I, p, s, rank

-----------------------------------------------------------------------------
(* The invariant: there is a root and a rank of every element with which    *)
(* the arrays are a forest that is counted right                           *)

Inv ==
    /\ size \in 0 .. MaxSize
    /\ \E root, rank : Forest(Ids, parents, set_count, sizes, root, rank)

LEMMA InvMeans == Inv => LowForest
  <1> SUFFICES ASSUME Inv PROVE LowForest
    OBVIOUS
  <1>1. PICK root, rank : Forest(Ids, parents, set_count, sizes, root, rank)
    BY DEF Inv
  <1>2. Ranked(Ids, parents, root, rank)
    BY <1>1 DEF Forest
  <1>3. /\ IsFiniteSet(Ids) /\ parents \in [Ids -> Ids] /\ root \in [Ids -> Ids]
        /\ size \in 0 .. MaxSize
    BY <1>2 DEF Ranked, Inv
  <1>4. Cardinality(Ids) = size
    <2>1. size \in Nat /\ 0 \in Int /\ size - 1 \in Int
      BY <1>3
    <2>2. Cardinality(0 .. size - 1) = IF 0 <= size - 1 THEN (size - 1) - 0 + 1 ELSE 0
      BY <2>1, FS_Interval
    <2> QED
      BY <2>1, <2>2 DEF Ids
  <1>5. /\ sizes = TreeSizes(Ids, root) /\ set_count = Cardinality(Roots(Ids, root))
        /\ Low(Ids, parents, sizes, root)
    BY <1>1 DEF Forest
  <1> HIDE DEF Ids
  <1>6. TypeOK
    BY <1>3, <1>4, <1>5, TreeCounts DEF TypeOK
  <1>7. \A x \in Ids : /\ Root(parents, x) = root[x]
                       /\ root[x] = x <=> parents[x] = x
                       /\ Path(parents, x) = Above(Ids, parents, x)
    BY <1>2, RootIs, RootsAre, PathIs
  <1>8. set_count = Cardinality({x \in Ids : parents[x] = x})
    <2>1. Roots(Ids, root) = {x \in Ids : parents[x] = x}
      BY <1>7 DEF Roots
    <2> QED
      BY <1>5, <2>1
  <1>9. ASSUME NEW r \in Ids
        PROVE  sizes[r] = IF parents[r] # r THEN 0
                          ELSE Cardinality({x \in Ids : Root(parents, x) = r})
    <2>1. Tree(Ids, root, r) = {x \in Ids : Root(parents, x) = r}
      BY <1>7 DEF Tree
    <2>2. sizes[r] = IF root[r] = r THEN Cardinality(Tree(Ids, root, r)) ELSE 0
      BY <1>5 DEF TreeSizes
    <2> QED
      BY <1>7, <2>1, <2>2
  <1>10. ASSUME NEW x \in Ids
         PROVE  PowerOfTwo(Height(x)) <= sizes[Root(parents, x)]
    BY <1>5, <1>7 DEF Low, Height
  <1> QED
    BY <1>6, <1>8, <1>9, <1>10 DEF LowForest

LEMMA FillInv ==
    ASSUME NEW n \in 0 .. MaxSize, Fill(n)
    PROVE  Inv'
  <1>1. n \in Nat
    BY MaxSizeAssumption
  <1>2. Forest(0 .. n - 1, [x \in 0 .. n - 1 |-> x], n, [x \in 0 .. n - 1 |-> 1],
               [x \in 0 .. n - 1 |-> x], [x \in 0 .. n - 1 |-> 0])
    BY <1>1, FillForest
  <1>3. Forest(Ids', parents', set_count', sizes',
               [x \in 0 .. n - 1 |-> x], [x \in 0 .. n - 1 |-> 0])
    BY <1>2 DEF Fill, Ids
  <1> QED
    BY <1>3 DEF Inv, Fill

\* What a find reads and what two of them leave.
LEMMA FindIs ==
    ASSUME NEW root, NEW rank,
           Forest(Ids, parents, set_count, sizes, root, rank), NEW a \in Ids
    PROVE  /\ Root(parents, a) = root[a]
           /\ Forest(Ids, Compress(parents, a), set_count, sizes, root, rank)
           /\ \A b \in Ids : Forest(Ids, Found(a, b), set_count, sizes, root, rank)
  <1>1. Root(parents, a) = root[a]
    BY RootIs DEF Forest
  <1>2. Forest(Ids, Compress(parents, a), set_count, sizes, root, rank)
    BY CompressForest
  <1>3. ASSUME NEW b \in Ids
        PROVE  Forest(Ids, Found(a, b), set_count, sizes, root, rank)
    BY <1>2, CompressForest DEF Found
  <1> QED
    BY <1>1, <1>2, <1>3

LEMMA UnionInv ==
    ASSUME NEW root, NEW rank,
           Forest(Ids, parents, set_count, sizes, root, rank),
           size \in 0 .. MaxSize, NEW a, NEW b, Union(a, b)
    PROVE  /\ Inv'
           /\ \E low, top : /\ {low, top} = {root[a], root[b]} /\ low # top
                            /\ Forest(Ids, parents', set_count', sizes',
                                      LinkRoot(Ids, root, low, top),
                                      LinkRank(Ids, root, rank, low, top))
  <1>1. a \in Ids /\ b \in Ids
    BY DEF Union
  <1> DEFINE ra == Root(parents, a)
             rb == Root(parents, b)
             top == IF sizes[ra] < sizes[rb] THEN rb ELSE ra
             low == IF sizes[ra] < sizes[rb] THEN ra ELSE rb
  <1>2. ra = root[a] /\ rb = root[b]
    BY <1>1, FindIs
  <1>3. Forest(Ids, Found(a, b), set_count, sizes, root, rank)
    BY <1>1, FindIs
  <1>4. ra \in Ids /\ rb \in Ids /\ root[ra] = ra /\ root[rb] = rb
    <2>1. Ranked(Ids, parents, root, rank)
      BY DEF Forest
    <2> QED
      BY <1>1, <1>2, <2>1, RootsAre
  <1>5. /\ ra # rb /\ parents' = [Found(a, b) EXCEPT ![low] = top]
        /\ sizes' = [sizes EXCEPT ![top] = @ + sizes[low], ![low] = 0]
        /\ set_count' = set_count - 1 /\ size' = size
    BY DEF Union
  <1>6. sizes[ra] \in Int /\ sizes[rb] \in Int
    <2>1. Inv
      BY DEF Inv
    <2>2. TypeOK
      BY <2>1, InvMeans DEF LowForest
    <2> QED
      BY <1>4, <2>2 DEF TypeOK
  <1> HIDE DEF ra, rb
  <1>7. sizes[low] <= sizes[top]
    BY <1>6
  <1>8. /\ low \in Ids /\ top \in Ids /\ low # top
        /\ root[low] = low /\ root[top] = top /\ {low, top} = {root[a], root[b]}
    BY <1>2, <1>4, <1>5
  <1> HIDE DEF low, top
  <1>9. Forest(Ids, parents', set_count', sizes', LinkRoot(Ids, root, low, top),
               LinkRank(Ids, root, rank, low, top))
    <2> DEFINE f == Found(a, b)
    <2>1. Forest(Ids, f, set_count, sizes, root, rank)
      BY <1>3
    <2>2. parents' = [f EXCEPT ![low] = top]
      BY <1>5
    <2>3. sizes' = [sizes EXCEPT ![top] = @ + sizes[low], ![low] = 0]
      BY <1>5
    <2>4. low \in Ids /\ top \in Ids
      BY <1>8
    <2>5. low # top /\ root[low] = low /\ root[top] = top
      BY <1>8
    <2> HIDE DEF f
    <2>6. Forest(Ids, parents', set_count - 1, sizes',
                 LinkRoot(Ids, root, low, top), LinkRank(Ids, root, rank, low, top))
      BY ONLY <1>7, <2>1, <2>2, <2>3, <2>4, <2>5, LinkForest
    <2> QED
      BY <1>5, <2>6
  <1>10. Inv'
    <2>1. Ids' = Ids /\ size' \in 0 .. MaxSize
      BY <1>5 DEF Ids
    <2>2. Forest(Ids', parents', set_count', sizes', LinkRoot(Ids, root, low, top),
                 LinkRank(Ids, root, rank, low, top))
      BY <1>9, <2>1
    <2> QED
      BY <2>1, <2>2 DEF Inv
  <1> QED
    BY <1>8, <1>9, <1>10

-----------------------------------------------------------------------------
(* The refinement: the leader of an element is its root *)

Leader == [x \in Ids |-> Root(parents, x)]

LEMMA LeaderIs ==
    ASSUME NEW root, NEW rank,
           Forest(Ids, parents, set_count, sizes, root, rank)
    PROVE  Leader = root
  <1>1. Ranked(Ids, parents, root, rank)
    BY DEF Forest
  <1>2. \A x \in Ids : Root(parents, x) = root[x]
    BY <1>1, RootIs
  <1>3. root = [x \in Ids |-> root[x]]
    BY <1>1 DEF Ranked
  <1> QED
    BY <1>2, <1>3 DEF Leader

LEMMA LeaderNextIs ==
    ASSUME NEW root, NEW rank,
           Forest(Ids', parents', set_count', sizes', root, rank)
    PROVE  Leader' = root
  <1>1. Ranked(Ids', parents', root, rank)
    BY DEF Forest
  <1>2. \A x \in Ids' : Root(parents', x) = root[x]
    BY <1>1, RootIs
  <1>3. root = [x \in Ids' |-> root[x]]
    BY <1>1 DEF Ranked
  <1> QED
    BY <1>2, <1>3 DEF Leader

\* All that a call that answers a question may do to the forest.
Unmoved == Inv' /\ Leader' = Leader /\ set_count' = set_count

LEMMA UnmovedHolds ==
    ASSUME NEW root, NEW rank,
           Forest(Ids, parents, set_count, sizes, root, rank),
           size \in 0 .. MaxSize,
           Forest(Ids, parents', set_count, sizes, root, rank),
           size' = size, set_count' = set_count, sizes' = sizes
    PROVE  Unmoved
  <1>1. Ids' = Ids
    BY DEF Ids
  <1>2. Forest(Ids', parents', set_count', sizes', root, rank)
    BY <1>1
  <1>3. Inv'
    BY <1>2 DEF Inv
  <1>4. Leader = root
    BY LeaderIs
  <1>5. Leader' = root
    BY <1>2, LeaderNextIs
  <1> QED
    BY <1>3, <1>4, <1>5 DEF Unmoved

LEMMA UnmovedUnchanged ==
    ASSUME Inv, UNCHANGED unionfind
    PROVE  Unmoved
  <1>1. PICK root, rank : Forest(Ids, parents, set_count, sizes, root, rank)
    BY DEF Inv
  <1>2. /\ parents' = parents /\ size' = size /\ set_count' = set_count
        /\ sizes' = sizes /\ size \in 0 .. MaxSize
    BY DEF unionfind, Inv
  <1>3. Forest(Ids, parents', set_count, sizes, root, rank)
    BY <1>1, <1>2
  <1> QED
    BY <1>1, <1>2, <1>3, UnmovedHolds

\* What the partition calls by other names.
LEMMA Names ==
    /\ Partition!Members = Ids
    /\ \A x \in Ids : Leader[x] = Root(parents, x)
    /\ \A x : Partition!Class(x) = {y \in Ids : Leader[y] = Leader[x]}
    /\ \A op, a, b, ret : Partition!Returns(op, a, b, ret) <=> Returns(op, a, b, ret)
    /\ \A op, a, b, ret :
          Returns(op, a, b, ret) /\ Unmoved => Partition!Asks(op, a, b, ret)
  <1>1. Partition!Members = Ids
    BY DEF Partition!Members
  <1>2. \A op, a, b, ret : Partition!Returns(op, a, b, ret) <=> Returns(op, a, b, ret)
    BY DEF Partition!Returns, Returns
  <1>3. \A x : Partition!Class(x) = {y \in Ids : Leader[y] = Leader[x]}
    BY <1>1 DEF Partition!Class, Leader
  <1>4. \A op, a, b, ret :
           Returns(op, a, b, ret) /\ Unmoved => Partition!Asks(op, a, b, ret)
    BY <1>2 DEF Partition!Asks, Unmoved, Leader
  <1> QED
    BY <1>1, <1>2, <1>3, <1>4 DEF Leader

\* The instance counts as this module does.
LEMMA CountsAgree == \A S : Partition!Cardinality(S) = Cardinality(S)
  BY DEF Cardinality, Partition!Cardinality, IsFiniteSet, Partition!IsFiniteSet

LEMMA FillStep ==
    ASSUME NEW n \in 0 .. MaxSize, Fill(n)
    PROVE  Inv' /\ Partition!Singletons(n)
  <1>1. n \in Nat
    BY MaxSizeAssumption
  <1> DEFINE id == [x \in 0 .. n - 1 |-> x]
  <1>2. Forest(0 .. n - 1, id, n, [x \in 0 .. n - 1 |-> 1],
               id, [x \in 0 .. n - 1 |-> 0])
    BY <1>1, FillForest
  <1>3. Forest(Ids', parents', set_count', sizes', id, [x \in 0 .. n - 1 |-> 0])
    BY <1>2 DEF Fill, Ids
  <1> HIDE DEF id
  <1>4. Leader' = id
    BY <1>3, LeaderNextIs
  <1>5. Leader' = [x \in 0 .. n - 1 |-> x] /\ set_count' = n
    BY <1>4 DEF Fill, id
  <1>6. Partition!Singletons(n)
    BY <1>5 DEF Partition!Singletons, Leader
  <1> QED
    BY <1>6, FillInv

LEMMA CopyStep ==
    ASSUME NEW n \in 0 .. MaxSize, NEW k \in 0 .. MaxSize, Copy(n, k)
    PROVE  Inv' /\ k \in 0 .. n /\ Partition!Copy(n, k)
  <1>1. /\ n \in Nat /\ k \in Nat /\ k <= n /\ (k = 0 => n = 0)
        /\ size' = n /\ set_count' = k
        /\ parents' = [x \in 0 .. n - 1 |-> x % k]
        /\ sizes' = [x \in 0 .. n - 1 |->
                       IF x < k THEN Cardinality({y \in 0 .. n - 1 : y % k = x}) ELSE 0]
    BY MaxSizeAssumption DEF Copy
  <1>2. Ids' = 0 .. n - 1
    BY <1>1 DEF Ids
  <1> DEFINE rank == [x \in 0 .. n - 1 |-> IF x < k THEN 1 ELSE 0]
  <1>3. Forest(Ids', parents', set_count', sizes', parents', rank)
    BY <1>1, <1>2, CopyForest
  <1> HIDE DEF rank
  <1>4. Leader' = parents'
    BY <1>3, LeaderNextIs
  <1>5. Inv'
    BY <1>1, <1>3 DEF Inv
  <1>6. Partition!Copy(n, k)
    <2>1. Leader' = [x \in 0 .. n - 1 |-> x % k]
      BY <1>1, <1>4
    <2>2. Returns("copy", n, k, 0)
      BY DEF Copy
    <2> QED
      BY <1>1, <2>1, <2>2, Names DEF Partition!Copy, Leader
  <1> QED
    BY <1>1, <1>5, <1>6

\* A find, or two of them, that compress.
LEMMA FindStep ==
    ASSUME Inv, NEW a \in Ids, NEW b \in Ids,
           \/ parents' = Compress(parents, a)
           \/ parents' = Found(a, b),
           UNCHANGED <<size, set_count, sizes>>
    PROVE  Unmoved
  <1>1. PICK root, rank : Forest(Ids, parents, set_count, sizes, root, rank)
    BY DEF Inv
  <1>2. Forest(Ids, parents', set_count, sizes, root, rank)
    BY <1>1, FindIs
  <1>3. size \in 0 .. MaxSize
    BY DEF Inv
  <1> QED
    BY <1>1, <1>2, <1>3, UnmovedHolds

LEMMA SetSizeIs ==
    ASSUME Inv, NEW a \in Ids
    PROVE  sizes[Root(parents, a)] = Cardinality(Partition!Class(a))
  <1>1. PICK root, rank : Forest(Ids, parents, set_count, sizes, root, rank)
    BY DEF Inv
  <1>2. Root(parents, a) = root[a] /\ Leader = root
    BY <1>1, FindIs, LeaderIs
  <1>3. root[a] \in Ids /\ root[root[a]] = root[a]
    <2>1. Ranked(Ids, parents, root, rank)
      BY <1>1 DEF Forest
    <2> QED
      BY <2>1, RootsAre
  <1>4. sizes[root[a]] = Cardinality(Tree(Ids, root, root[a]))
    BY <1>1, <1>3 DEF Forest, TreeSizes
  <1>5. Partition!Class(a) = Tree(Ids, root, root[a])
    BY <1>2, Names DEF Tree
  <1> QED
    BY <1>2, <1>4, <1>5

LEMMA UnionStep ==
    ASSUME Inv, NEW a, NEW b, Union(a, b)
    PROVE  Inv' /\ a \in Ids /\ b \in Ids /\ Partition!Union(a, b)
  <1>1. PICK root, rank : Forest(Ids, parents, set_count, sizes, root, rank)
    BY DEF Inv
  <1>2. a \in Ids /\ b \in Ids /\ Ids' = Ids
    BY DEF Union, Ids
  <1>3. /\ Inv'
        /\ \E low, top : /\ {low, top} = {root[a], root[b]} /\ low # top
                         /\ Forest(Ids, parents', set_count', sizes',
                                   LinkRoot(Ids, root, low, top),
                                   LinkRank(Ids, root, rank, low, top))
    <2>1. size \in 0 .. MaxSize
      BY DEF Inv
    <2> QED
      BY <1>1, <2>1, UnionInv
  <1>4. PICK low, top : /\ {low, top} = {root[a], root[b]} /\ low # top
                        /\ Forest(Ids, parents', set_count', sizes',
                                  LinkRoot(Ids, root, low, top),
                                  LinkRank(Ids, root, rank, low, top))
    BY <1>3
  <1>5. Leader = root
    BY <1>1, LeaderIs
  <1>6. Leader' = LinkRoot(Ids, root, low, top)
    <2>1. Forest(Ids', parents', set_count', sizes', LinkRoot(Ids, root, low, top),
                 LinkRank(Ids, root, rank, low, top))
      BY <1>2, <1>4
    <2> QED
      BY <2>1, LeaderNextIs
  <1>7. Leader[a] # Leader[b] /\ top \in {Leader[a], Leader[b]}
    BY <1>4, <1>5
  <1>8. Leader' = [x \in Partition!Members |->
                     IF x \in Partition!Class(a) \cup Partition!Class(b)
                     THEN top ELSE Leader[x]]
    <2>1. ASSUME NEW x \in Ids
          PROVE  (IF root[x] = low THEN top ELSE root[x])
                   = IF x \in Partition!Class(a) \cup Partition!Class(b)
                     THEN top ELSE root[x]
      <3>1. x \in Partition!Class(a) \cup Partition!Class(b)
              <=> root[x] = root[a] \/ root[x] = root[b]
        BY <1>2, <1>5, Names
      <3>2. root[x] = root[a] \/ root[x] = root[b] <=> root[x] = low \/ root[x] = top
        BY <1>4
      <3> QED
        BY <3>1, <3>2
    <2> QED
      BY <1>5, <1>6, <2>1, Names DEF LinkRoot
  <1>9. set_count' = set_count - 1 /\ Returns("union", a, b, 1)
    BY DEF Union
  <1>10. Partition!Union(a, b)
    BY <1>7, <1>8, <1>9, Names DEF Partition!Union, Leader
  <1> QED
    BY <1>2, <1>3, <1>10

LEMMA InitStep == Init => Inv /\ Partition!Init
  <1> SUFFICES ASSUME Init PROVE Inv /\ Partition!Init
    OBVIOUS
  <1> DEFINE id == [x \in 0 .. 0 - 1 |-> x]
  <1>1. 0 \in Nat /\ 0 - 1 = -1
    OBVIOUS
  <1>2. Forest(0 .. 0 - 1, id, 0, [x \in 0 .. 0 - 1 |-> 1],
               id, [x \in 0 .. 0 - 1 |-> 0])
    BY <1>1, FillForest
  <1>3. Forest(Ids, parents, set_count, sizes, id, [x \in 0 .. 0 - 1 |-> 0])
    BY <1>1, <1>2 DEF Init, Empty, Ids
  <1>4. Inv
    <2>1. size \in 0 .. MaxSize
      BY MaxSizeAssumption DEF Init, Empty
    <2> QED
      BY <1>3, <2>1 DEF Inv
  <1> HIDE DEF id
  <1>5. Leader = id
    BY <1>3, LeaderIs
  <1>6. Partition!Init
    BY <1>1, <1>5 DEF Partition!Init, Init, Empty, Leader, id
  <1> QED
    BY <1>4, <1>6

LEMMA NextStep == Inv /\ [Next]_vars => Inv' /\ [Partition!Next]_(Partition!partitionVars)
  <1> SUFFICES ASSUME Inv, [Next]_vars
               PROVE  Inv' /\ [Partition!Next]_(Partition!partitionVars)
    OBVIOUS
  <1>1. ASSUME NEW n \in 0 .. MaxSize, Create(n)
        PROVE  Inv' /\ Partition!Next
    <2>1. Fill(n) /\ Returns("init", n, 0, 0)
      BY <1>1 DEF Create
    <2>2. Inv' /\ Partition!Create(n)
      BY <2>1, FillStep, Names DEF Partition!Create
    <2> QED
      BY <2>2 DEF Partition!Next
  <1>2. ASSUME NEW n \in 0 .. MaxSize, CreateFails(n)
        PROVE  Inv' /\ Partition!Next
    <2>1. Fill(0) /\ Returns("init", n, 0, -1) /\ 0 \in 0 .. MaxSize
      BY <1>2, MaxSizeAssumption DEF CreateFails
    <2>2. Inv' /\ Partition!CreateFails(n)
      BY <2>1, FillStep, Names DEF Partition!CreateFails
    <2> QED
      BY <2>2 DEF Partition!Next
  <1>3. ASSUME NEW n \in 0 .. MaxSize, CopyFails(n)
        PROVE  Inv' /\ Partition!Next
    <2>1. Unmoved
      BY <1>3, UnmovedUnchanged DEF CopyFails
    <2>2. Partition!Asks("copy", n, 0, -1)
      BY <1>3, <2>1, Names DEF CopyFails
    <2> QED
      BY <2>1, <2>2 DEF Partition!Next, Unmoved
  <1>4. ASSUME NEW n \in 0 .. MaxSize, NEW k \in 0 .. MaxSize, Copy(n, k)
        PROVE  Inv' /\ Partition!Next
    BY <1>4, CopyStep DEF Partition!Next
  <1>5. CASE Destroy
    <2>1. Fill(0) /\ Returns("destroy", 0, 0, 0) /\ 0 \in 0 .. MaxSize
      BY <1>5, MaxSizeAssumption DEF Destroy
    <2>2. Inv' /\ Partition!Destroy
      BY <2>1, FillStep, Names DEF Partition!Destroy
    <2> QED
      BY <2>2 DEF Partition!Next
  <1>6. CASE Reset
    <2>1. Fill(size) /\ Returns("reset", 0, 0, 0) /\ size \in 0 .. MaxSize
      BY <1>6 DEF Reset, Inv
    <2>2. Cardinality(Partition!Members) = size
      <3>1. size \in Nat /\ 0 \in Int /\ size - 1 \in Int
        BY <2>1
      <3>2. Cardinality(0 .. size - 1) = IF 0 <= size - 1 THEN (size - 1) - 0 + 1 ELSE 0
        BY <3>1, FS_Interval
      <3> QED
        BY <3>1, <3>2, Names DEF Ids
    <2>3. Inv' /\ Partition!Reset
      BY <2>1, <2>2, CountsAgree, FillStep, Names DEF Partition!Reset
    <2> QED
      BY <2>3 DEF Partition!Next
  <1>7. ASSUME NEW x \in 0 .. MaxSize, Find(x) \/ FindConst(x)
        PROVE  Inv' /\ Partition!Next
    <2>1. x \in Ids /\ Returns("find", x, 0, Root(parents, x))
      BY <1>7 DEF Find, FindConst
    <2>2. Unmoved
      <3>1. CASE Find(x)
        BY <2>1, <3>1, FindStep DEF Find
      <3>2. CASE FindConst(x)
        BY <3>2, UnmovedUnchanged DEF FindConst
      <3> QED
        BY <1>7, <3>1, <3>2
    <2>3. Partition!Asks("find", x, 0, Leader[x])
      BY <2>1, <2>2, Names
    <2> QED
      BY <2>1, <2>2, <2>3, Names DEF Partition!Next, Unmoved, Leader
  <1>8. ASSUME NEW x \in 0 .. MaxSize, SetSize(x)
        PROVE  Inv' /\ Partition!Next
    <2>1. x \in Ids /\ Returns("set_size", x, 0, sizes[Root(parents, x)])
      BY <1>8 DEF SetSize
    <2>2. Unmoved
      BY <1>8, <2>1, FindStep DEF SetSize
    <2>3. sizes[Root(parents, x)] = Cardinality(Partition!Class(x))
      BY <2>1, SetSizeIs
    <2>4. Partition!Asks("set_size", x, 0, Cardinality(Partition!Class(x)))
      BY <2>1, <2>2, <2>3, Names
    <2> QED
      BY <2>1, <2>2, <2>4, CountsAgree, Names DEF Partition!Next, Unmoved
  <1>9. ASSUME NEW a \in 0 .. MaxSize, NEW b \in 0 .. MaxSize, UnionSame(a, b)
        PROVE  Inv' /\ Partition!Next
    <2>1. /\ a \in Ids /\ b \in Ids /\ Root(parents, a) = Root(parents, b)
          /\ Returns("union", a, b, 0)
      BY <1>9 DEF UnionSame
    <2>2. Unmoved
      BY <1>9, <2>1, FindStep DEF UnionSame
    <2>3. Leader[a] = Leader[b] /\ Partition!Asks("union", a, b, 0)
      BY <2>1, <2>2, Names
    <2> QED
      BY <2>1, <2>2, <2>3, Names DEF Partition!Next, Unmoved, Leader
  <1>10. ASSUME NEW a \in 0 .. MaxSize, NEW b \in 0 .. MaxSize, Union(a, b)
         PROVE  Inv' /\ Partition!Next
    BY <1>10, UnionStep, Names DEF Partition!Next
  <1>11. ASSUME NEW a \in 0 .. MaxSize, NEW b \in 0 .. MaxSize, Same(a, b)
         PROVE  Inv' /\ Partition!Next
    <2>1. /\ a \in Ids /\ b \in Ids
          /\ Returns("same", a, b, IF Leader[a] = Leader[b] THEN 1 ELSE 0)
      BY <1>11, Names DEF Same
    <2>2. Unmoved
      BY <1>11, <2>1, FindStep DEF Same
    <2>3. Partition!Asks("same", a, b, IF Leader[a] = Leader[b] THEN 1 ELSE 0)
      BY <2>1, <2>2, Names
    <2> QED
      BY <2>1, <2>2, <2>3, Names DEF Partition!Next, Unmoved, Leader
  <1>12. ASSUME NEW a \in 0 .. MaxSize, NEW b \in 0 .. MaxSize, OutOfRange(a, b)
         PROVE  Inv' /\ Partition!Next
    <2>1. Unmoved
      BY <1>12, UnmovedUnchanged DEF OutOfRange
    <2>2. ASSUME NEW op \in {"union", "same"}, ~ ({a, b} \subseteq Ids),
                 Returns(op, a, b, -1)
          PROVE  Partition!Next
      <3>1. Partition!Asks(op, a, b, -1)
        BY <2>1, <2>2, Names
      <3> QED
        BY <2>2, <3>1, Names DEF Partition!Next
    <2>3. ASSUME a \notin Ids, Returns("find", a, 0, -1) \/ Returns("set_size", a, 0, 0)
          PROVE  Partition!Next
      <3>1. Partition!Asks("find", a, 0, -1) \/ Partition!Asks("set_size", a, 0, 0)
        BY <2>1, <2>3, Names
      <3>2. a \in (0 .. MaxSize) \ Partition!Members
        BY <2>3, Names
      <3> QED
        BY <3>1, <3>2 DEF Partition!Next
    <2> QED
      BY <1>12, <2>1, <2>2, <2>3 DEF OutOfRange, INVALID, Unmoved
  <1>13. CASE UNCHANGED vars
    <2>1. Unmoved /\ answer' = answer
      BY <1>13, UnmovedUnchanged DEF vars, unionfind
    <2> QED
      BY <2>1 DEF Unmoved, Partition!partitionVars, Leader
  <1> QED
    BY <1>1, <1>2, <1>3, <1>4, <1>5, <1>6, <1>7, <1>8, <1>9, <1>10, <1>11,
       <1>12, <1>13 DEF Next

-----------------------------------------------------------------------------

\* The forest is low and counts itself right, whatever was united and found,
\* however many elements it has (unionfind_union's union by size).
THEOREM LowForestHolds == Spec => []LowForest
  <1>1. Init => Inv
    BY InitStep
  <1>2. Inv /\ [Next]_vars => Inv'
    BY NextStep
  <1>3. Inv => LowForest
    BY InvMeans
  <1> QED
    BY <1>1, <1>2, <1>3, PTL DEF Spec

\* Every behaviour of the forest is one of the partition that its callers
\* see: no compression shows, and every answer is the partition's.
THEOREM UnionFindImplementsPartition == Spec => ImplementsPartition
  <1>1. Init => Inv /\ Partition!Init
    BY InitStep
  <1>2. Inv /\ [Next]_vars => Inv' /\ [Partition!Next]_(Partition!partitionVars)
    BY NextStep
  <1> QED
    BY <1>1, <1>2, PTL DEF Spec, ImplementsPartition, Partition!Spec

-----------------------------------------------------------------------------
(* The bytes of a bitset *)

\* A position is its byte and its place in the byte.
LEMMA DivMod ==
    ASSUME NEW n \in Nat, NEW k \in Nat \ {0}
    PROVE  /\ n \div k \in Nat /\ (n % k) \in 0 .. k - 1
           /\ n = (n \div k) * k + (n % k)
  OBVIOUS

LEMMA DivModIs ==
    ASSUME NEW k \in Nat \ {0}, NEW q \in Nat, NEW r \in 0 .. k - 1
    PROVE  /\ q * k + r \in Nat
           /\ (q * k + r) \div k = q
           /\ (q * k + r) % k = r
  OBVIOUS

\* Of two bytes the later one begins where the earlier has ended, or later.
LEMMA LaterByte ==
    ASSUME NEW k \in Nat \ {0}, NEW a \in Int, NEW b \in Int, a < b
    PROVE  a * k + k <= b * k
  <1>1. b - a >= 1
    OBVIOUS
  <1>2. k * (b - a) >= k
    BY <1>1
  <1> QED
    BY <1>2

\* The bytes of n positions: as many as are full, and one for what is left.
LEMMA NumBytesIs ==
    ASSUME NEW n \in Nat
    PROVE  /\ Bits!NumBytes(n) \in Nat
           /\ Bits!NumBytes(n) = IF n % CharBit = 0 THEN n \div CharBit ELSE (n \div CharBit) + 1
           /\ n = (n \div CharBit) * CharBit + (n % CharBit)
           /\ n \div CharBit \in Nat /\ (n % CharBit) \in Bits!Byte
  <1> DEFINE k == CharBit
             q == n \div k
             r == n % k
  <1>1. k \in Nat \ {0}
    BY BitsAssumption
  <1>2. q \in Nat /\ r \in 0 .. k - 1 /\ n = q * k + r
    BY <1>1, DivMod
  <1> HIDE DEF q, r, k
  <1>3. CASE r = 0
    <2>1. n + k - 1 = q * k + (k - 1) /\ k - 1 \in 0 .. k - 1
      BY <1>1, <1>2, <1>3
    <2>2. (n + k - 1) \div k = q
      BY <1>1, <1>2, <2>1, DivModIs
    <2> QED
      BY <1>2, <1>3, <2>2 DEF Bits!NumBytes, Bits!Byte, k, q, r
  <1>4. CASE r # 0
    <2>1. /\ n + k - 1 = (q + 1) * k + (r - 1)
          /\ r - 1 \in 0 .. k - 1 /\ q + 1 \in Nat
      BY <1>1, <1>2, <1>4
    <2>2. ((q + 1) * k + (r - 1)) \div k = q + 1
      BY <1>1, <2>1, DivModIs
    <2>3. (n + k - 1) \div k = q + 1
      BY <2>1, <2>2
    <2> QED
      BY <1>2, <1>4, <2>3 DEF Bits!NumBytes, Bits!Byte, k, q, r
  <1> QED
    BY <1>3, <1>4

\* The place b of byte i is the position i * CharBit + b, and no other place is.
LEMMA PlaceIs ==
    ASSUME NEW pos \in Nat, NEW i \in Nat, NEW b \in Bits!Byte
    PROVE  /\ i * CharBit + b \in Nat
           /\ pos = i * CharBit + b <=> i = pos \div CharBit /\ b = pos % CharBit
  <1>1. CharBit \in Nat \ {0} /\ b \in 0 .. CharBit - 1
    BY BitsAssumption DEF Bits!Byte
  <1>2. pos = (pos \div CharBit) * CharBit + (pos % CharBit)
    BY <1>1, DivMod
  <1>3. /\ i * CharBit + b \in Nat
        /\ (i * CharBit + b) \div CharBit = i /\ (i * CharBit + b) % CharBit = b
    BY <1>1, DivModIs
  <1> QED
    BY <1>2, <1>3

\* The place of a position below n is in the bytes of n positions.
LEMMA PlaceExists ==
    ASSUME NEW n \in Nat, NEW pos \in 0 .. n - 1
    PROVE  /\ pos \div CharBit \in 0 .. Bits!NumBytes(n) - 1 /\ (pos % CharBit) \in Bits!Byte
           /\ pos \in Nat /\ (pos \div CharBit) * CharBit + (pos % CharBit) = pos
  <1> DEFINE i == pos \div CharBit
             q == n \div CharBit
  <1>1. CharBit \in Nat \ {0}
    BY BitsAssumption
  <1>2. pos \in Nat /\ i \in Nat /\ (pos % CharBit) \in Bits!Byte /\ pos = i * CharBit + (pos % CharBit)
    <2>1. pos \in Nat
      OBVIOUS
    <2> QED
      BY <1>1, <2>1, DivMod DEF Bits!Byte
  <1>3. /\ Bits!NumBytes(n) \in Nat /\ q \in Nat
        /\ Bits!NumBytes(n) = IF n % CharBit = 0 THEN q ELSE q + 1
        /\ n = q * CharBit + (n % CharBit) /\ (n % CharBit) \in Bits!Byte
    BY NumBytesIs
  <1> HIDE DEF i, q
  <1>4. CASE i > q
    <2>1. q * CharBit + CharBit <= i * CharBit
      BY <1>1, <1>2, <1>3, <1>4, LaterByte
    <2> QED
      BY <1>1, <1>2, <1>3, <2>1 DEF Bits!Byte
  <1>5. CASE i = q /\ n % CharBit = 0
    BY <1>1, <1>2, <1>3, <1>5 DEF Bits!Byte
  <1>6. CASE i < q \/ (i = q /\ n % CharBit # 0)
    BY <1>2, <1>3, <1>6 DEF i
  <1> QED
    BY <1>2, <1>3, <1>4, <1>5, <1>6

\* Which places are positions below n: all but those the mask of the last
\* byte leaves out.
LEMMA MaskIs ==
    ASSUME NEW n \in Nat, NEW i \in 0 .. Bits!NumBytes(n) - 1, NEW b \in Bits!Byte
    PROVE  /\ i * CharBit + b \in Nat
           /\ i * CharBit + b < n <=>
                 (n % CharBit # 0 /\ i = Bits!NumBytes(n) - 1 => b \in Bits!LastByteMask(n))
           /\ i < n \div CharBit => i * CharBit + b < n
           /\ n % CharBit # 0 => Bits!LastByteMask(n) \subseteq Bits!Byte /\ Bits!NumBytes(n) - 1 = n \div CharBit
  <1> DEFINE q == n \div CharBit
             r == n % CharBit
  <1>1. CharBit \in Nat \ {0} /\ i \in Nat /\ b \in 0 .. CharBit - 1
    BY BitsAssumption, NumBytesIs DEF Bits!Byte
  <1>2. /\ Bits!NumBytes(n) \in Nat /\ q \in Nat
        /\ Bits!NumBytes(n) = IF r = 0 THEN q ELSE q + 1
        /\ n = q * CharBit + r /\ r \in 0 .. CharBit - 1
    BY NumBytesIs DEF Bits!Byte
  <1>3. i * CharBit + b \in Nat
    BY <1>1, DivModIs
  <1>4. Bits!LastByteMask(n) = IF r = 0 THEN Bits!Byte ELSE 0 .. r - 1
    BY DEF Bits!LastByteMask
  <1> HIDE DEF q, r
  <1>5. CASE i < q
    <2>1. i * CharBit + CharBit <= q * CharBit
      BY <1>1, <1>2, <1>5, LaterByte
    <2>2. i * CharBit + b < n
      BY <1>1, <1>2, <1>3, <2>1
    <2>3. ~(r # 0 /\ i = Bits!NumBytes(n) - 1)
      BY <1>2, <1>5
    <2> QED
      BY <1>1, <1>2, <1>3, <1>4, <2>2, <2>3 DEF q, r, Bits!Byte
  <1>6. CASE i >= q
    <2>1. i = q /\ r # 0 /\ Bits!NumBytes(n) - 1 = q
      BY <1>1, <1>2, <1>6
    <2>2. i * CharBit + b < n <=> b < r
      BY <1>1, <1>2, <1>3, <2>1
    <2> QED
      BY <1>1, <1>2, <1>3, <1>4, <2>1, <2>2 DEF q, r, Bits!Byte
  <1> QED
    BY <1>1, <1>2, <1>5, <1>6

-----------------------------------------------------------------------------
(* The bytes of the positions *)

InRange(n, ps) == n \in Nat /\ ps \subseteq 0 .. n - 1

BitInv == InRange(bitSize, members) /\ bits = Bits!Packed(bitSize, members)

\* Clearing the tail leaves of the bytes f the positions below n.
LEMMA TailClearedIs ==
    ASSUME NEW n \in Nat, NEW f \in [0 .. Bits!NumBytes(n) - 1 -> SUBSET Bits!Byte]
    PROVE  Bits!TailCleared(n, f)
             = [i \in 0 .. Bits!NumBytes(n) - 1 |-> {b \in f[i] : i * CharBit + b < n}]
  <1>1. Bits!NumBytes(n) \in Nat
    BY NumBytesIs
  <1>2. CASE n % CharBit = 0
    <2>1. \A i \in 0 .. Bits!NumBytes(n) - 1 : \A b \in Bits!Byte : i * CharBit + b < n
      BY <1>2, MaskIs
    <2>2. \A i \in 0 .. Bits!NumBytes(n) - 1 : {b \in f[i] : i * CharBit + b < n} = f[i]
      BY <2>1
    <2> QED
      BY <1>2, <2>2 DEF Bits!TailCleared
  <1>3. CASE n % CharBit # 0
    <2> DEFINE last == Bits!NumBytes(n) - 1
    <2>1. last \in 0 .. Bits!NumBytes(n) - 1
      BY <1>1, <1>3, NumBytesIs
    <2>2. \A i \in 0 .. Bits!NumBytes(n) - 1 : \A b \in Bits!Byte :
             i * CharBit + b < n <=> (i = last => b \in Bits!LastByteMask(n))
      BY <1>3, MaskIs
    <2>3. Bits!TailCleared(n, f) = [f EXCEPT ![last] = @ \cap Bits!LastByteMask(n)]
      BY <1>3 DEF Bits!TailCleared
    <2> HIDE DEF last
    <2>4. \A i \in 0 .. Bits!NumBytes(n) - 1 : {b \in f[i] : i * CharBit + b < n}
             = IF i = last THEN f[i] \cap Bits!LastByteMask(n) ELSE f[i]
      BY <2>2
    <2> QED
      BY <2>1, <2>3, <2>4
  <1> QED
    BY <1>2, <1>3

LEMMA PackedIs ==
    ASSUME NEW n, NEW ps
    PROVE  /\ Bits!Packed(n, ps) \in [0 .. Bits!NumBytes(n) - 1 -> SUBSET Bits!Byte]
           /\ DOMAIN Bits!Packed(n, ps) = 0 .. Bits!NumBytes(n) - 1
           /\ \A i \in 0 .. Bits!NumBytes(n) - 1 : \A b \in Bits!Byte :
                 b \in Bits!Packed(n, ps)[i] <=> i * CharBit + b \in ps
  BY DEF Bits!Packed

\* Bytes that hold just the positions ps below n, once their tail is cleared.
LEMMA ClearedPacked ==
    ASSUME NEW n \in Nat, NEW ps \in SUBSET (0 .. n - 1),
           NEW f \in [0 .. Bits!NumBytes(n) - 1 -> SUBSET Bits!Byte],
           \A i \in 0 .. Bits!NumBytes(n) - 1 : \A b \in Bits!Byte :
              i * CharBit + b < n => (b \in f[i] <=> i * CharBit + b \in ps)
    PROVE  Bits!TailCleared(n, f) = Bits!Packed(n, ps)
  <1>1. \A i \in 0 .. Bits!NumBytes(n) - 1 : \A b \in Bits!Byte :
           /\ i * CharBit + b \in Nat
           /\ i * CharBit + b \in ps => i * CharBit + b < n
    BY MaskIs
  <1>2. \A i \in 0 .. Bits!NumBytes(n) - 1 :
           {b \in f[i] : i * CharBit + b < n} = {b \in Bits!Byte : i * CharBit + b \in ps}
    BY <1>1
  <1>3. Bits!TailCleared(n, f)
          = [i \in 0 .. Bits!NumBytes(n) - 1 |-> {b \in f[i] : i * CharBit + b < n}]
    BY TailClearedIs
  <1> QED
    BY <1>2, <1>3 DEF Bits!Packed

\* Bytes that hold just the positions ps.
LEMMA AlreadyPacked ==
    ASSUME NEW n, NEW ps, NEW f \in [0 .. Bits!NumBytes(n) - 1 -> SUBSET Bits!Byte],
           \A i \in 0 .. Bits!NumBytes(n) - 1 : \A b \in Bits!Byte :
              b \in f[i] <=> i * CharBit + b \in ps
    PROVE  f = Bits!Packed(n, ps)
  <1>1. \A i \in 0 .. Bits!NumBytes(n) - 1 : f[i] = {b \in Bits!Byte : i * CharBit + b \in ps}
    OBVIOUS
  <1> QED
    BY <1>1 DEF Bits!Packed

-----------------------------------------------------------------------------
(* Every call keeps the bytes those of the positions *)

LEMMA BitParts ==
    ASSUME BitInv
    PROVE  /\ bitSize \in Nat /\ members \in SUBSET (0 .. bitSize - 1)
           /\ bits \in [0 .. Bits!NumBytes(bitSize) - 1 -> SUBSET Bits!Byte]
           /\ DOMAIN bits = 0 .. Bits!NumBytes(bitSize) - 1
           /\ \A i \in 0 .. Bits!NumBytes(bitSize) - 1 : \A b \in Bits!Byte :
                 b \in bits[i] <=> i * CharBit + b \in members
           /\ \A i \in 0 .. Bits!NumBytes(bitSize) - 1 : i \in Nat
           /\ Bits!NumBytes(bitSize) \in Nat
  <1>1. bitSize \in Nat /\ bits = Bits!Packed(bitSize, members) /\ members \subseteq 0 .. bitSize - 1
    BY DEF BitInv, InRange
  <1>2. Bits!NumBytes(bitSize) \in Nat
    BY <1>1, NumBytesIs
  <1>3. \A i \in 0 .. Bits!NumBytes(bitSize) - 1 : i \in Nat
    BY <1>2
  <1> QED
    BY <1>1, <1>2, <1>3, PackedIs

\* A call that leaves the bytes f, once their tail is cleared, of a bitset of
\* the same size.
LEMMA ChangeInv ==
    ASSUME BitInv, NEW ps \in SUBSET (0 .. bitSize - 1), NEW b,
           b = Bits!Packed(bitSize, ps), Bits!Changes(b, ps)
    PROVE  BitInv'
  BY BitParts DEF BitInv, InRange, Bits!Changes, Bits!Becomes

LEMMA InitBits == Bits!Init => BitInv
  <1> SUFFICES ASSUME Bits!Init PROVE BitInv
    OBVIOUS
  <1>1. bitSize = 0 /\ bits = <<>> /\ members = {}
    BY DEF Bits!Init
  <1>2. Bits!NumBytes(0) = 0
    BY BitsAssumption, NumBytesIs
  <1>3. Bits!Packed(0, {}) \in [1 .. 0 -> SUBSET Bits!Byte]
    BY <1>2, PackedIs
  <1>4. Bits!Packed(0, {}) = <<>>
    BY <1>3, EmptyIs
  <1> QED
    BY <1>1, <1>4 DEF BitInv, InRange

LEMMA BitCreateInv ==
    ASSUME BitInv, NEW n \in Nat, Bits!Create(n)
    PROVE  BitInv'
  <1>1. bitSize = 0 /\ bitSize' = n /\ bits' = Bits!Resized(n) /\ members' = {}
    BY DEF Bits!Create, Bits!Becomes
  <1>2. Bits!NumBytes(0) = 0 /\ Bits!NumBytes(n) \in Nat
    BY BitsAssumption, NumBytesIs
  <1> DEFINE f == [i \in 0 .. Bits!NumBytes(n) - 1 |-> IF i < Bits!NumBytes(bitSize) THEN bits[i] ELSE {}]
  <1>3. f = [i \in 0 .. Bits!NumBytes(n) - 1 |-> {}]
    BY <1>1, <1>2
  <1>4. Bits!TailCleared(n, f) = Bits!Packed(n, {})
    <2>1. f \in [0 .. Bits!NumBytes(n) - 1 -> SUBSET Bits!Byte]
      BY <1>3
    <2>2. \A i \in 0 .. Bits!NumBytes(n) - 1 : f[i] = {}
      BY <1>3
    <2> HIDE DEF f
    <2> QED
      BY <2>1, <2>2, ClearedPacked
  <1>5. bits' = Bits!Packed(n, {})
    BY <1>1, <1>4 DEF Bits!Resized
  <1> QED
    BY <1>1, <1>5 DEF BitInv, InRange

LEMMA BitCopyInv ==
    ASSUME BitInv, NEW n \in Nat, NEW ps \in SUBSET (0 .. n - 1), Bits!Copy(n, ps)
    PROVE  BitInv'
  <1> DEFINE f == [i \in 0 .. Bits!NumBytes(n) - 1 |-> IF i < Bits!NumBytes(bitSize) THEN bits[i] ELSE {}]
  <1>1. bitSize' = n /\ members' = ps /\ bits' = [i \in DOMAIN Bits!Resized(n) |-> Bits!Packed(n, ps)[i]]
    BY DEF Bits!Copy, Bits!Becomes
  <1>2. DOMAIN Bits!Resized(n) = 0 .. Bits!NumBytes(n) - 1
    <2>1. DOMAIN f = 0 .. Bits!NumBytes(n) - 1
      OBVIOUS
    <2>2. Bits!Resized(n) = Bits!TailCleared(n, f)
      BY DEF Bits!Resized
    <2> HIDE DEF f
    <2> QED
      BY <2>1, <2>2 DEF Bits!TailCleared
  <1>3. bits' = Bits!Packed(n, ps)
    BY <1>1, <1>2, PackedIs
  <1> QED
    BY <1>1, <1>3 DEF BitInv, InRange

LEMMA BitDestroyInv ==
    ASSUME BitInv, Bits!Destroy
    PROVE  BitInv'
  <1>1. bitSize' = 0 /\ bits' = <<>> /\ members' = {}
    BY DEF Bits!Destroy, Bits!Becomes
  <1>2. Bits!NumBytes(0) = 0
    BY BitsAssumption, NumBytesIs
  <1>3. Bits!Packed(0, {}) \in [1 .. 0 -> SUBSET Bits!Byte]
    BY <1>2, PackedIs
  <1>4. Bits!Packed(0, {}) = <<>>
    BY <1>3, EmptyIs
  <1> QED
    BY <1>1, <1>4 DEF BitInv, InRange

\* Changing one place of the bytes changes one position.
LEMMA OnePlace ==
    ASSUME BitInv, NEW pos \in 0 .. bitSize - 1, NEW ps \in SUBSET (0 .. bitSize - 1),
           NEW byte \in SUBSET Bits!Byte,
           members \ {pos} = ps \ {pos},
           bits[pos \div CharBit] \ {pos % CharBit} = byte \ {pos % CharBit},
           (pos % CharBit) \in byte <=> pos \in ps
    PROVE  [bits EXCEPT ![pos \div CharBit] = byte] = Bits!Packed(bitSize, ps)
  <1> DEFINE at == pos \div CharBit
             place == pos % CharBit
             f == [bits EXCEPT ![at] = byte]
  <1>1. /\ at \in 0 .. Bits!NumBytes(bitSize) - 1 /\ place \in Bits!Byte /\ pos \in Nat
    BY BitParts, PlaceExists
  <1>2. \A i \in 0 .. Bits!NumBytes(bitSize) - 1 : \A b \in Bits!Byte :
           pos = i * CharBit + b <=> i = at /\ b = place
    BY <1>1, BitParts, PlaceIs
  <1> HIDE DEF at, place
  <1>3. f \in [0 .. Bits!NumBytes(bitSize) - 1 -> SUBSET Bits!Byte]
    BY <1>1, BitParts
  <1>4. \A i \in 0 .. Bits!NumBytes(bitSize) - 1 : \A b \in Bits!Byte :
           b \in f[i] <=> i * CharBit + b \in ps
    <2> SUFFICES ASSUME NEW i \in 0 .. Bits!NumBytes(bitSize) - 1, NEW b \in Bits!Byte
                 PROVE  b \in f[i] <=> i * CharBit + b \in ps
      OBVIOUS
    <2>1. b \in bits[i] <=> i * CharBit + b \in members
      BY BitParts
    <2>2. f[i] = IF i = at THEN byte ELSE bits[i]
      BY <1>1, BitParts
    <2> HIDE DEF f
    <2>3. CASE i = at /\ b = place
      BY <1>2, <2>2, <2>3 DEF at, place
    <2>4. CASE i = at /\ b # place
      <3>1. i * CharBit + b # pos
        BY <1>2, <2>4
      <3>2. b \in byte <=> b \in bits[at]
        BY <2>4 DEF at, place
      <3> QED
        BY <2>1, <2>2, <2>4, <3>1, <3>2
    <2>5. CASE i # at
      <3>1. i * CharBit + b # pos
        BY <1>2, <2>5
      <3> QED
        BY <2>1, <2>2, <2>5, <3>1
    <2> QED
      BY <2>3, <2>4, <2>5
  <1> HIDE DEF f
  <1>5. f = Bits!Packed(bitSize, ps)
    BY <1>3, <1>4, AlreadyPacked
  <1> QED
    BY <1>5 DEF f, at

LEMMA PutInv ==
    ASSUME BitInv, NEW pos \in Nat, NEW value \in BOOLEAN, Bits!Put(pos, value)
    PROVE  BitInv'
  <1> DEFINE at == pos \div CharBit
             place == pos % CharBit
             byte == IF value THEN bits[at] \cup {place} ELSE bits[at] \ {place}
             ps == IF value THEN members \cup {pos} ELSE members \ {pos}
  <1>1. pos \in 0 .. bitSize - 1 /\ bitSize \in Nat
    BY BitParts DEF Bits!Put
  <1>2. at \in 0 .. Bits!NumBytes(bitSize) - 1 /\ place \in Bits!Byte
    BY <1>1, PlaceExists
  <1>3. byte \in SUBSET Bits!Byte /\ ps \in SUBSET (0 .. bitSize - 1)
    BY <1>1, <1>2, BitParts
  <1>4. Bits!Changes([bits EXCEPT ![at] = byte], ps)
    BY DEF Bits!Put
  <1>5. /\ members \ {pos} = ps \ {pos}
        /\ bits[at] \ {place} = byte \ {place}
        /\ place \in byte <=> pos \in ps
    OBVIOUS
  <1> HIDE DEF byte, ps
  <1>6. [bits EXCEPT ![at] = byte] = Bits!Packed(bitSize, ps)
    BY <1>1, <1>3, <1>5, OnePlace
  <1> QED
    BY <1>3, <1>4, <1>6, ChangeInv

LEMMA FlipInv ==
    ASSUME BitInv, NEW pos \in Nat, Bits!Flip(pos)
    PROVE  BitInv'
  <1> DEFINE at == pos \div CharBit
             place == pos % CharBit
             byte == Bits!Differ(bits[at], {place})
             ps == Bits!Differ(members, {pos})
  <1>1. pos \in 0 .. bitSize - 1 /\ bitSize \in Nat
    BY BitParts DEF Bits!Flip
  <1>2. at \in 0 .. Bits!NumBytes(bitSize) - 1 /\ place \in Bits!Byte /\ at * CharBit + place = pos
    BY <1>1, PlaceExists
  <1>3. byte \in SUBSET Bits!Byte /\ ps \in SUBSET (0 .. bitSize - 1)
    BY <1>1, <1>2, BitParts DEF Bits!Differ
  <1>4. Bits!Changes([bits EXCEPT ![at] = byte], ps)
    BY DEF Bits!Flip
  <1>5. place \in bits[at] <=> pos \in members
    BY <1>2, BitParts
  <1>6. /\ members \ {pos} = ps \ {pos}
        /\ bits[at] \ {place} = byte \ {place}
        /\ place \in byte <=> pos \in ps
    BY <1>5 DEF Bits!Differ
  <1> HIDE DEF byte, ps
  <1>7. [bits EXCEPT ![at] = byte] = Bits!Packed(bitSize, ps)
    BY <1>1, <1>3, <1>6, OnePlace
  <1> QED
    BY <1>3, <1>4, <1>7, ChangeInv

\* The calls that go through all bytes and then clear the tail.
LEMMA AllBytesInv ==
    ASSUME BitInv, NEW ps \in SUBSET (0 .. bitSize - 1),
           NEW f \in [DOMAIN bits -> SUBSET Bits!Byte],
           \A i \in DOMAIN bits : \A b \in Bits!Byte :
              i * CharBit + b < bitSize => (b \in f[i] <=> i * CharBit + b \in ps),
           Bits!Changes(Bits!TailCleared(bitSize, f), ps)
    PROVE  BitInv'
  <1>1. Bits!TailCleared(bitSize, f) = Bits!Packed(bitSize, ps)
    BY BitParts, ClearedPacked
  <1> QED
    BY <1>1, ChangeInv

\* Of the places below the size, those of the byte i are positions.
LEMMA Places ==
    ASSUME BitInv, NEW i \in DOMAIN bits, NEW b \in Bits!Byte
    PROVE  /\ i * CharBit + b \in Nat /\ b \in bits[i] <=> i * CharBit + b \in members
           /\ \A ps : b \in Bits!Packed(bitSize, ps)[i] <=> i * CharBit + b \in ps
           /\ i * CharBit + b < bitSize => i * CharBit + b \in 0 .. bitSize - 1
  BY BitParts, MaskIs, PackedIs

LEMMA SetAllInv ==
    ASSUME BitInv, Bits!SetAll
    PROVE  BitInv'
  <1> DEFINE f == [i \in DOMAIN bits |-> Bits!Byte]
  <1>1. f \in [DOMAIN bits -> SUBSET Bits!Byte]
    OBVIOUS
  <1>2. Bits!Changes(Bits!TailCleared(bitSize, f), 0 .. bitSize - 1)
    BY DEF Bits!SetAll
  <1>3. \A i \in DOMAIN bits : \A b \in Bits!Byte :
           i * CharBit + b < bitSize => (b \in f[i] <=> i * CharBit + b \in 0 .. bitSize - 1)
    BY Places
  <1> HIDE DEF f
  <1> QED
    BY <1>1, <1>2, <1>3, AllBytesInv

LEMMA ResetAllInv ==
    ASSUME BitInv, Bits!ResetAll
    PROVE  BitInv'
  <1> DEFINE f == [i \in DOMAIN bits |-> {}]
  <1>1. f = Bits!Packed(bitSize, {})
    BY BitParts DEF Bits!Packed
  <1> QED
    BY <1>1, ChangeInv DEF Bits!ResetAll

LEMMA FlipAllInv ==
    ASSUME BitInv, Bits!FlipAll
    PROVE  BitInv'
  <1> DEFINE f == [i \in DOMAIN bits |-> Bits!Byte \ bits[i]]
             ps == (0 .. bitSize - 1) \ members
  <1>1. f \in [DOMAIN bits -> SUBSET Bits!Byte]
    OBVIOUS
  <1>2. Bits!Changes(Bits!TailCleared(bitSize, f), ps)
    BY DEF Bits!FlipAll
  <1>3. \A i \in DOMAIN bits : \A b \in Bits!Byte :
           i * CharBit + b < bitSize => (b \in f[i] <=> i * CharBit + b \in ps)
    BY Places
  <1> HIDE DEF f
  <1> QED
    BY <1>1, <1>2, <1>3, AllBytesInv

LEMMA WithInv ==
    ASSUME BitInv, NEW ps \in SUBSET (0 .. bitSize - 1), Bits!And(ps) \/ Bits!Or(ps) \/ Bits!Xor(ps)
    PROVE  BitInv'
  <1> DEFINE other(i) == Bits!Packed(bitSize, ps)[i]
  <1>0. \A i \in DOMAIN bits : bits[i] \in SUBSET Bits!Byte /\ other(i) \in SUBSET Bits!Byte
    BY BitParts, PackedIs
  <1>1. CASE Bits!And(ps)
    <2> DEFINE f == [i \in DOMAIN bits |-> bits[i] \cap other(i)]
    <2>1. f \in [DOMAIN bits -> SUBSET Bits!Byte]
      BY <1>0
    <2>2. \A i \in DOMAIN bits : \A b \in Bits!Byte :
             i * CharBit + b < bitSize => (b \in f[i] <=> i * CharBit + b \in members \cap ps)
      BY Places
    <2>3. Bits!Changes(Bits!TailCleared(bitSize, f), members \cap ps)
      BY <1>1 DEF Bits!And
    <2> HIDE DEF f
    <2> QED
      BY <2>1, <2>2, <2>3, AllBytesInv
  <1>2. CASE Bits!Or(ps)
    <2> DEFINE f == [i \in DOMAIN bits |-> bits[i] \cup other(i)]
    <2>1. f \in [DOMAIN bits -> SUBSET Bits!Byte]
      BY <1>0
    <2>2. \A i \in DOMAIN bits : \A b \in Bits!Byte :
             i * CharBit + b < bitSize => (b \in f[i] <=> i * CharBit + b \in members \cup ps)
      BY Places
    <2>3. Bits!Changes(Bits!TailCleared(bitSize, f), members \cup ps)
      BY <1>2 DEF Bits!Or
    <2>4. members \cup ps \in SUBSET (0 .. bitSize - 1)
      BY BitParts
    <2> HIDE DEF f
    <2> QED
      BY <2>1, <2>2, <2>3, <2>4, AllBytesInv
  <1>3. CASE Bits!Xor(ps)
    <2> DEFINE f == [i \in DOMAIN bits |-> Bits!Differ(bits[i], other(i))]
    <2>1. f \in [DOMAIN bits -> SUBSET Bits!Byte]
      BY <1>0 DEF Bits!Differ
    <2>2. \A i \in DOMAIN bits : \A b \in Bits!Byte :
             i * CharBit + b < bitSize => (b \in f[i] <=> i * CharBit + b \in Bits!Differ(members, ps))
      BY Places DEF Bits!Differ
    <2>3. Bits!Changes(Bits!TailCleared(bitSize, f), Bits!Differ(members, ps))
      BY <1>3 DEF Bits!Xor
    <2>4. Bits!Differ(members, ps) \in SUBSET (0 .. bitSize - 1)
      BY BitParts DEF Bits!Differ
    <2> HIDE DEF f
    <2> QED
      BY <2>1, <2>2, <2>3, <2>4, AllBytesInv
  <1> QED
    BY <1>1, <1>2, <1>3

LEMMA FromStringInv ==
    ASSUME BitInv, NEW s, Bits!FromString(s)
    PROVE  BitInv'
  <1> DEFINE ps == {bitSize - i : i \in {j \in 1 .. bitSize : s[j] = "1"}}
  <1>1. ps \in SUBSET (0 .. bitSize - 1)
    BY BitParts
  <1>2. CASE Bits!Fails
    BY <1>2 DEF BitInv, InRange, Bits!Fails, Bits!Becomes
  <1>3. CASE Bits!Changes([i \in DOMAIN bits |-> {b \in Bits!Byte : i * CharBit + b \in ps}], ps)
    <2> HIDE DEF ps
    <2>1. [i \in DOMAIN bits |-> {b \in Bits!Byte : i * CharBit + b \in ps}] = Bits!Packed(bitSize, ps)
      BY BitParts DEF Bits!Packed
    <2> QED
      BY <1>1, <1>3, <2>1, ChangeInv
  <1> QED
    BY <1>2, <1>3 DEF Bits!FromString

LEMMA OperandIs ==
    ASSUME NEW n \in Nat, NEW ps \in Bits!Operand(n)
    PROVE  ps \in SUBSET (0 .. n - 1)
  BY DEF Bits!Operand

LEMMA NextBits == BitInv /\ [Bits!Next]_(Bits!vars) => BitInv'
  <1> SUFFICES ASSUME BitInv, [Bits!Next]_(Bits!vars) PROVE BitInv'
    OBVIOUS
  <1>1. CASE UNCHANGED Bits!vars
    BY <1>1 DEF Bits!vars, Bits!bitset, BitInv, InRange
  <1>2. CASE \E n \in 0 .. MaxBits : Bits!Create(n) \/ \E ps \in Bits!Operand(n) : Bits!Copy(n, ps)
    <2>1. PICK n \in 0 .. MaxBits : Bits!Create(n) \/ \E ps \in Bits!Operand(n) : Bits!Copy(n, ps)
      BY <1>2
    <2>2. n \in Nat
      BY BitsAssumption
    <2> QED
      BY <2>1, <2>2, BitCreateInv, BitCopyInv, OperandIs
  <1>3. CASE Bits!CreateFails \/ Bits!CopyFails
    BY <1>3 DEF Bits!CreateFails, Bits!CopyFails, Bits!Fails, Bits!Becomes, BitInv, InRange
  <1>4. CASE \E pos \in 0 .. MaxBits : Bits!Flip(pos) \/ \E value \in BOOLEAN : Bits!Put(pos, value)
    BY <1>4, BitsAssumption, FlipInv, PutInv
  <1>5. CASE \E ps \in Bits!Operand(bitSize) : Bits!And(ps) \/ Bits!Or(ps) \/ Bits!Xor(ps)
    BY <1>5, BitParts, OperandIs, WithInv
  <1>6. CASE Bits!Destroy \/ Bits!SetAll \/ Bits!ResetAll \/ Bits!FlipAll
    BY <1>6, BitDestroyInv, SetAllInv, ResetAllInv, FlipAllInv
  <1>7. CASE \E s \in Strings : Bits!FromString(s)
    BY <1>7, FromStringInv
  <1> QED
    BY <1>1, <1>2, <1>3, <1>4, <1>5, <1>6, <1>7 DEF Bits!Next

-----------------------------------------------------------------------------
(* Every question is answered as from the set *)

LEMMA GetIs ==
    ASSUME BitInv, NEW pos \in 0 .. bitSize - 1
    PROVE  Bits!Get(pos) <=> pos \in members
  <1>1. /\ pos \div CharBit \in 0 .. Bits!NumBytes(bitSize) - 1 /\ (pos % CharBit) \in Bits!Byte
        /\ (pos \div CharBit) * CharBit + (pos % CharBit) = pos
    BY BitParts, PlaceExists
  <1> QED
    BY <1>1, BitParts DEF Bits!Get

\* Where bitset_find_from stops.
LEMMA FindFromIs ==
    ASSUME BitInv, NEW start \in 0 .. bitSize, NEW value \in BOOLEAN
    PROVE  LET next == Bits!FindFrom(start, value)
           IN  /\ next = Bits!NPOS <=> ~\E i \in start .. bitSize - 1 : i \in members <=> value
               /\ next # Bits!NPOS => /\ next \in start .. bitSize - 1 /\ (next \in members <=> value)
                                 /\ \A i \in start .. next - 1 : ~(i \in members <=> value)
  <1> DEFINE hits == {i \in start .. bitSize - 1 : Bits!Get(i) = value}
             next == Bits!FindFrom(start, value)
  <1>1. bitSize \in Nat /\ Bits!NPOS \notin Nat
    BY BitParts DEF Bits!NPOS
  <1>2. \A i \in start .. bitSize - 1 : i \in 0 .. bitSize - 1 /\ (Bits!Get(i) <=> i \in members)
    BY <1>1, GetIs
  <1>3. \A i \in start .. bitSize - 1 : i \in hits <=> (i \in members <=> value)
    <2> SUFFICES ASSUME NEW i \in start .. bitSize - 1
                 PROVE  (Bits!Get(i) = value) <=> (i \in members <=> value)
      OBVIOUS
    <2>1. Bits!Get(i) \in BOOLEAN
      BY DEF Bits!Get
    <2> QED
      BY <1>2, <2>1
  <1>4. next = IF hits = {} THEN Bits!NPOS ELSE CHOOSE i \in hits : \A j \in hits : i <= j
    BY DEF Bits!FindFrom
  <1>5. hits \subseteq start .. bitSize - 1
    OBVIOUS
  <1> HIDE DEF hits, next
  <1>6. CASE hits = {}
    BY <1>1, <1>3, <1>4, <1>6 DEF next
  <1>7. CASE hits # {}
    <2>0. hits \subseteq Nat
      BY <1>1, <1>5
    <2>1. \E i \in hits : \A j \in hits : i <= j
      BY <1>7, <2>0, LeastNatural
    <2>2. next \in hits /\ \A j \in hits : next <= j
      BY <1>4, <1>7, <2>1
    <2>3. next \in start .. bitSize - 1 /\ next # Bits!NPOS /\ (next \in members <=> value)
      BY <1>1, <1>3, <1>5, <2>2
    <2>4. \A i \in start .. next - 1 : i \in start .. bitSize - 1 /\ i \notin hits
      BY <1>1, <2>2, <2>3
    <2> QED
      BY <1>3, <2>3, <2>4 DEF next
  <1> QED
    BY <1>6, <1>7

LEMMA FullBytes ==
    ASSUME BitInv
    PROVE  /\ bitSize \div CharBit \in Nat
           /\ \A i \in 0 .. (bitSize \div CharBit) - 1 : i \in 0 .. Bits!NumBytes(bitSize) - 1
           /\ bitSize % CharBit # 0 =>
                 /\ Bits!NumBytes(bitSize) - 1 = bitSize \div CharBit
                 /\ Bits!NumBytes(bitSize) - 1 \in 0 .. Bits!NumBytes(bitSize) - 1
                 /\ Bits!LastByteMask(bitSize) \subseteq Bits!Byte
           /\ bitSize % CharBit = 0 => Bits!NumBytes(bitSize) = bitSize \div CharBit
  <1>1. bitSize \in Nat
    BY BitParts
  <1>2. /\ Bits!NumBytes(bitSize) \in Nat /\ bitSize \div CharBit \in Nat /\ (bitSize % CharBit) \in Bits!Byte
        /\ Bits!NumBytes(bitSize) = IF bitSize % CharBit = 0 THEN bitSize \div CharBit
                            ELSE (bitSize \div CharBit) + 1
    BY <1>1, NumBytesIs
  <1>3. bitSize % CharBit # 0 => Bits!LastByteMask(bitSize) \subseteq Bits!Byte
    BY <1>2, BitsAssumption DEF Bits!LastByteMask, Bits!Byte
  <1> QED
    BY <1>2, <1>3

\* The places of positions: those in full bytes, and those the mask leaves.
Place(i, b) ==
    /\ i \in 0 .. Bits!NumBytes(bitSize) - 1 /\ b \in Bits!Byte
    /\ bitSize % CharBit # 0 /\ i = Bits!NumBytes(bitSize) - 1 => b \in Bits!LastByteMask(bitSize)

LEMMA AllPlaces ==
    ASSUME BitInv
    PROVE  /\ \A i, b : Place(i, b) =>
                 i * CharBit + b \in 0 .. bitSize - 1
                 /\ (b \in bits[i] <=> i * CharBit + b \in members)
           /\ \A pos \in 0 .. bitSize - 1 :
                 \E i, b : Place(i, b) /\ pos = i * CharBit + b
  <1>1. bitSize \in Nat
    BY BitParts
  <1>2. ASSUME NEW i, NEW b, Place(i, b)
        PROVE  i * CharBit + b \in 0 .. bitSize - 1
               /\ (b \in bits[i] <=> i * CharBit + b \in members)
    <2>1. i \in 0 .. Bits!NumBytes(bitSize) - 1 /\ b \in Bits!Byte
      BY <1>2 DEF Place
    <2>2. i * CharBit + b \in Nat /\ i * CharBit + b < bitSize
      BY <1>1, <1>2, <2>1, MaskIs DEF Place
    <2> QED
      BY <1>1, <2>1, <2>2, BitParts
  <1>3. ASSUME NEW pos \in 0 .. bitSize - 1
        PROVE  \E i, b : Place(i, b) /\ pos = i * CharBit + b
    <2> DEFINE i == pos \div CharBit
               b == pos % CharBit
    <2>1. i \in 0 .. Bits!NumBytes(bitSize) - 1 /\ b \in Bits!Byte /\ i * CharBit + b = pos
      BY <1>1, PlaceExists
    <2> HIDE DEF i, b
    <2>2. i * CharBit + b < bitSize
      BY <1>1, <2>1
    <2>3. Place(i, b)
      BY <1>1, <2>1, <2>2, MaskIs DEF Place
    <2> QED
      BY <2>1, <2>3
  <1> QED
    BY <1>2, <1>3

LEMMA AnyIs ==
    ASSUME BitInv
    PROVE  Bits!Any <=> members # {}
  <1>1. ASSUME Bits!Any PROVE members # {}
    <2>1. CASE \E i \in 0 .. (bitSize \div CharBit) - 1 : bits[i] # {}
      <3>1. PICK i \in 0 .. (bitSize \div CharBit) - 1 : bits[i] # {}
        BY <2>1
      <3>2. i \in 0 .. Bits!NumBytes(bitSize) - 1 /\ (bitSize % CharBit # 0 => i # Bits!NumBytes(bitSize) - 1)
        BY FullBytes
      <3>3. bits[i] \subseteq Bits!Byte
        BY <3>2, BitParts
      <3>4. PICK b \in Bits!Byte : b \in bits[i]
        BY <3>1, <3>3
      <3>5. Place(i, b)
        BY <3>2 DEF Place
      <3> QED
        BY <3>4, <3>5, AllPlaces
    <2>2. CASE bitSize % CharBit # 0 /\ bits[Bits!NumBytes(bitSize) - 1] \cap Bits!LastByteMask(bitSize) # {}
      <3> DEFINE i == Bits!NumBytes(bitSize) - 1
      <3>1. PICK b : b \in bits[i] /\ b \in Bits!LastByteMask(bitSize)
        BY <2>2
      <3>2. Place(i, b)
        BY <2>2, <3>1, FullBytes DEF Place
      <3> QED
        BY <3>1, <3>2, AllPlaces
    <2> QED
      BY <1>1, <2>1, <2>2 DEF Bits!Any
  <1>2. ASSUME members # {} PROVE Bits!Any
    <2>1. PICK pos \in members : pos \in 0 .. bitSize - 1
      BY <1>2, BitParts
    <2>2. PICK i, b : Place(i, b) /\ pos = i * CharBit + b
      BY <2>1, AllPlaces
    <2>3. b \in bits[i]
      BY <2>1, <2>2, AllPlaces
    <2>4. CASE bitSize % CharBit = 0 \/ i # Bits!NumBytes(bitSize) - 1
      <3>1. i \in 0 .. (bitSize \div CharBit) - 1
        BY <2>2, <2>4, FullBytes, BitParts DEF Place
      <3> QED
        BY <2>3, <3>1 DEF Bits!Any
    <2>5. CASE bitSize % CharBit # 0 /\ i = Bits!NumBytes(bitSize) - 1
      BY <2>2, <2>3, <2>5 DEF Bits!Any, Place
    <2> QED
      BY <2>4, <2>5
  <1> QED
    BY <1>1, <1>2

LEMMA AllIs ==
    ASSUME BitInv
    PROVE  Bits!All <=> members = 0 .. bitSize - 1
  <1>0. members \subseteq 0 .. bitSize - 1 /\ Bits!NumBytes(bitSize) \in Nat
        /\ \A i \in 0 .. Bits!NumBytes(bitSize) - 1 : bits[i] \subseteq Bits!Byte
    BY BitParts
  <1>1. ASSUME Bits!All PROVE members = 0 .. bitSize - 1
    <2> SUFFICES ASSUME NEW pos \in 0 .. bitSize - 1 PROVE pos \in members
      BY <1>0
    <2>1. PICK i, b : Place(i, b) /\ pos = i * CharBit + b
      BY AllPlaces
    <2>2. CASE bitSize % CharBit = 0 \/ i # Bits!NumBytes(bitSize) - 1
      <3>1. i \in 0 .. (bitSize \div CharBit) - 1 /\ b \in Bits!Byte
        BY <2>1, <2>2, <1>0, FullBytes DEF Place
      <3>2. b \in bits[i]
        BY <1>1, <3>1 DEF Bits!All
      <3> QED
        BY <2>1, <3>2, AllPlaces
    <2>3. CASE bitSize % CharBit # 0 /\ i = Bits!NumBytes(bitSize) - 1
      <3>1. b \in bits[i]
        BY <1>1, <2>1, <2>3 DEF Bits!All, Place
      <3> QED
        BY <2>1, <3>1, AllPlaces
    <2> QED
      BY <2>2, <2>3
  <1>2. ASSUME members = 0 .. bitSize - 1 PROVE Bits!All
    <2>1. \A i \in 0 .. (bitSize \div CharBit) - 1 : bits[i] = Bits!Byte
      <3> SUFFICES ASSUME NEW i \in 0 .. (bitSize \div CharBit) - 1, NEW b \in Bits!Byte
                   PROVE  b \in bits[i]
        BY <1>0, FullBytes
      <3>1. Place(i, b)
        BY FullBytes DEF Place
      <3> QED
        BY <1>2, <3>1, AllPlaces
    <2>2. ASSUME bitSize % CharBit # 0
          PROVE  Bits!LastByteMask(bitSize) \subseteq bits[Bits!NumBytes(bitSize) - 1]
      <3> SUFFICES ASSUME NEW b \in Bits!LastByteMask(bitSize)
                   PROVE  b \in bits[Bits!NumBytes(bitSize) - 1]
        OBVIOUS
      <3>1. Place(Bits!NumBytes(bitSize) - 1, b)
        BY <2>2, FullBytes DEF Place
      <3> QED
        BY <1>2, <3>1, AllPlaces
    <2> QED
      BY <2>1, <2>2 DEF Bits!All
  <1> QED
    BY <1>1, <1>2

\* The instance counts as this module does.
LEMMA BitsCardinality == \A S : Bits!Cardinality(S) = Cardinality(S)
  BY DEF Cardinality, Bits!Cardinality, IsFiniteSet, Bits!IsFiniteSet

LEMMA CountIs ==
    ASSUME BitInv
    PROVE  Bits!Count = Cardinality(members)
  <1> DEFINE q == bitSize \div CharBit
             Full == {p \in (0 .. q - 1) \X Bits!Byte : p[2] \in bits[p[1]]}
             Lower == {pos \in members : pos < q * CharBit}
             Upper == {pos \in members : pos >= q * CharBit}
             Last == bits[Bits!NumBytes(bitSize) - 1] \cap Bits!LastByteMask(bitSize)
  <1>1. /\ bitSize \in Nat /\ members \subseteq 0 .. bitSize - 1 /\ q \in Nat
        /\ CharBit \in Nat \ {0} /\ Bits!NumBytes(bitSize) \in Nat
        /\ bitSize = q * CharBit + (bitSize % CharBit) /\ (bitSize % CharBit) \in Bits!Byte
        /\ q * CharBit \in Nat
    <2>1. bitSize \in Nat /\ members \subseteq 0 .. bitSize - 1 /\ CharBit \in Nat \ {0}
      BY BitParts, BitsAssumption
    <2>2. q \in Nat /\ Bits!NumBytes(bitSize) \in Nat /\ bitSize = q * CharBit + (bitSize % CharBit) /\ (bitSize % CharBit) \in Bits!Byte
      BY <2>1, NumBytesIs
    <2> HIDE DEF q
    <2>3. q * CharBit \in Nat
      BY <2>1, <2>2
    <2> QED
      BY <2>1, <2>2, <2>3
  <1> HIDE DEF q
  <1>2. IsFiniteSet(0 .. bitSize - 1) /\ IsFiniteSet(members)
    <2>1. 0 \in Int /\ bitSize - 1 \in Int
      BY <1>1
    <2>2. IsFiniteSet(0 .. bitSize - 1)
      BY <2>1, FS_Interval
    <2> QED
      BY <1>1, <2>2, FS_Subset
  <1>3. IsFiniteSet(Lower) /\ IsFiniteSet(Upper) /\ Lower \cap Upper = {} /\ members = Lower \cup Upper
    <2>1. IsFiniteSet(Lower) /\ IsFiniteSet(Upper)
      BY <1>2, FS_Subset
    <2>2. \A pos \in members : pos < q * CharBit <=> ~(pos >= q * CharBit)
      BY <1>1
    <2> QED
      BY <2>1, <2>2
  <1>4. Cardinality(members) = Cardinality(Lower) + Cardinality(Upper)
    <2>1. Cardinality(Lower \cap Upper) = 0
      BY <1>3, FS_EmptySet
    <2>2. Cardinality(Lower) \in Nat /\ Cardinality(Upper) \in Nat
      BY <1>3, FS_CardinalityType
    <2>3. Cardinality(Lower \cup Upper) = Cardinality(Lower) + Cardinality(Upper) - Cardinality(Lower \cap Upper)
      BY <1>3, FS_Union
    <2> HIDE DEF Lower, Upper
    <2> QED
      BY <1>3, <2>1, <2>2, <2>3
  <1>5. Cardinality(Full) = Cardinality(Lower)
    <2> DEFINE f == [pos \in Lower |-> <<pos \div CharBit, pos % CharBit>>]
    <2>1. ASSUME NEW pos \in Lower
          PROVE  /\ pos \in Nat /\ f[pos] = <<pos \div CharBit, pos % CharBit>>
                 /\ f[pos] \in Full
                 /\ pos = f[pos][1] * CharBit + f[pos][2]
      <3>1. pos \in 0 .. bitSize - 1 /\ pos \in members /\ pos < q * CharBit /\ pos \in Nat
        BY <1>1
      <3>2. /\ pos \div CharBit \in 0 .. Bits!NumBytes(bitSize) - 1 /\ (pos % CharBit) \in Bits!Byte
            /\ (pos \div CharBit) * CharBit + (pos % CharBit) = pos
        BY <1>1, <3>1, PlaceExists
      <3>3. (pos % CharBit) \in bits[pos \div CharBit]
        BY <3>1, <3>2, BitParts
      <3>4. pos \div CharBit < q
        <4> DEFINE i == pos \div CharBit
        <4>1. i \in Nat /\ (pos % CharBit) \in Nat
          BY <3>2, <1>1 DEF Bits!Byte
        <4> SUFFICES ASSUME i >= q PROVE FALSE
          BY <1>1, <4>1
        <4>2. i * CharBit >= q * CharBit
          <5>1. CASE i = q
            BY <1>1, <5>1
          <5>2. CASE i > q
            <6>1. q * CharBit + CharBit <= i * CharBit
              BY <1>1, <4>1, <5>2, LaterByte
            <6>2. i * CharBit \in Nat
              BY <1>1, <4>1
            <6> QED
              BY <1>1, <6>1, <6>2
          <5> QED
            BY <1>1, <4>1, <5>1, <5>2
        <4>3. i * CharBit \in Nat /\ i * CharBit + (pos % CharBit) = pos
          BY <1>1, <3>2, <4>1
        <4> HIDE DEF i
        <4> QED
          BY <1>1, <3>1, <4>1, <4>2, <4>3
      <3>5. f[pos] = <<pos \div CharBit, pos % CharBit>>
        OBVIOUS
      <3> HIDE DEF f
      <3>6. pos \div CharBit \in 0 .. q - 1
        BY <1>1, <3>2, <3>4
      <3>7. <<pos \div CharBit, pos % CharBit>> \in (0 .. q - 1) \X Bits!Byte
        BY <3>2, <3>6
      <3> QED
        BY <3>1, <3>2, <3>3, <3>5, <3>7
    <2>2. ASSUME NEW p \in Full
          PROVE  \E pos \in Lower : f[pos] = p
      <3>1. /\ p[1] \in 0 .. q - 1 /\ p[2] \in Bits!Byte /\ p[2] \in bits[p[1]]
            /\ p = <<p[1], p[2]>>
        OBVIOUS
      <3> DEFINE pos == p[1] * CharBit + p[2]
      <3>2. p[1] \in Nat /\ p[1] \in 0 .. Bits!NumBytes(bitSize) - 1
        BY <1>1, <3>1, FullBytes DEF q
      <3>3. pos \in members
        BY <3>1, <3>2, BitParts
      <3>4. pos \in Nat /\ p[1] = pos \div CharBit /\ p[2] = pos % CharBit
        <4>1. pos \in Nat
          BY <3>1, <3>2, PlaceIs
        <4> QED
          BY <3>1, <3>2, <4>1, PlaceIs
      <3>5. pos < q * CharBit
        <4>1. p[1] * CharBit + CharBit <= q * CharBit
          BY <1>1, <3>1, <3>2, LaterByte
        <4>2. p[2] < CharBit /\ p[2] \in Nat
          BY <1>1, <3>1 DEF Bits!Byte
        <4>3. p[1] * CharBit \in Nat
          BY <1>1, <3>2
        <4> QED
          BY <1>1, <4>1, <4>2, <4>3
      <3> HIDE DEF pos
      <3>6. pos \in Lower
        BY <3>3, <3>5
      <3> QED
        BY <3>1, <3>4, <3>6
    <2>3. f \in [Lower -> Full]
      BY <2>1
    <2>4. \A x, y \in Lower : f[x] = f[y] => x = y
      BY <2>1
    <2>5. \A p \in Full : \E pos \in Lower : f[pos] = p
      BY <2>2
    <2>6. IsFiniteSet(Lower)
      BY <1>3
    <2> HIDE DEF f, Lower, Full
    <2> QED
      BY <2>3, <2>4, <2>5, <2>6, CountMoved
  <1>6. CASE bitSize % CharBit = 0
    <2>0. bitSize = q * CharBit
      BY <1>1, <1>6
    <2>1. Upper = {}
      <3> SUFFICES ASSUME NEW pos \in members, pos >= q * CharBit PROVE FALSE
        OBVIOUS
      <3>1. pos < bitSize /\ pos \in Int /\ bitSize \in Int
        BY <1>1
      <3> QED
        BY <2>0, <3>1
    <2>2. Cardinality(Upper) = 0
      BY <2>1, FS_EmptySet
    <2>3. Cardinality(Lower) \in Nat
      BY <1>3, FS_CardinalityType
    <2>4. Bits!Count = Cardinality(Full) + 0
      BY <1>6, BitsCardinality DEF Bits!Count, q
    <2> QED
      BY <1>4, <1>5, <2>2, <2>3, <2>4
  <1>7. CASE bitSize % CharBit # 0
    <2> DEFINE f == [pos \in Upper |-> pos - q * CharBit]
    <2>0. /\ Bits!NumBytes(bitSize) - 1 = q /\ q \in 0 .. Bits!NumBytes(bitSize) - 1
          /\ Bits!LastByteMask(bitSize) = 0 .. (bitSize % CharBit) - 1
          /\ Bits!LastByteMask(bitSize) \subseteq Bits!Byte
      BY <1>7, FullBytes DEF q, Bits!LastByteMask
    <2>1. ASSUME NEW pos \in Upper
          PROVE  /\ pos \in Int /\ pos - q * CharBit \in Bits!LastByteMask(bitSize)
                 /\ q * CharBit + (pos - q * CharBit) = pos
      BY <1>1, <2>0
    <2>2. ASSUME NEW pos \in Upper
          PROVE  pos - q * CharBit \in Last
      BY <2>0, <2>1, BitParts
    <2>3. ASSUME NEW b \in Last
          PROVE  q * CharBit + b \in Upper /\ (q * CharBit + b) - q * CharBit = b
      <3>1. b \in Bits!Byte /\ b \in bits[q] /\ b \in Nat
        BY <2>0 DEF Bits!Byte
      <3>2. q * CharBit + b \in members
        BY <2>0, <3>1, BitParts
      <3> QED
        BY <1>1, <3>1, <3>2
    <2>4. f \in [Upper -> Last]
      BY <2>2
    <2>5. \A x, y \in Upper : f[x] = f[y] => x = y
      BY <1>1, <2>1
    <2>6. \A b \in Last : \E x \in Upper : f[x] = b
      BY <2>3
    <2> HIDE DEF f, Upper, Last
    <2>7. Cardinality(Last) = Cardinality(Upper)
      BY <1>3, <2>4, <2>5, <2>6, CountMoved
    <2>8. Bits!Count = Cardinality(Full) + Cardinality(Last)
      BY <1>7, BitsCardinality DEF Bits!Count, q, Last
    <2> QED
      BY <1>4, <1>5, <2>7, <2>8
  <1> QED
    BY <1>6, <1>7

LEMMA StringIs ==
    ASSUME BitInv
    PROVE  {bitSize - i : i \in {j \in 1 .. bitSize : Bits!ToString[j] = "1"}} = members
  <1>1. bitSize \in Nat /\ members \subseteq 0 .. bitSize - 1
    BY BitParts
  <1>2. \A j \in 1 .. bitSize : bitSize - j \in 0 .. bitSize - 1
    BY <1>1
  <1>3. \A j \in 1 .. bitSize : Bits!ToString[j] = "1" <=> bitSize - j \in members
    <2> TAKE j \in 1 .. bitSize
    <2>1. Bits!ToString[j] = IF Bits!Get(bitSize - j) THEN "1" ELSE "0"
      BY DEF Bits!ToString
    <2> QED
      BY <1>2, <2>1, GetIs
  <1>4. \A pos \in members : bitSize - pos \in 1 .. bitSize /\ bitSize - (bitSize - pos) = pos
    BY <1>1
  <1> QED
    BY <1>2, <1>3, <1>4

LEMMA BitsMean == BitInv => Bits!BitsMatch
  <1> SUFFICES ASSUME BitInv PROVE Bits!BitsMatch
    OBVIOUS
  <1>1. bitSize \in Nat /\ members \subseteq 0 .. bitSize - 1 /\ DOMAIN bits = 0 .. Bits!NumBytes(bitSize) - 1
    BY BitParts
  <1>2. Bits!Equal(Bits!Packed(bitSize, members))
    BY DEF Bits!Equal, BitInv
  <1>3. ASSUME NEW start \in 0 .. bitSize
        PROVE  /\ LET next == Bits!FindFrom(start, TRUE)
                  IN  /\ next = Bits!NPOS <=> members \cap (start .. bitSize - 1) = {}
                      /\ next # Bits!NPOS => next \in members /\ members \cap (start .. next - 1) = {}
               /\ LET next == Bits!FindFrom(start, FALSE)
                  IN  /\ next = Bits!NPOS <=> (start .. bitSize - 1) \subseteq members
                      /\ next # Bits!NPOS => next \notin members /\ (start .. next - 1) \subseteq members
    <2> DEFINE on == Bits!FindFrom(start, TRUE)
               off == Bits!FindFrom(start, FALSE)
    <2>1. /\ on = Bits!NPOS <=> ~\E i \in start .. bitSize - 1 : i \in members <=> TRUE
          /\ on # Bits!NPOS => /\ on \in start .. bitSize - 1 /\ (on \in members <=> TRUE)
                          /\ \A i \in start .. on - 1 : ~(i \in members <=> TRUE)
      BY FindFromIs
    <2>2. /\ off = Bits!NPOS <=> ~\E i \in start .. bitSize - 1 : i \in members <=> FALSE
          /\ off # Bits!NPOS => /\ off \in start .. bitSize - 1 /\ (off \in members <=> FALSE)
                           /\ \A i \in start .. off - 1 : ~(i \in members <=> FALSE)
      BY FindFromIs
    <2> HIDE DEF on, off
    <2>3. /\ on = Bits!NPOS <=> members \cap (start .. bitSize - 1) = {}
          /\ on # Bits!NPOS => on \in members /\ members \cap (start .. on - 1) = {}
      BY <2>1
    <2>4. /\ off = Bits!NPOS <=> (start .. bitSize - 1) \subseteq members
          /\ off # Bits!NPOS => off \notin members /\ (start .. off - 1) \subseteq members
      BY <2>2
    <2> QED
      BY <2>3, <2>4 DEF on, off
  <1> QED
    BY <1>1, <1>2, <1>3, GetIs, CountIs, AllIs, AnyIs, StringIs, BitsCardinality
    DEF Bits!BitsMatch

-----------------------------------------------------------------------------
(* The lowest bit *)

LEMMA Halves ==
    ASSUME NEW i \in Nat \ {0}
    PROVE  /\ i \div 2 \in Nat /\ i \div 2 < i
           /\ i % 2 = 1 => i = 2 * (i \div 2) + 1
           /\ i % 2 # 1 => i = 2 * (i \div 2) /\ i \div 2 \in Nat \ {0}
  OBVIOUS

LEMMA Doubled ==
    ASSUME NEW h \in Nat \ {0}
    PROVE  2 * h \in Nat \ {0} /\ (2 * h) % 2 # 1 /\ (2 * h) \div 2 = h
  OBVIOUS

\* g is the lowest bit of every number up to m.
LowBits(m, g) == g = [j \in 1 .. m |-> IF j % 2 = 1 THEN 1 ELSE 2 * g[j \div 2]]

\* Two such functions agree, and there is one.
LEMMA LowBitsAgree ==
    ASSUME NEW m \in Nat, NEW k \in Nat, m <= k, NEW g, NEW h,
           LowBits(m, g), LowBits(k, h)
    PROVE  \A j \in 1 .. m : g[j] = h[j]
  <1> DEFINE D == {j \in 1 .. m : g[j] # h[j]}
  <1>1. SUFFICES ASSUME D # {} PROVE FALSE
    OBVIOUS
  <1>2. PICK d \in D : \A j \in D : d <= j
    <2>1. D \subseteq Nat
      OBVIOUS
    <2> HIDE DEF D
    <2> QED
      BY <1>1, <2>1, LeastNatural
  <1>3. d \in 1 .. m /\ d \in 1 .. k /\ g[d] # h[d] /\ d \in Nat \ {0}
    OBVIOUS
  <1>4. /\ g[d] = IF d % 2 = 1 THEN 1 ELSE 2 * g[d \div 2]
        /\ h[d] = IF d % 2 = 1 THEN 1 ELSE 2 * h[d \div 2]
    BY <1>3 DEF LowBits
  <1>5. d % 2 # 1 /\ g[d \div 2] # h[d \div 2]
    BY <1>3, <1>4
  <1>6. d \div 2 \in 1 .. m /\ ~(d <= d \div 2)
    BY <1>3, <1>5, Halves
  <1> QED
    BY <1>2, <1>5, <1>6

LEMMA LowBitsExist == \A m \in Nat : \E g : LowBits(m, g)
  <1> DEFINE D == {m \in Nat : ~ \E g : LowBits(m, g)}
  <1>1. SUFFICES ASSUME D # {} PROVE FALSE
    OBVIOUS
  <1>2. PICK m \in D : \A n \in D : m <= n
    <2>1. D \subseteq Nat
      OBVIOUS
    <2> HIDE DEF D
    <2> QED
      BY <1>1, <2>1, LeastNatural
  <1>3. m \in Nat /\ ~ \E g : LowBits(m, g)
    OBVIOUS
  <1>4. CASE m = 0
    <2> DEFINE h == [j \in 1 .. 0 |-> 1]
    <2>1. LowBits(0, h)
      BY DEF LowBits
    <2> QED
      BY <1>3, <1>4, <2>1
  <1>5. CASE m # 0
    <2>1. m - 1 \in Nat /\ ~ (m <= m - 1)
      BY <1>3, <1>5
    <2>2. PICK g : LowBits(m - 1, g)
      BY <1>2, <2>1
    <2> DEFINE h == [j \in 1 .. m |-> IF j % 2 = 1 THEN 1 ELSE 2 * g[j \div 2]]
    <2>3. ASSUME NEW j \in 1 .. m - 1
          PROVE  h[j] = g[j]
      <3>1. j \in 1 .. m /\ h[j] = IF j % 2 = 1 THEN 1 ELSE 2 * g[j \div 2]
        BY <1>3
      <3>2. g[j] = IF j % 2 = 1 THEN 1 ELSE 2 * g[j \div 2]
        BY <2>2 DEF LowBits
      <3> QED
        BY <3>1, <3>2
    <2>4. ASSUME NEW j \in 1 .. m
          PROVE  h[j] = IF j % 2 = 1 THEN 1 ELSE 2 * h[j \div 2]
      <3>1. CASE j % 2 = 1
        BY <3>1
      <3>2. CASE j % 2 # 1
        <4>1. j \div 2 \in 1 .. m - 1
          BY <1>3, <3>2, Halves
        <4> QED
          BY <2>3, <3>2, <4>1
      <3> QED
        BY <3>1, <3>2
    <2>5. LowBits(m, h)
      BY <2>4 DEF LowBits
    <2> QED
      BY <1>3, <2>5
  <1> QED
    BY <1>4, <1>5

LEMMA LowBitOf ==
    ASSUME NEW m \in Nat, NEW g, LowBits(m, g), NEW i \in 1 .. m
    PROVE  Sums!LowBit(i) = g[i]
  <1> DEFINE F == CHOOSE f : f = [j \in 1 .. i |-> IF j % 2 = 1 THEN 1 ELSE 2 * f[j \div 2]]
  <1>1. F = [j \in 1 .. i |-> IF j % 2 = 1 THEN 1 ELSE 2 * F[j \div 2]]
    <2>1. PICK w : w = [j \in 1 .. i |-> IF j % 2 = 1 THEN 1 ELSE 2 * w[j \div 2]]
      <3>1. i \in Nat
        OBVIOUS
      <3>2. \E w : LowBits(i, w)
        BY <3>1, LowBitsExist
      <3> QED
        BY <3>2 DEF LowBits
    <2> QED
      BY <2>1
  <1>2. Sums!LowBit(i) = F[i]
    BY DEF Sums!LowBit
  <1> HIDE DEF F
  <1>3. LowBits(i, F)
    BY <1>1 DEF LowBits
  <1>4. \A j \in 1 .. i : F[j] = g[j]
    <2>1. i <= m /\ i \in Nat
      OBVIOUS
    <2> QED
      BY <1>3, <2>1, LowBitsAgree
  <1> QED
    BY <1>2, <1>4

LEMMA LowBitHalves ==
    ASSUME NEW i \in Nat \ {0}
    PROVE  Sums!LowBit(i) = IF i % 2 = 1 THEN 1 ELSE 2 * Sums!LowBit(i \div 2)
  <1>1. PICK g : LowBits(i, g)
    BY LowBitsExist
  <1>2. i \in 1 .. i
    OBVIOUS
  <1>3. Sums!LowBit(i) = g[i] /\ g[i] = IF i % 2 = 1 THEN 1 ELSE 2 * g[i \div 2]
    BY <1>1, <1>2, LowBitOf DEF LowBits
  <1>4. i % 2 # 1 => i \div 2 \in 1 .. i
    BY Halves
  <1>5. i % 2 # 1 => Sums!LowBit(i \div 2) = g[i \div 2]
    BY <1>1, <1>4, LowBitOf
  <1> QED
    BY <1>3, <1>5

LEMMA LowBitDoubles ==
    ASSUME NEW h \in Nat
    PROVE  /\ Sums!LowBit(2 * h + 1) = 1
           /\ h # 0 => Sums!LowBit(2 * h) = 2 * Sums!LowBit(h)
  <1>1. 2 * h + 1 \in Nat \ {0} /\ (2 * h + 1) % 2 = 1
    OBVIOUS
  <1>2. h # 0 => Sums!LowBit(2 * h) = 2 * Sums!LowBit(h)
    BY Doubled, LowBitHalves
  <1> QED
    BY <1>1, <1>2, LowBitHalves

\* A number is odd or the double of a lesser one.
LEMMA OddOrDouble ==
    ASSUME NEW i \in Nat \ {0}
    PROVE  \/ \E h \in Nat : i = 2 * h + 1 /\ Sums!LowBit(i) = 1
           \/ \E h \in Nat \ {0} : i = 2 * h /\ h < i /\ Sums!LowBit(i) = 2 * Sums!LowBit(h)
  <1>1. CASE i % 2 = 1
    BY <1>1, Halves, LowBitDoubles
  <1>2. CASE i % 2 # 1
    BY <1>2, Halves, LowBitHalves
  <1> QED
    BY <1>1, <1>2

LEMMA LowBitType ==
    \A i \in Nat \ {0} : Sums!LowBit(i) \in 1 .. i
  <1> DEFINE D == {i \in Nat \ {0} : ~(Sums!LowBit(i) \in 1 .. i)}
  <1>1. SUFFICES ASSUME D # {} PROVE FALSE
    OBVIOUS
  <1>2. PICK i \in D : \A j \in D : i <= j
    <2>1. D \subseteq Nat
      OBVIOUS
    <2> HIDE DEF D
    <2> QED
      BY <1>1, <2>1, LeastNatural
  <1>3. i \in Nat \ {0} /\ ~(Sums!LowBit(i) \in 1 .. i)
    OBVIOUS
  <1>4. ASSUME NEW h \in Nat \ {0}, i = 2 * h, h < i, Sums!LowBit(i) = 2 * Sums!LowBit(h)
        PROVE  FALSE
    <2>1. Sums!LowBit(h) \in 1 .. h
      BY <1>2, <1>4
    <2> QED
      BY <1>3, <1>4, <2>1
  <1>5. ASSUME NEW h \in Nat, i = 2 * h + 1, Sums!LowBit(i) = 1
        PROVE  FALSE
    BY <1>3, <1>5
  <1> QED
    BY <1>3, <1>4, <1>5, OddOrDouble

\* What node i counts ends at i.  No node between i and the next one on the way
\* up counts i, and the nodes that count the next one count i, too.
NextUp(i) == i + Sums!LowBit(i)
Skips(i) == \A j \in Nat : i < j /\ j < NextUp(i) => Sums!LowBit(j) <= j - i
Inherits(i) ==
    \A j \in Nat : NextUp(i) <= j /\ j - Sums!LowBit(j) < NextUp(i) => j - Sums!LowBit(j) < i

LEMMA OddSkips ==
    ASSUME NEW h \in Nat, NEW i, i = 2 * h + 1, Sums!LowBit(i) = 1
    PROVE  Skips(i) /\ Inherits(i)
  <1>1. Skips(i)
    BY DEF Skips, NextUp
  <1>2. ASSUME NEW j \in Nat, i + 1 <= j, j - Sums!LowBit(j) < i + 1
        PROVE  j - Sums!LowBit(j) < i
    <2>1. j \in Nat \ {0}
      BY <1>2
    <2>2. CASE \E g \in Nat : j = 2 * g + 1 /\ Sums!LowBit(j) = 1
      BY <1>2, <2>2
    <2>3. CASE \E g \in Nat \ {0} : j = 2 * g /\ g < j /\ Sums!LowBit(j) = 2 * Sums!LowBit(g)
      <3>1. PICK g \in Nat \ {0} : j = 2 * g /\ Sums!LowBit(j) = 2 * Sums!LowBit(g)
        BY <2>3
      <3>2. Sums!LowBit(g) \in 1 .. g
        BY LowBitType
      <3> QED
        BY <1>2, <3>1, <3>2
    <2> QED
      BY <2>1, <2>2, <2>3, OddOrDouble
  <1> QED
    BY <1>1, <1>2 DEF Inherits, NextUp

LEMMA DoubleSkips ==
    ASSUME NEW h \in Nat \ {0}, NEW i, i = 2 * h, Sums!LowBit(i) = 2 * Sums!LowBit(h),
           Skips(h), Inherits(h)
    PROVE  Skips(i) /\ Inherits(i)
  <1>0. Sums!LowBit(h) \in 1 .. h
    BY LowBitType
  <1>1. ASSUME NEW j \in Nat, i < j
        PROVE  /\ j < NextUp(i) => Sums!LowBit(j) <= j - i
               /\ NextUp(i) <= j /\ j - Sums!LowBit(j) < NextUp(i) => j - Sums!LowBit(j) < i
    <2>1. j \in Nat \ {0}
      BY <1>1
    <2>2. CASE \E g \in Nat : j = 2 * g + 1 /\ Sums!LowBit(j) = 1
      <3>1. PICK g \in Nat : j = 2 * g + 1 /\ Sums!LowBit(j) = 1
        BY <2>2
      <3> QED
        BY <1>0, <1>1, <3>1 DEF NextUp
    <2>3. CASE \E g \in Nat \ {0} : j = 2 * g /\ g < j /\ Sums!LowBit(j) = 2 * Sums!LowBit(g)
      <3>1. PICK g \in Nat \ {0} : j = 2 * g /\ Sums!LowBit(j) = 2 * Sums!LowBit(g)
        BY <2>3
      <3>2. Sums!LowBit(g) \in 1 .. g
        BY LowBitType
      <3>3. h < g
        BY <1>1, <3>1
      <3>4. g < h + Sums!LowBit(h) => Sums!LowBit(g) <= g - h
        BY <3>3 DEF Skips, NextUp
      <3>5. h + Sums!LowBit(h) <= g /\ g - Sums!LowBit(g) < h + Sums!LowBit(h) => g - Sums!LowBit(g) < h
        BY DEF Inherits, NextUp
      <3> QED
        BY <1>0, <1>1, <3>1, <3>2, <3>4, <3>5 DEF NextUp
    <2> QED
      BY <2>1, <2>2, <2>3, OddOrDouble
  <1>2. \A j \in Nat : NextUp(i) <= j => i < j
    BY <1>0 DEF NextUp
  <1> QED
    BY <1>1, <1>2 DEF Skips, Inherits

LEMMA WayUp == \A i \in Nat \ {0} : Skips(i) /\ Inherits(i)
  <1> DEFINE D == {i \in Nat \ {0} : ~(Skips(i) /\ Inherits(i))}
  <1>1. SUFFICES ASSUME D # {} PROVE FALSE
    OBVIOUS
  <1>2. PICK i \in D : \A j \in D : i <= j
    <2>1. D \subseteq Nat
      OBVIOUS
    <2> HIDE DEF D
    <2> QED
      BY <1>1, <2>1, LeastNatural
  <1>3. i \in Nat \ {0} /\ ~(Skips(i) /\ Inherits(i))
    OBVIOUS
  <1>4. CASE \E h \in Nat : i = 2 * h + 1 /\ Sums!LowBit(i) = 1
    BY <1>3, <1>4, OddSkips
  <1>5. CASE \E h \in Nat \ {0} : i = 2 * h /\ h < i /\ Sums!LowBit(i) = 2 * Sums!LowBit(h)
    <2>1. PICK h \in Nat \ {0} : i = 2 * h /\ h < i /\ Sums!LowBit(i) = 2 * Sums!LowBit(h)
      BY <1>5
    <2>2. Skips(h) /\ Inherits(h)
      BY <1>2, <2>1
    <2> QED
      BY <1>3, <2>1, <2>2, DoubleSkips
  <1> QED
    BY <1>3, <1>4, <1>5, OddOrDouble

-----------------------------------------------------------------------------
(* What the recursions of the tree compute *)

\* t holds the sums of the first values v, and every node of n the sum of the
\* values it stands for.
Accumulates(m, n, v, t) ==
    /\ m \in Nat /\ t \in [0 .. m -> Int] /\ v \in [0 .. m - 1 -> Int]
    /\ t[0] = 0
    /\ \A k \in 1 .. m : t[k] = t[k - 1] + v[k - 1]
    /\ \A i \in 1 .. m : n[i] = t[i] - t[i - Sums!LowBit(i)]

\* The nodes that bitree_prefix_sum comes to stand for all before count.
LEMMA SumBefore ==
    ASSUME NEW t, Accumulates(biSize, biNodes, biValues, t), NEW count \in 0 .. biSize
    PROVE  Sums!Prefix(count) = t[count]
  <1> DEFINE Is(f) == f = [c \in 0 .. biSize |->
                              IF c = 0 THEN 0 ELSE biNodes[c] + f[c - Sums!LowBit(c)]]
             F == CHOOSE f : Is(f)
             D == {c \in 0 .. biSize : F[c] # t[c]}
  <1>0. biSize \in Nat /\ t \in [0 .. biSize -> Int] /\ t[0] = 0
    BY DEF Accumulates
  <1>1. ASSUME NEW c \in 0 .. biSize, c # 0
        PROVE  /\ c - Sums!LowBit(c) \in 0 .. biSize /\ ~(c <= c - Sums!LowBit(c))
               /\ t[c] = biNodes[c] + t[c - Sums!LowBit(c)]
    <2>1. c \in Nat \ {0} /\ c \in 1 .. biSize
      BY <1>0, <1>1
    <2>2. Sums!LowBit(c) \in 1 .. c
      BY <2>1, LowBitType
    <2>3. c - Sums!LowBit(c) \in 0 .. biSize /\ ~(c <= c - Sums!LowBit(c))
      BY <1>0, <2>1, <2>2
    <2>4. biNodes[c] = t[c] - t[c - Sums!LowBit(c)]
      BY <2>1 DEF Accumulates
    <2>5. t[c] \in Int /\ t[c - Sums!LowBit(c)] \in Int
      BY <1>0, <2>3
    <2> QED
      BY <2>3, <2>4, <2>5
  <1>2. Is(t)
    <2>1. \A c \in 0 .. biSize : t[c] = IF c = 0 THEN 0 ELSE biNodes[c] + t[c - Sums!LowBit(c)]
      BY <1>0, <1>1
    <2> QED
      BY <1>0, <2>1
  <1>3. Is(F)
    BY <1>2
  <1>4. Sums!Prefix(count) = F[count]
    BY DEF Sums!Prefix
  <1> HIDE DEF F
  <1>5. SUFFICES ASSUME D # {} PROVE FALSE
    BY <1>4
  <1>6. PICK d \in D : \A c \in D : d <= c
    <2>1. D \subseteq Nat
      BY <1>0
    <2> HIDE DEF D
    <2> QED
      BY <1>5, <2>1, LeastNatural
  <1>7. d \in 0 .. biSize /\ F[d] # t[d]
    OBVIOUS
  <1>8. F[d] = IF d = 0 THEN 0 ELSE biNodes[d] + F[d - Sums!LowBit(d)]
    BY <1>3, <1>7
  <1>9. d # 0
    BY <1>0, <1>7, <1>8
  <1>10. F[d - Sums!LowBit(d)] = t[d - Sums!LowBit(d)]
    BY <1>1, <1>6, <1>7, <1>9
  <1> QED
    BY <1>1, <1>7, <1>8, <1>9, <1>10

\* The values of a range add up to the difference of two sums.
LEMMA SumIs ==
    ASSUME NEW t, Accumulates(biSize, biNodes, biValues, t),
           NEW begin \in 0 .. biSize, NEW end \in 0 .. biSize, begin <= end
    PROVE  Sums!Sum(begin, end) = t[end] - t[begin]
  <1> DEFINE Is(f) == f = [i \in begin .. end |->
                              IF i = begin THEN 0 ELSE f[i - 1] + biValues[i - 1]]
             F == CHOOSE f : Is(f)
             w == [i \in begin .. end |-> t[i] - t[begin]]
             D == {i \in begin .. end : F[i] # w[i]}
  <1>0. biSize \in Nat /\ t \in [0 .. biSize -> Int] /\ biValues \in [0 .. biSize - 1 -> Int]
    BY DEF Accumulates
  <1>1. ASSUME NEW i \in begin .. end, i # begin
        PROVE  i - 1 \in begin .. end /\ w[i] = w[i - 1] + biValues[i - 1]
    <2>1. i - 1 \in begin .. end /\ i \in 1 .. biSize /\ i - 1 \in 0 .. biSize - 1
      BY <1>0, <1>1
    <2>2. t[i] = t[i - 1] + biValues[i - 1]
      BY <2>1 DEF Accumulates
    <2>3. t[i] \in Int /\ t[i - 1] \in Int /\ t[begin] \in Int /\ biValues[i - 1] \in Int
      BY <1>0, <2>1
    <2>4. w[i] = t[i] - t[begin] /\ w[i - 1] = t[i - 1] - t[begin]
      BY <2>1
    <2> QED
      BY <2>1, <2>2, <2>3, <2>4
  <1>2. w[begin] = 0
    BY <1>0
  <1>3. Is(w)
    <2>1. \A i \in begin .. end : w[i] = IF i = begin THEN 0 ELSE w[i - 1] + biValues[i - 1]
      BY <1>1, <1>2
    <2>2. w = [i \in begin .. end |-> w[i]]
      OBVIOUS
    <2> HIDE DEF w
    <2> QED
      BY <2>1, <2>2
  <1>4. Is(F)
    BY <1>3
  <1>5. Sums!Sum(begin, end) = F[end] /\ w[end] = t[end] - t[begin] /\ end \in begin .. end
    BY <1>0 DEF Sums!Sum
  <1> HIDE DEF F, w
  <1>6. SUFFICES ASSUME D # {} PROVE FALSE
    BY <1>5
  <1>7. PICK d \in D : \A c \in D : d <= c
    <2>1. D \subseteq Nat
      BY <1>0
    <2> HIDE DEF D
    <2> QED
      BY <1>6, <2>1, LeastNatural
  <1>8. d \in begin .. end /\ F[d] # w[d]
    OBVIOUS
  <1>9. F[d] = IF d = begin THEN 0 ELSE F[d - 1] + biValues[d - 1]
    BY <1>4, <1>8
  <1>10. d # begin
    BY <1>2, <1>8, <1>9
  <1>11. ~(d <= d - 1)
    BY <1>0, <1>8
  <1>12. F[d - 1] = w[d - 1]
    BY <1>1, <1>7, <1>8, <1>10, <1>11
  <1> QED
    BY <1>1, <1>8, <1>9, <1>10, <1>12

\* The nodes that count i and stand at i or above.
Counting(i) == {j \in 1 .. biSize : i <= j /\ j - Sums!LowBit(j) < i}

LEMMA CountingUp ==
    ASSUME biSize \in Nat, NEW i \in 1 .. 2 * biSize
    PROVE  /\ i > biSize => Counting(i) = {}
           /\ i <= biSize => /\ i + Sums!LowBit(i) \in 1 .. 2 * biSize
                           /\ i < i + Sums!LowBit(i)
                           /\ Counting(i) = {i} \cup Counting(i + Sums!LowBit(i))
  <1>1. i > biSize => Counting(i) = {}
    BY DEF Counting
  <1>2. ASSUME i <= biSize
        PROVE  /\ i + Sums!LowBit(i) \in 1 .. 2 * biSize
               /\ i < i + Sums!LowBit(i)
               /\ Counting(i) = {i} \cup Counting(i + Sums!LowBit(i))
    <2>1. i \in Nat \ {0}
      OBVIOUS
    <2>2. Sums!LowBit(i) \in 1 .. i
      BY <2>1, LowBitType
    <2>3. ASSUME NEW j \in 1 .. biSize
          PROVE  (i <= j /\ j - Sums!LowBit(j) < i)
                 <=> (j = i \/ (i + Sums!LowBit(i) <= j /\ j - Sums!LowBit(j) < i + Sums!LowBit(i)))
      <3>1. j \in Nat \ {0} /\ Sums!LowBit(j) \in 1 .. j
        BY LowBitType
      <3>2. i < j /\ j < i + Sums!LowBit(i) => Sums!LowBit(j) <= j - i
        BY <2>1, <3>1, WayUp DEF Skips, NextUp
      <3>3. i + Sums!LowBit(i) <= j /\ j - Sums!LowBit(j) < i + Sums!LowBit(i) => j - Sums!LowBit(j) < i
        BY <2>1, <3>1, WayUp DEF Inherits, NextUp
      <3> QED
        BY <2>1, <2>2, <3>1, <3>2, <3>3
    <2>4. i \in 1 .. biSize
      BY <1>2, <2>1
    <2>5. Counting(i) = {i} \cup Counting(i + Sums!LowBit(i))
      BY <2>3, <2>4 DEF Counting
    <2>6. i + Sums!LowBit(i) \in 1 .. 2 * biSize /\ i < i + Sums!LowBit(i)
      BY <1>2, <2>1, <2>2
    <2> QED
      BY <2>5, <2>6
  <1> QED
    BY <1>1, <1>2

\* The nodes that bitree_add comes to are those that count the index.
LEMMA NodesAbove ==
    ASSUME biSize \in Nat, NEW index \in 0 .. biSize - 1
    PROVE  Sums!Above(index) = Counting(index + 1)
  <1> DEFINE Is(f) == f = [i \in 1 .. 2 * biSize |->
                              IF i > biSize THEN {} ELSE {i} \cup f[i + Sums!LowBit(i)]]
             F == CHOOSE f : Is(f)
             w == [i \in 1 .. 2 * biSize |-> Counting(i)]
             D == {e \in 0 .. 2 * biSize - 1 : F[2 * biSize - e] # Counting(2 * biSize - e)}
  <1>1. Is(w)
    <2>1. ASSUME NEW i \in 1 .. 2 * biSize
          PROVE  Counting(i) = IF i > biSize THEN {} ELSE {i} \cup w[i + Sums!LowBit(i)]
      <3>1. CASE i > biSize
        BY <3>1, CountingUp
      <3>2. CASE ~(i > biSize)
        <4>1. i <= biSize
          BY <3>2
        <4>2. i + Sums!LowBit(i) \in 1 .. 2 * biSize /\ Counting(i) = {i} \cup Counting(i + Sums!LowBit(i))
          BY <4>1, CountingUp
        <4> QED
          BY <3>2, <4>2
      <3> QED
        BY <3>1, <3>2
    <2> QED
      BY <2>1
  <1>2. Is(F)
    BY <1>1
  <1>3. Sums!Above(index) = F[index + 1]
    BY DEF Sums!Above
  <1> HIDE DEF F, w
  <1>4. ASSUME D # {} PROVE FALSE
    <2>1. PICK d \in D : \A e \in D : d <= e
      <3>1. D \subseteq Nat
        OBVIOUS
      <3> HIDE DEF D
      <3> QED
        BY <1>4, <3>1, LeastNatural
    <2> DEFINE i == 2 * biSize - d
    <2>2. i \in 1 .. 2 * biSize /\ F[i] # Counting(i) /\ d \in 0 .. 2 * biSize - 1
      BY <2>1
    <2> HIDE DEF D
    <2>3. F[i] = IF i > biSize THEN {} ELSE {i} \cup F[i + Sums!LowBit(i)]
      BY <1>2, <2>2
    <2>4. i <= biSize
      <3>1. i \in Nat /\ (i > biSize => Counting(i) = {})
        BY <2>2, CountingUp
      <3> HIDE DEF i
      <3> QED
        BY <2>2, <2>3, <3>1
    <2>5. /\ i + Sums!LowBit(i) \in 1 .. 2 * biSize /\ i < i + Sums!LowBit(i)
          /\ Counting(i) = {i} \cup Counting(i + Sums!LowBit(i))
      BY <2>2, <2>4, CountingUp
    <2> DEFINE e == 2 * biSize - (i + Sums!LowBit(i))
    <2>6. e \in 0 .. 2 * biSize - 1 /\ ~(d <= e) /\ 2 * biSize - e = i + Sums!LowBit(i)
      BY <2>2, <2>5
    <2>7. F[2 * biSize - e] = Counting(2 * biSize - e)
      <3>1. e \notin D
        BY <2>1, <2>6
      <3> QED
        BY <2>6, <3>1 DEF D
    <2>8. ~(i > biSize)
      BY <2>2, <2>4
    <2> HIDE DEF i, e
    <2> QED
      BY <2>2, <2>3, <2>5, <2>6, <2>7, <2>8
  <1>5. F[index + 1] = Counting(index + 1)
    <2> DEFINE e == 2 * biSize - (index + 1)
    <2>1. e \in 0 .. 2 * biSize - 1 /\ 2 * biSize - e = index + 1
      OBVIOUS
    <2> QED
      BY <1>4, <2>1
  <1> QED
    BY <1>3, <1>5

-----------------------------------------------------------------------------
(* The invariant: sums exist wherever there are nodes *)

SumInv ==
    /\ biSize \in Nat
    /\ biNodes # <<>> \/ biSize > 0 => \E t : Accumulates(biSize, biNodes, biValues, t)

\* bitree_add, and so bitree_set: the nodes that count an index are those of
\* the sums beyond it.
LEMMA RaisedSums ==
    ASSUME NEW t, Accumulates(biSize, biNodes, biValues, t),
           NEW index \in 0 .. biSize - 1, NEW delta \in Int, NEW n, NEW v,
           n = [i \in 0 .. biSize |->
                   IF i \in Sums!Above(index) THEN biNodes[i] + delta ELSE biNodes[i]],
           v = [biValues EXCEPT ![index] = biValues[index] + delta]
    PROVE  \E u : Accumulates(biSize, n, v, u)
  <1> DEFINE u == [k \in 0 .. biSize |-> IF index < k THEN t[k] + delta ELSE t[k]]
  <1>0. biSize \in Nat /\ t \in [0 .. biSize -> Int] /\ biValues \in [0 .. biSize - 1 -> Int]
        /\ t[0] = 0
    BY DEF Accumulates
  <1>1. u \in [0 .. biSize -> Int] /\ u[0] = 0 /\ v \in [0 .. biSize - 1 -> Int]
    BY <1>0
  <1>2. ASSUME NEW k \in 1 .. biSize
        PROVE  u[k] = u[k - 1] + v[k - 1]
    <2>1. k - 1 \in 0 .. biSize - 1 /\ k \in 0 .. biSize /\ k - 1 \in 0 .. biSize
      BY <1>0
    <2>2. t[k] = t[k - 1] + biValues[k - 1] /\ t[k] \in Int /\ t[k - 1] \in Int
          /\ biValues[k - 1] \in Int
      BY <1>0, <2>1 DEF Accumulates
    <2>3. v[k - 1] = IF k - 1 = index THEN biValues[k - 1] + delta ELSE biValues[k - 1]
      BY <1>0, <2>1
    <2>4. /\ u[k] = IF index < k THEN t[k] + delta ELSE t[k]
          /\ u[k - 1] = IF index < k - 1 THEN t[k - 1] + delta ELSE t[k - 1]
      BY <2>1
    <2> HIDE DEF u
    <2> QED
      BY <2>1, <2>2, <2>3, <2>4
  <1>3. ASSUME NEW i \in 1 .. biSize
        PROVE  n[i] = u[i] - u[i - Sums!LowBit(i)]
    <2>1. i \in Nat \ {0} /\ i \in 0 .. biSize
      BY <1>0
    <2>2. Sums!LowBit(i) \in 1 .. i
      BY <2>1, LowBitType
    <2>3. i - Sums!LowBit(i) \in 0 .. biSize
      BY <1>0, <2>1, <2>2
    <2>4. i \in Sums!Above(index) <=> index + 1 <= i /\ i - Sums!LowBit(i) < index + 1
      BY <1>0, NodesAbove DEF Counting
    <2>5. n[i] = IF i \in Sums!Above(index) THEN biNodes[i] + delta ELSE biNodes[i]
      BY <2>1
    <2>6. biNodes[i] = t[i] - t[i - Sums!LowBit(i)] /\ t[i] \in Int /\ t[i - Sums!LowBit(i)] \in Int
      BY <1>0, <2>1, <2>3 DEF Accumulates
    <2>7. /\ u[i] = IF index < i THEN t[i] + delta ELSE t[i]
          /\ u[i - Sums!LowBit(i)] = IF index < i - Sums!LowBit(i) THEN t[i - Sums!LowBit(i)] + delta
                                ELSE t[i - Sums!LowBit(i)]
      BY <2>1, <2>3
    <2> HIDE DEF u
    <2> QED
      BY <2>1, <2>2, <2>3, <2>4, <2>5, <2>6, <2>7
  <1>4. Accumulates(biSize, n, v, u)
    <2> HIDE DEF u
    <2> QED
      BY <1>0, <1>1, <1>2, <1>3 DEF Accumulates
  <1> QED
    BY <1>4

\* A tree made of m values v.
LEMMA EvenSums ==
    ASSUME NEW m \in Nat, NEW v \in Int, NEW n, NEW vs,
           n = [i \in 0 .. m |-> IF i = 0 THEN 0 ELSE v * Sums!LowBit(i)],
           vs = [i \in 0 .. m - 1 |-> v]
    PROVE  \E t : Accumulates(m, n, vs, t)
  <1> DEFINE t == [k \in 0 .. m |-> v * k]
  <1>1. t \in [0 .. m -> Int] /\ t[0] = 0 /\ vs \in [0 .. m - 1 -> Int]
    <2>1. \A k \in 0 .. m : v * k \in Int
      OBVIOUS
    <2>2. v * 0 = 0 /\ 0 \in 0 .. m
      OBVIOUS
    <2> QED
      BY <2>1, <2>2
  <1>2. ASSUME NEW k \in 1 .. m
        PROVE  t[k] = t[k - 1] + vs[k - 1]
    <2>1. k \in 0 .. m /\ k - 1 \in 0 .. m /\ k - 1 \in 0 .. m - 1
      OBVIOUS
    <2>2. v * k = v * (k - 1) + v
      OBVIOUS
    <2> QED
      BY <2>1, <2>2
  <1>3. ASSUME NEW i \in 1 .. m
        PROVE  n[i] = t[i] - t[i - Sums!LowBit(i)]
    <2>1. i \in Nat \ {0} /\ i \in 0 .. m
      OBVIOUS
    <2>2. Sums!LowBit(i) \in 1 .. i
      BY <2>1, LowBitType
    <2>3. i - Sums!LowBit(i) \in 0 .. m
      BY <2>1, <2>2
    <2>4. ASSUME NEW a \in Int, NEW b \in Int
          PROVE  v * b = v * a - v * (a - b)
      OBVIOUS
    <2>5. v * Sums!LowBit(i) = v * i - v * (i - Sums!LowBit(i))
      BY <2>1, <2>2, <2>4
    <2>6. n[i] = v * Sums!LowBit(i) /\ t[i] = v * i /\ t[i - Sums!LowBit(i)] = v * (i - Sums!LowBit(i))
      BY <2>1, <2>3
    <2> QED
      BY <2>5, <2>6
  <1>4. Accumulates(m, n, vs, t)
    <2> HIDE DEF t
    <2> QED
      BY <1>1, <1>2, <1>3 DEF Accumulates
  <1> QED
    BY <1>4

LEMMA ZeroSums ==
    ASSUME NEW m \in Nat, NEW n, NEW vs,
           n = [i \in 0 .. m |-> 0], vs = [i \in 0 .. m - 1 |-> 0]
    PROVE  \E t : Accumulates(m, n, vs, t)
  <1> DEFINE t == [k \in 0 .. m |-> 0]
  <1>1. \A i \in 1 .. m : i \in 0 .. m /\ i - 1 \in 0 .. m /\ i - Sums!LowBit(i) \in 0 .. m
    <2>1. ASSUME NEW i \in 1 .. m
          PROVE  i - Sums!LowBit(i) \in 0 .. m
      <3>1. Sums!LowBit(i) \in 1 .. i
        BY LowBitType
      <3> QED
        BY <3>1
    <2> QED
      BY <2>1
  <1>2. Accumulates(m, n, vs, t)
    BY <1>1 DEF Accumulates
  <1> QED
    BY <1>2

LEMMA SumInvStep ==
    ASSUME SumInv, Sums!Next
    PROVE  SumInv'
  <1>1. ASSUME NEW m \in 0 .. MaxIndices, Sums!Create(m)
        PROVE  SumInv'
    BY <1>1, SumsAssumption, ZeroSums DEF Sums!Create, Sums!Zeros, SumInv
  <1>2. ASSUME NEW m \in 0 .. MaxIndices, Sums!Copy(m, MaxValue)
        PROVE  SumInv'
    <2>1. m \in Nat /\ MaxValue \in Int
      BY SumsAssumption
    <2>2. \E t : Accumulates(m, biNodes', biValues', t)
      BY <1>2, <2>1, EvenSums DEF Sums!Copy
    <2> QED
      BY <1>2, <2>1, <2>2 DEF Sums!Copy, SumInv, Accumulates
  <1>3. ASSUME Sums!CreateFails \/ Sums!Destroy \/ Sums!CopyFails
        PROVE  SumInv'
    BY <1>3 DEF Sums!CreateFails, Sums!Destroy, Sums!CopyFails, Sums!Nothing, SumInv
  <1>4. ASSUME Sums!Reset
        PROVE  SumInv'
    BY <1>4, ZeroSums DEF Sums!Reset, Sums!Zeros, SumInv
  <1>5. ASSUME NEW index \in 0 .. MaxIndices, Sums!OutOfRange(index)
        PROVE  SumInv'
    BY <1>5 DEF Sums!OutOfRange, Sums!bitree, SumInv, Accumulates
  <1>6. ASSUME NEW index \in 0 .. MaxIndices, NEW delta \in -MaxValue .. MaxValue, index < biSize
        PROVE  /\ index \in 0 .. biSize - 1 /\ delta \in Int
               /\ \E t : Accumulates(biSize, biNodes, biValues, t)
    BY <1>6, SumsAssumption DEF SumInv
  <1>7. ASSUME NEW index \in 0 .. MaxIndices, NEW delta \in -MaxValue .. MaxValue,
               Sums!Add(index, delta)
        PROVE  SumInv'
    <2>1. index < biSize
      BY <1>7 DEF Sums!Add
    <2>2. PICK t : Accumulates(biSize, biNodes, biValues, t)
      BY <1>6, <2>1
    <2>3. \E u : Accumulates(biSize, biNodes', biValues', u)
      BY <1>6, <1>7, <2>1, <2>2, RaisedSums DEF Sums!Add
    <2> QED
      BY <1>7, <2>3 DEF Sums!Add, SumInv, Accumulates
  <1>8. ASSUME NEW index \in 0 .. MaxIndices, NEW v \in -MaxValue .. MaxValue, Sums!Set(index, v)
        PROVE  SumInv'
    <2>1. index < biSize
      BY <1>8 DEF Sums!Set
    <2>2. PICK t : Accumulates(biSize, biNodes, biValues, t)
      BY <1>6, <2>1
    <2>3. biSize \in Nat /\ index \in 0 .. biSize - 1 /\ v \in Int
          /\ t \in [0 .. biSize -> Int] /\ biValues \in [0 .. biSize - 1 -> Int]
      BY <1>6, <2>1, <2>2 DEF Accumulates
    <2>4. index + 1 \in 1 .. biSize /\ index + 1 \in 0 .. biSize /\ index \in 0 .. biSize
          /\ (index + 1) - 1 = index
      BY <2>3
    <2>5. Sums!RangeSum(index, index + 1) = t[index + 1] - t[index]
      BY <2>2, <2>4, SumBefore DEF Sums!RangeSum
    <2>6. t[index + 1] = t[index] + biValues[index]
      BY <2>2, <2>4 DEF Accumulates
    <2>7. t[index] \in Int /\ biValues[index] \in Int
      BY <2>3, <2>4
    <2> DEFINE delta == v - Sums!RangeSum(index, index + 1)
    <2>8. delta = v - biValues[index] /\ delta \in Int /\ biValues[index] + delta = v
      <3>1. Sums!RangeSum(index, index + 1) = biValues[index]
        BY <2>5, <2>6, <2>7
      <3> QED
        BY <2>3, <2>7, <3>1
    <2>9. biNodes' = [i \in 0 .. biSize |->
                       IF i \in Sums!Above(index) THEN biNodes[i] + delta ELSE biNodes[i]]
      BY <1>8 DEF Sums!Set
    <2>10. biValues' = [biValues EXCEPT ![index] = biValues[index] + delta]
      BY <1>8, <2>8 DEF Sums!Set
    <2>11. \E u : Accumulates(biSize, biNodes', biValues', u)
      <3> HIDE DEF delta
      <3> QED
        BY <2>2, <2>3, <2>8, <2>9, <2>10, RaisedSums
    <2> QED
      BY <1>8, <2>11 DEF Sums!Set, SumInv, Accumulates
  <1> QED
    BY <1>1, <1>2, <1>3, <1>4, <1>5, <1>7, <1>8 DEF Sums!Next

LEMMA SumInvHolds ==
    ASSUME SumInv, [Sums!Next]_(Sums!vars)
    PROVE  SumInv'
  <1>1. CASE UNCHANGED Sums!vars
    BY <1>1 DEF Sums!vars, Sums!bitree, SumInv, Accumulates
  <1> QED
    BY <1>1, SumInvStep

LEMMA SumsFollow ==
    ASSUME SumInv
    PROVE  Sums!SumsExact
  <1>1. SUFFICES ASSUME biNodes # <<>>, NEW begin \in 0 .. biSize, NEW end \in 0 .. biSize,
                        begin <= end
                 PROVE  Sums!RangeSum(begin, end) = Sums!Sum(begin, end)
    BY DEF Sums!SumsExact
  <1>2. PICK t : Accumulates(biSize, biNodes, biValues, t)
    BY <1>1 DEF SumInv
  <1> QED
    BY <1>1, <1>2, SumBefore, SumIs DEF Sums!RangeSum

-----------------------------------------------------------------------------
(* The segment tree of segtree.c: folds *)

LEMMA MergeLaws ==
    ASSUME NEW S
    PROVE  /\ Seg!Identity \in Seq(S)
           /\ \A x \in Seq(S) : Seg!Merge(x, Seg!Identity) = x /\ Seg!Merge(Seg!Identity, x) = x
           /\ \A x, y \in Seq(S) : Seg!Merge(x, y) \in Seq(S)
           /\ \A x, y, z \in Seq(S) : Seg!Merge(Seg!Merge(x, y), z) = Seg!Merge(x, Seg!Merge(y, z))
  <1>1. Seg!Identity \in Seq(S)
    BY EmptySeq DEF Seg!Identity
  <1>2. ASSUME NEW x \in Seq(S)
        PROVE  Seg!Merge(x, Seg!Identity) = x /\ Seg!Merge(Seg!Identity, x) = x
    BY ConcatEmptySeq DEF Seg!Merge, Seg!Identity
  <1>3. ASSUME NEW x \in Seq(S), NEW y \in Seq(S)
        PROVE  Seg!Merge(x, y) \in Seq(S)
    BY ConcatProperties DEF Seg!Merge
  <1>4. ASSUME NEW x \in Seq(S), NEW y \in Seq(S), NEW z \in Seq(S)
        PROVE  Seg!Merge(Seg!Merge(x, y), z) = Seg!Merge(x, Seg!Merge(y, z))
    BY ConcatAssociative DEF Seg!Merge
  <1> QED
    BY <1>1, <1>2, <1>3, <1>4

\* p holds the folds of v from a on, up to m.
Folds(v, a, m, p) == p = [i \in a .. m |-> IF i = a THEN Seg!Identity ELSE Seg!Merge(p[i - 1], v[i - 1])]

LEMMA FoldsAgree ==
    ASSUME NEW v, NEW a \in Int, NEW m \in Int, NEW k \in Int, m <= k, NEW p, NEW q,
           Folds(v, a, m, p), Folds(v, a, k, q)
    PROVE  \A i \in a .. m : p[i] = q[i]
  <1> DEFINE D == {d \in Nat : a + d <= m /\ p[a + d] # q[a + d]}
  <1>1. ASSUME D # {} PROVE FALSE
    <2>1. PICK d \in D : \A n \in D : d <= n
      <3>1. D \subseteq Nat
        OBVIOUS
      <3> HIDE DEF D
      <3> QED
        BY <1>1, <3>1, LeastNatural
    <2>2. d \in Nat /\ a + d \in a .. m /\ a + d \in a .. k /\ p[a + d] # q[a + d]
      OBVIOUS
    <2>3. /\ p[a + d] = IF a + d = a THEN Seg!Identity ELSE Seg!Merge(p[a + d - 1], v[a + d - 1])
          /\ q[a + d] = IF a + d = a THEN Seg!Identity ELSE Seg!Merge(q[a + d - 1], v[a + d - 1])
      BY <2>2 DEF Folds
    <2>4. d # 0 /\ p[a + d - 1] # q[a + d - 1]
      BY <2>2, <2>3
    <2>5. d - 1 \in Nat /\ a + (d - 1) = a + d - 1 /\ a + (d - 1) <= m /\ ~(d <= d - 1)
      BY <2>2, <2>4
    <2> QED
      BY <2>1, <2>4, <2>5
  <1>2. ASSUME NEW i \in a .. m PROVE p[i] = q[i]
    <2>1. i - a \in Nat /\ a + (i - a) = i /\ i <= m
      OBVIOUS
    <2> QED
      BY <1>1, <2>1
  <1> QED
    BY <1>2

LEMMA FoldsExist ==
    ASSUME NEW v, NEW a \in Int
    PROVE  \A d \in Nat : \E p : Folds(v, a, a + d, p)
  <1> DEFINE D == {d \in Nat : ~ \E p : Folds(v, a, a + d, p)}
  <1>1. SUFFICES ASSUME D # {} PROVE FALSE
    OBVIOUS
  <1>2. PICK d \in D : \A n \in D : d <= n
    <2>1. D \subseteq Nat
      OBVIOUS
    <2> HIDE DEF D
    <2> QED
      BY <1>1, <2>1, LeastNatural
  <1>3. d \in Nat /\ ~ \E p : Folds(v, a, a + d, p)
    OBVIOUS
  <1>4. CASE d = 0
    <2> DEFINE p == [i \in a .. a + 0 |-> Seg!Identity]
    <2>1. \A i \in a .. a + 0 : i = a
      OBVIOUS
    <2>2. p = [i \in a .. a + 0 |-> IF i = a THEN Seg!Identity ELSE Seg!Merge(p[i - 1], v[i - 1])]
      BY <2>1
    <2>3. Folds(v, a, a + 0, p)
      BY <2>2 DEF Folds
    <2> QED
      BY <1>3, <1>4, <2>3
  <1>5. CASE d # 0
    <2>1. d - 1 \in Nat /\ ~ (d <= d - 1)
      BY <1>3, <1>5
    <2>2. PICK p : Folds(v, a, a + (d - 1), p)
      BY <1>2, <2>1
    <2> DEFINE q == [i \in a .. a + d |-> IF i = a THEN Seg!Identity ELSE Seg!Merge(p[i - 1], v[i - 1])]
    <2>3. ASSUME NEW i \in a .. a + (d - 1)
          PROVE  q[i] = p[i]
      <3>1. i \in a .. a + d
        BY <1>3
      <3> QED
        BY <2>2, <3>1 DEF Folds
    <2>4. ASSUME NEW i \in a .. a + d
          PROVE  q[i] = IF i = a THEN Seg!Identity ELSE Seg!Merge(q[i - 1], v[i - 1])
      <3>1. i # a => i - 1 \in a .. a + (d - 1)
        BY <1>3
      <3>2. i # a => q[i - 1] = p[i - 1]
        BY <2>3, <3>1
      <3>3. q[i] = IF i = a THEN Seg!Identity ELSE Seg!Merge(p[i - 1], v[i - 1])
        OBVIOUS
      <3> HIDE DEF q
      <3> QED
        BY <3>2, <3>3
    <2>5. Folds(v, a, a + d, q)
      BY <2>4 DEF Folds
    <2> QED
      BY <1>3, <2>5
  <1> QED
    BY <1>4, <1>5

LEMMA FoldIs ==
    ASSUME NEW v, NEW a \in Int, NEW m \in Int, NEW b \in a .. m, NEW p, Folds(v, a, m, p)
    PROVE  Seg!Fold(v, a, b) = p[b]
  <1> DEFINE F == CHOOSE f : f = [i \in a .. b |->
                                     IF i = a THEN Seg!Identity ELSE Seg!Merge(f[i - 1], v[i - 1])]
  <1>1. F = [i \in a .. b |-> IF i = a THEN Seg!Identity ELSE Seg!Merge(F[i - 1], v[i - 1])]
    <2>1. PICK w : w = [i \in a .. b |-> IF i = a THEN Seg!Identity ELSE Seg!Merge(w[i - 1], v[i - 1])]
      <3>1. b - a \in Nat /\ a + (b - a) = b
        OBVIOUS
      <3>2. \E w : Folds(v, a, b, w)
        BY <3>1, FoldsExist
      <3> QED
        BY <3>2 DEF Folds
    <2> QED
      BY <2>1
  <1>2. Seg!Fold(v, a, b) = F[b]
    BY DEF Seg!Fold
  <1> HIDE DEF F
  <1>3. Folds(v, a, b, F)
    BY <1>1 DEF Folds
  <1>4. b \in Int /\ b <= m /\ b \in a .. b
    OBVIOUS
  <1>5. F[b] = p[b]
    BY <1>3, <1>4, FoldsAgree
  <1> QED
    BY <1>2, <1>5

LEMMA FoldSteps ==
    ASSUME NEW v, NEW a \in Int, NEW b \in Int, a <= b
    PROVE  /\ a = b => Seg!Fold(v, a, b) = Seg!Identity
           /\ a < b => Seg!Fold(v, a, b) = Seg!Merge(Seg!Fold(v, a, b - 1), v[b - 1])
  <1>1. PICK p : Folds(v, a, b, p)
    <2>1. b - a \in Nat /\ a + (b - a) = b
      OBVIOUS
    <2> QED
      BY <2>1, FoldsExist
  <1>2. b \in a .. b
    OBVIOUS
  <1>3. Seg!Fold(v, a, b) = p[b] /\ p[b] = IF b = a THEN Seg!Identity ELSE Seg!Merge(p[b - 1], v[b - 1])
    <2>1. Seg!Fold(v, a, b) = p[b]
      BY <1>1, <1>2, FoldIs
    <2>2. p[b] = IF b = a THEN Seg!Identity ELSE Seg!Merge(p[b - 1], v[b - 1])
      BY <1>1, <1>2 DEF Folds
    <2> QED
      BY <2>1, <2>2
  <1>4. ASSUME a < b PROVE Seg!Fold(v, a, b - 1) = p[b - 1]
    <2>1. b - 1 \in a .. b
      BY <1>4
    <2> QED
      BY <1>1, <2>1, FoldIs
  <1> QED
    BY <1>3, <1>4

\* v holds values from a on and before b.
ValuesIn(S, v, a, b) == \A i \in a .. b - 1 : v[i] \in Seq(S)

LEMMA FoldType ==
    ASSUME NEW S, NEW v, NEW a \in Int, NEW b \in Int, a <= b, ValuesIn(S, v, a, b)
    PROVE  Seg!Fold(v, a, b) \in Seq(S)
  <1> DEFINE D == {d \in Nat : a + d <= b /\ Seg!Fold(v, a, a + d) \notin Seq(S)}
  <1>1. ASSUME D # {} PROVE FALSE
    <2>1. PICK d \in D : \A n \in D : d <= n
      <3>1. D \subseteq Nat
        OBVIOUS
      <3> HIDE DEF D
      <3> QED
        BY <1>1, <3>1, LeastNatural
    <2>2. d \in Nat /\ a + d <= b /\ Seg!Fold(v, a, a + d) \notin Seq(S)
      OBVIOUS
    <2>3. a + d \in Int /\ a <= a + d
      BY <2>2
    <2>4. CASE d = 0
      <3>1. Seg!Fold(v, a, a + d) = Seg!Identity
        BY <2>3, <2>4, FoldSteps
      <3> QED
        BY <2>2, <3>1, MergeLaws
    <2>5. CASE d # 0
      <3>1. d - 1 \in Nat /\ a + (d - 1) = a + d - 1 /\ a + (d - 1) <= b /\ ~(d <= d - 1)
            /\ a < a + d /\ a + d - 1 \in a .. b - 1
        BY <2>2, <2>5
      <3>2. Seg!Fold(v, a, a + d - 1) \in Seq(S)
        <4>1. d - 1 \notin D
          BY <2>1, <3>1
        <4> QED
          BY <3>1, <4>1
      <3>3. v[a + d - 1] \in Seq(S)
        BY <3>1 DEF ValuesIn
      <3>4. Seg!Fold(v, a, a + d) = Seg!Merge(Seg!Fold(v, a, a + d - 1), v[a + d - 1])
        BY <2>3, <3>1, FoldSteps
      <3> QED
        BY <2>2, <3>2, <3>3, <3>4, MergeLaws
    <2> QED
      BY <2>4, <2>5
  <1>2. b - a \in Nat /\ a + (b - a) = b /\ b <= b
    OBVIOUS
  <1> QED
    BY <1>1, <1>2

\* What v holds from a on and before b, w holds from c on and before e.
SameValues(v, a, b, w, c, e) == e - c = b - a /\ \A i \in 0 .. b - a - 1 : v[a + i] = w[c + i]

LEMMA FoldSame ==
    ASSUME NEW v, NEW w, NEW a \in Int, NEW b \in Int, a <= b,
           NEW c \in Int, NEW e \in Int, SameValues(v, a, b, w, c, e)
    PROVE  Seg!Fold(v, a, b) = Seg!Fold(w, c, e)
  <1> DEFINE m == b - a
  <1>0. m \in Nat /\ b = a + m /\ e = c + m /\ \A i \in 0 .. m - 1 : v[a + i] = w[c + i]
    BY DEF SameValues
  <1> HIDE DEF m
  <1> DEFINE D == {d \in Nat : d <= m /\ Seg!Fold(v, a, a + d) # Seg!Fold(w, c, c + d)}
  <1>1. ASSUME D # {} PROVE FALSE
    <2>1. PICK d \in D : \A n \in D : d <= n
      <3>1. D \subseteq Nat
        OBVIOUS
      <3> HIDE DEF D
      <3> QED
        BY <1>1, <3>1, LeastNatural
    <2>2. d \in Nat /\ d <= m /\ Seg!Fold(v, a, a + d) # Seg!Fold(w, c, c + d)
      OBVIOUS
    <2>3. a + d \in Int /\ a <= a + d /\ c + d \in Int /\ c <= c + d
      BY <2>2
    <2>4. CASE d = 0
      <3>1. Seg!Fold(v, a, a + d) = Seg!Identity /\ Seg!Fold(w, c, c + d) = Seg!Identity
        BY <2>3, <2>4, FoldSteps
      <3> QED
        BY <2>2, <3>1
    <2>5. CASE d # 0
      <3>1. /\ d - 1 \in Nat /\ d - 1 <= m /\ ~(d <= d - 1) /\ d - 1 \in 0 .. m - 1
            /\ a + (d - 1) = a + d - 1 /\ c + (d - 1) = c + d - 1 /\ a < a + d /\ c < c + d
        BY <1>0, <2>2, <2>5
      <3>2. Seg!Fold(v, a, a + d - 1) = Seg!Fold(w, c, c + d - 1)
        <4>1. d - 1 \notin D
          BY <2>1, <3>1
        <4> QED
          BY <3>1, <4>1
      <3>3. v[a + d - 1] = w[c + d - 1]
        BY <1>0, <3>1
      <3>4. /\ Seg!Fold(v, a, a + d) = Seg!Merge(Seg!Fold(v, a, a + d - 1), v[a + d - 1])
            /\ Seg!Fold(w, c, c + d) = Seg!Merge(Seg!Fold(w, c, c + d - 1), w[c + d - 1])
        BY <2>3, <3>1, FoldSteps
      <3> QED
        BY <2>2, <3>2, <3>3, <3>4
    <2> QED
      BY <2>4, <2>5
  <1>2. m \in Nat /\ m <= m
    BY <1>0
  <1>3. m \notin D
    BY <1>1
  <1> QED
    BY <1>0, <1>2, <1>3

\* The first value may be merged last, since merging is associative.
LEMMA FoldHead ==
    ASSUME NEW S, NEW v, NEW a \in Int, NEW b \in Int, a < b, ValuesIn(S, v, a, b)
    PROVE  Seg!Fold(v, a, b) = Seg!Merge(v[a], Seg!Fold(v, a + 1, b))
  <1> DEFINE P(e) == Seg!Fold(v, a, e) = Seg!Merge(v[a], Seg!Fold(v, a + 1, e))
             D == {d \in Nat : a + 1 + d <= b /\ ~P(a + 1 + d)}
  <1>0. a + 1 \in Int /\ v[a] \in Seq(S) /\ a \in a .. b - 1
    BY DEF ValuesIn
  <1>1. ASSUME D # {} PROVE FALSE
    <2>1. PICK d \in D : \A n \in D : d <= n
      <3>1. D \subseteq Nat
        OBVIOUS
      <3> HIDE DEF D
      <3> QED
        BY <1>1, <3>1, LeastNatural
    <2> DEFINE e == a + 1 + d
    <2>2. d \in Nat /\ e \in Int /\ e <= b /\ ~P(e) /\ a < e /\ a + 1 <= e
      OBVIOUS
    <2>3. Seg!Fold(v, a, e) = Seg!Merge(Seg!Fold(v, a, e - 1), v[e - 1])
      <3> HIDE DEF e
      <3> QED
        BY <2>2, FoldSteps
    <2>4. CASE d = 0
      <3>1. e = a + 1 /\ e - 1 = a
        BY <2>4
      <3> HIDE DEF e
      <3>2. Seg!Fold(v, a + 1, e) = Seg!Identity /\ Seg!Fold(v, a, a) = Seg!Identity
        BY <1>0, <2>2, <3>1, FoldSteps
      <3>3. Seg!Fold(v, a, e) = v[a] /\ Seg!Merge(v[a], Seg!Fold(v, a + 1, e)) = v[a]
        BY <1>0, <2>3, <3>1, <3>2, MergeLaws
      <3> QED
        BY <2>2, <3>3
    <2>5. CASE d # 0
      <3>1. /\ d - 1 \in Nat /\ ~(d <= d - 1) /\ a + 1 + (d - 1) = e - 1 /\ e - 1 <= b
            /\ a + 1 < e /\ a + 1 <= e - 1 /\ e - 1 \in a .. b - 1
        BY <2>2, <2>5
      <3>2. P(e - 1)
        <4>1. d - 1 \notin D
          BY <2>1, <3>1
        <4> QED
          BY <3>1, <4>1
      <3> HIDE DEF e
      <3>3. Seg!Fold(v, a + 1, e) = Seg!Merge(Seg!Fold(v, a + 1, e - 1), v[e - 1])
        BY <1>0, <2>2, <3>1, FoldSteps
      <3>4. v[e - 1] \in Seq(S) /\ Seg!Fold(v, a + 1, e - 1) \in Seq(S)
        <4>1. ValuesIn(S, v, a + 1, e - 1)
          BY <2>2 DEF ValuesIn
        <4>2. e - 1 \in Int
          BY <2>2
        <4> QED
          BY <1>0, <3>1, <4>1, <4>2, FoldType DEF ValuesIn
      <3>5. Seg!Merge(Seg!Merge(v[a], Seg!Fold(v, a + 1, e - 1)), v[e - 1])
            = Seg!Merge(v[a], Seg!Merge(Seg!Fold(v, a + 1, e - 1), v[e - 1]))
        <4> DEFINE x == v[a]
                   y == Seg!Fold(v, a + 1, e - 1)
                   z == v[e - 1]
        <4>1. x \in Seq(S) /\ y \in Seq(S) /\ z \in Seq(S)
          BY <1>0, <3>4
        <4> HIDE DEF x, y, z
        <4>2. Seg!Merge(Seg!Merge(x, y), z) = Seg!Merge(x, Seg!Merge(y, z))
          BY <4>1, MergeLaws
        <4> QED
          BY <4>2 DEF x, y, z
      <3> QED
        BY <2>2, <2>3, <3>2, <3>3, <3>5
    <2> QED
      BY <2>4, <2>5
  <1>2. b - (a + 1) \in Nat /\ a + 1 + (b - (a + 1)) = b /\ b <= b
    OBVIOUS
  <1> QED
    BY <1>1, <1>2

\* A level of the tree folds to what the level below does.
LEMMA FoldPairs ==
    ASSUME NEW S, NEW v, NEW a \in Int, NEW b \in Int, a <= b,
           ValuesIn(S, v, 2 * a, 2 * b),
           \A k \in a .. b - 1 : v[k] = Seg!Merge(v[2 * k], v[2 * k + 1])
    PROVE  Seg!Fold(v, a, b) = Seg!Fold(v, 2 * a, 2 * b)
  <1> DEFINE P(e) == Seg!Fold(v, a, e) = Seg!Fold(v, 2 * a, 2 * e)
             D == {d \in Nat : a + d <= b /\ ~P(a + d)}
  <1>1. ASSUME D # {} PROVE FALSE
    <2>1. PICK d \in D : \A n \in D : d <= n
      <3>1. D \subseteq Nat
        OBVIOUS
      <3> HIDE DEF D
      <3> QED
        BY <1>1, <3>1, LeastNatural
    <2> DEFINE e == a + d
    <2>2. d \in Nat /\ e \in Int /\ e <= b /\ ~P(e) /\ a <= e
          /\ 2 * a \in Int /\ 2 * e \in Int /\ 2 * a <= 2 * e
      OBVIOUS
    <2>3. CASE d = 0
      <3>1. a = e /\ 2 * a = 2 * e
        BY <2>3
      <3> HIDE DEF e
      <3>2. Seg!Fold(v, a, e) = Seg!Identity /\ Seg!Fold(v, 2 * a, 2 * e) = Seg!Identity
        BY <2>2, <3>1, FoldSteps
      <3> QED
        BY <2>2, <3>2
    <2>4. CASE d # 0
      <3>1. d - 1 \in Nat /\ ~(d <= d - 1) /\ a + (d - 1) = e - 1 /\ e - 1 <= b /\ a < e
        BY <2>2, <2>4
      <3>2. P(e - 1)
        <4>1. d - 1 \notin D
          BY <2>1, <3>1
        <4> QED
          BY <3>1, <4>1
      <3> HIDE DEF e
      <3>3. e - 1 \in a .. b - 1 /\ e - 1 \in Int /\ 2 * (e - 1) \in Int
            /\ 2 * a <= 2 * (e - 1) /\ 2 * (e - 1) + 1 \in Int
            /\ 2 * (e - 1) + 1 = 2 * e - 1 /\ 2 * e - 1 - 1 = 2 * (e - 1)
            /\ 2 * a < 2 * e /\ 2 * a < 2 * e - 1
            /\ 2 * (e - 1) \in 2 * a .. 2 * b - 1 /\ 2 * e - 1 \in 2 * a .. 2 * b - 1
        BY <2>2, <3>1
      <3>4. Seg!Fold(v, a, e) = Seg!Merge(Seg!Fold(v, a, e - 1), v[e - 1])
        BY <2>2, <3>1, FoldSteps
      <3>5. Seg!Fold(v, 2 * a, 2 * e) = Seg!Merge(Seg!Fold(v, 2 * a, 2 * e - 1), v[2 * e - 1])
        BY <2>2, <3>3, FoldSteps
      <3>6. Seg!Fold(v, 2 * a, 2 * e - 1) = Seg!Merge(Seg!Fold(v, 2 * a, 2 * (e - 1)), v[2 * (e - 1)])
        <4>1. 2 * e - 1 \in Int
          BY <2>2
        <4>2. 2 * a <= 2 * e - 1
          BY <2>2, <3>3
        <4> QED
          BY <2>2, <3>3, <4>1, <4>2, FoldSteps
      <3>7. v[e - 1] = Seg!Merge(v[2 * (e - 1)], v[2 * e - 1])
        BY <3>3
      <3>8. /\ v[2 * (e - 1)] \in Seq(S) /\ v[2 * e - 1] \in Seq(S)
            /\ Seg!Fold(v, 2 * a, 2 * (e - 1)) \in Seq(S)
        <4>1. ValuesIn(S, v, 2 * a, 2 * (e - 1))
          BY <2>2 DEF ValuesIn
        <4> QED
          BY <2>2, <3>3, <4>1, FoldType DEF ValuesIn
      <3>9. Seg!Merge(Seg!Merge(Seg!Fold(v, 2 * a, 2 * (e - 1)), v[2 * (e - 1)]), v[2 * e - 1])
            = Seg!Merge(Seg!Fold(v, 2 * a, 2 * (e - 1)), Seg!Merge(v[2 * (e - 1)], v[2 * e - 1]))
        <4> DEFINE x == Seg!Fold(v, 2 * a, 2 * (e - 1))
                   y == v[2 * (e - 1)]
                   z == v[2 * e - 1]
        <4>1. x \in Seq(S) /\ y \in Seq(S) /\ z \in Seq(S)
          BY <3>8
        <4> HIDE DEF x, y, z
        <4>2. Seg!Merge(Seg!Merge(x, y), z) = Seg!Merge(x, Seg!Merge(y, z))
          BY <4>1, MergeLaws
        <4> QED
          BY <4>2 DEF x, y, z
      <3> QED
        BY <2>2, <3>2, <3>4, <3>5, <3>6, <3>7, <3>9
    <2> QED
      BY <2>3, <2>4
  <1>2. b - a \in Nat /\ a + (b - a) = b /\ b <= b
    OBVIOUS
  <1> QED
    BY <1>1, <1>2

-----------------------------------------------------------------------------
(* The capacity, the way up, and the nodes of a tree that was built *)

\* What segtree_next_capacity doubles c to, from the numbers from b on.
Doublings(n, b, f) == f = [c \in b .. 2 * n + 1 |-> IF c >= n THEN c ELSE f[2 * c]]

LEMMA DoublingsExist ==
    ASSUME NEW n \in Nat
    PROVE  \A d \in Nat : d <= 2 * n => \E f : Doublings(n, 2 * n + 1 - d, f)
  <1> DEFINE D == {d \in Nat : d <= 2 * n /\ ~ \E f : Doublings(n, 2 * n + 1 - d, f)}
  <1>1. SUFFICES ASSUME D # {} PROVE FALSE
    OBVIOUS
  <1>2. PICK d \in D : \A e \in D : d <= e
    <2>1. D \subseteq Nat
      OBVIOUS
    <2> HIDE DEF D
    <2> QED
      BY <1>1, <2>1, LeastNatural
  <1>3. d \in Nat /\ d <= 2 * n /\ ~ \E f : Doublings(n, 2 * n + 1 - d, f)
    OBVIOUS
  <1> DEFINE b == 2 * n + 1 - d
  <1>4. CASE d = 0
    <2> DEFINE f == [c \in b .. 2 * n + 1 |-> c]
    <2>1. \A c \in b .. 2 * n + 1 : c >= n
      BY <1>4
    <2>2. Doublings(n, b, f)
      BY <2>1 DEF Doublings
    <2> QED
      BY <1>3, <2>2
  <1>5. CASE d # 0
    <2>1. /\ d - 1 \in Nat /\ d - 1 <= 2 * n /\ ~ (d <= d - 1) /\ 2 * n + 1 - (d - 1) = b + 1
          /\ b \in Nat \ {0}
      BY <1>3, <1>5
    <2>2. PICK f : Doublings(n, b + 1, f)
      <3>1. d - 1 \notin D
        BY <1>2, <2>1
      <3> QED
        BY <2>1, <3>1
    <2> HIDE DEF b
    <2> DEFINE h == [c \in b .. 2 * n + 1 |-> IF c >= n THEN c ELSE f[2 * c]]
    <2>3. ASSUME NEW c \in b + 1 .. 2 * n + 1
          PROVE  h[c] = f[c]
      <3>1. c \in b .. 2 * n + 1
        BY <2>1
      <3> QED
        BY <2>2, <3>1 DEF Doublings
    <2>4. ASSUME NEW c \in b .. 2 * n + 1
          PROVE  h[c] = IF c >= n THEN c ELSE h[2 * c]
      <3>1. c < n => 2 * c \in b + 1 .. 2 * n + 1
        BY <2>1
      <3>2. c < n => h[2 * c] = f[2 * c]
        BY <2>3, <3>1
      <3>3. h[c] = IF c >= n THEN c ELSE f[2 * c]
        OBVIOUS
      <3>4. ~(c >= n) => c < n
        BY <2>1
      <3> HIDE DEF h
      <3> QED
        BY <3>2, <3>3, <3>4
    <2>5. Doublings(n, b, h)
      BY <2>4 DEF Doublings
    <2> QED
      BY <1>3, <2>5 DEF b
  <1> QED
    BY <1>4, <1>5

LEMMA CapacityIs ==
    ASSUME NEW n \in Nat
    PROVE  Seg!NextCapacity(n) \in Nat \ {0} /\ n <= Seg!NextCapacity(n)
  <1> DEFINE F == CHOOSE f : f = [c \in 1 .. 2 * n + 1 |-> IF c >= n THEN c ELSE f[2 * c]]
             D == {d \in Nat : /\ d <= 2 * n
                               /\ ~(/\ F[2 * n + 1 - d] \in Nat \ {0}
                                    /\ n <= F[2 * n + 1 - d])}
  <1>1. F = [c \in 1 .. 2 * n + 1 |-> IF c >= n THEN c ELSE F[2 * c]]
    <2>1. PICK w : w = [c \in 1 .. 2 * n + 1 |-> IF c >= n THEN c ELSE w[2 * c]]
      <3>1. 2 * n \in Nat /\ 2 * n <= 2 * n /\ 2 * n + 1 - 2 * n = 1
        OBVIOUS
      <3>2. \E f : Doublings(n, 1, f)
        BY <3>1, DoublingsExist
      <3> QED
        BY <3>2 DEF Doublings
    <2> QED
      BY <2>1
  <1>2. Seg!NextCapacity(n) = F[1]
    BY DEF Seg!NextCapacity
  <1> HIDE DEF F
  <1>3. ASSUME D # {} PROVE FALSE
    <2>1. PICK d \in D : \A e \in D : d <= e
      <3>1. D \subseteq Nat
        OBVIOUS
      <3> HIDE DEF D
      <3> QED
        BY <1>3, <3>1, LeastNatural
    <2> DEFINE c == 2 * n + 1 - d
    <2>2. d \in Nat /\ d <= 2 * n /\ ~(F[c] \in Nat \ {0} /\ n <= F[c])
          /\ c \in 1 .. 2 * n + 1
      OBVIOUS
    <2>3. F[c] = IF c >= n THEN c ELSE F[2 * c]
      BY <1>1, <2>2
    <2>4. c < n /\ F[c] = F[2 * c]
      <3>1. c \in Nat \ {0}
        BY <2>2
      <3> HIDE DEF c
      <3> QED
        BY <2>2, <2>3, <3>1
    <2> DEFINE e == 2 * n + 1 - 2 * c
    <2>5. e \in Nat /\ e <= 2 * n /\ ~(d <= e) /\ 2 * n + 1 - e = 2 * c
      BY <2>2, <2>4
    <2>6. e \notin D
      BY <2>1, <2>5
    <2>7. F[2 * c] \in Nat \ {0} /\ n <= F[2 * c]
      <3>1. F[2 * n + 1 - e] \in Nat \ {0} /\ n <= F[2 * n + 1 - e]
        BY <2>5, <2>6
      <3> QED
        BY <2>5, <3>1
    <2> QED
      BY <2>2, <2>4, <2>7
  <1>4. 2 * n \in Nat /\ 2 * n <= 2 * n /\ 2 * n + 1 - 2 * n = 1
    OBVIOUS
  <1>5. F[2 * n + 1 - 2 * n] \in Nat \ {0} /\ n <= F[2 * n + 1 - 2 * n]
    BY <1>3, <1>4
  <1> QED
    BY <1>2, <1>4, <1>5

\* g holds the ways up of the nodes up to m.
Ways(m, g) == g = [j \in 0 .. m |-> IF j = 0 THEN {} ELSE {j} \cup g[j \div 2]]

LEMMA HalfIs ==
    ASSUME NEW j \in Nat \ {0}
    PROVE  j \div 2 \in Nat /\ j \div 2 < j /\ j \div 2 <= j - 1
  OBVIOUS

LEMMA WaysAgree ==
    ASSUME NEW m \in Nat, NEW k \in Nat, m <= k, NEW g, NEW h, Ways(m, g), Ways(k, h)
    PROVE  \A j \in 0 .. m : g[j] = h[j]
  <1> DEFINE D == {j \in 0 .. m : g[j] # h[j]}
  <1>1. SUFFICES ASSUME D # {} PROVE FALSE
    OBVIOUS
  <1>2. PICK d \in D : \A j \in D : d <= j
    <2>1. D \subseteq Nat
      OBVIOUS
    <2> HIDE DEF D
    <2> QED
      BY <1>1, <2>1, LeastNatural
  <1>3. d \in 0 .. m /\ d \in 0 .. k /\ g[d] # h[d] /\ d \in Nat
    OBVIOUS
  <1>4. /\ g[d] = IF d = 0 THEN {} ELSE {d} \cup g[d \div 2]
        /\ h[d] = IF d = 0 THEN {} ELSE {d} \cup h[d \div 2]
    BY <1>3 DEF Ways
  <1>5. d # 0 /\ g[d \div 2] # h[d \div 2]
    BY <1>3, <1>4
  <1>6. d \div 2 \in 0 .. m /\ ~(d <= d \div 2)
    BY <1>3, <1>5, HalfIs
  <1> QED
    BY <1>2, <1>5, <1>6

LEMMA WaysExist == \A m \in Nat : \E g : Ways(m, g)
  <1> DEFINE D == {m \in Nat : ~ \E g : Ways(m, g)}
  <1>1. SUFFICES ASSUME D # {} PROVE FALSE
    OBVIOUS
  <1>2. PICK m \in D : \A n \in D : m <= n
    <2>1. D \subseteq Nat
      OBVIOUS
    <2> HIDE DEF D
    <2> QED
      BY <1>1, <2>1, LeastNatural
  <1>3. m \in Nat /\ ~ \E g : Ways(m, g)
    OBVIOUS
  <1>4. CASE m = 0
    <2> DEFINE h == [j \in 0 .. 0 |-> {}]
    <2>1. \A j \in 0 .. 0 : j = 0
      OBVIOUS
    <2>2. Ways(0, h)
      BY <2>1 DEF Ways
    <2> QED
      BY <1>3, <1>4, <2>2
  <1>5. CASE m # 0
    <2>1. m - 1 \in Nat /\ ~ (m <= m - 1)
      BY <1>3, <1>5
    <2>2. PICK g : Ways(m - 1, g)
      BY <1>2, <2>1
    <2> DEFINE h == [j \in 0 .. m |-> IF j = 0 THEN {} ELSE {j} \cup g[j \div 2]]
    <2>3. ASSUME NEW j \in 0 .. m - 1
          PROVE  h[j] = g[j]
      <3>1. j \in 0 .. m
        BY <1>3
      <3> QED
        BY <2>2, <3>1 DEF Ways
    <2>4. ASSUME NEW j \in 0 .. m
          PROVE  h[j] = IF j = 0 THEN {} ELSE {j} \cup h[j \div 2]
      <3>1. j # 0 => j \div 2 \in 0 .. m - 1
        BY <1>3, HalfIs
      <3>2. j # 0 => h[j \div 2] = g[j \div 2]
        BY <2>3, <3>1
      <3>3. h[j] = IF j = 0 THEN {} ELSE {j} \cup g[j \div 2]
        OBVIOUS
      <3> HIDE DEF h
      <3> QED
        BY <3>2, <3>3
    <2>5. Ways(m, h)
      BY <2>4 DEF Ways
    <2> QED
      BY <1>3, <2>5
  <1> QED
    BY <1>4, <1>5

LEMMA UpOf ==
    ASSUME NEW m \in Nat, NEW g, Ways(m, g), NEW n \in 0 .. m
    PROVE  Seg!Up(n) = g[n]
  <1> DEFINE F == CHOOSE f : f = [j \in 0 .. n |-> IF j = 0 THEN {} ELSE {j} \cup f[j \div 2]]
  <1>0. n \in Nat /\ n <= m /\ n \in 0 .. n
    OBVIOUS
  <1>1. F = [j \in 0 .. n |-> IF j = 0 THEN {} ELSE {j} \cup F[j \div 2]]
    <2>1. PICK w : w = [j \in 0 .. n |-> IF j = 0 THEN {} ELSE {j} \cup w[j \div 2]]
      <3>1. \E w : Ways(n, w)
        BY <1>0, WaysExist
      <3> QED
        BY <3>1 DEF Ways
    <2> QED
      BY <2>1
  <1>2. Seg!Up(n) = F[n]
    BY DEF Seg!Up
  <1> HIDE DEF F
  <1>3. Ways(n, F)
    BY <1>1 DEF Ways
  <1>4. F[n] = g[n]
    BY <1>0, <1>3, WaysAgree
  <1> QED
    BY <1>2, <1>4

LEMMA UpSteps ==
    ASSUME NEW n \in Nat
    PROVE  Seg!Up(n) = IF n = 0 THEN {} ELSE {n} \cup Seg!Up(n \div 2)
  <1>1. PICK g : Ways(n, g)
    BY WaysExist
  <1>2. n \in 0 .. n /\ (n # 0 => n \div 2 \in 0 .. n)
    BY HalfIs
  <1>3. Seg!Up(n) = g[n] /\ (n # 0 => Seg!Up(n \div 2) = g[n \div 2])
    BY <1>1, <1>2, UpOf
  <1>4. g[n] = IF n = 0 THEN {} ELSE {n} \cup g[n \div 2]
    BY <1>1, <1>2 DEF Ways
  <1> QED
    BY <1>3, <1>4

\* A way up stays below its start, and holds the parents of its nodes.
WayIs(n) ==
    /\ Seg!Up(n) \subseteq 1 .. n
    /\ \A k \in Nat \ {0} : 2 * k \in Seg!Up(n) \/ 2 * k + 1 \in Seg!Up(n) => k \in Seg!Up(n)

LEMMA UpIs == \A n \in Nat : WayIs(n)
  <1> DEFINE D == {n \in Nat : ~WayIs(n)}
  <1>1. SUFFICES ASSUME D # {} PROVE FALSE
    OBVIOUS
  <1>2. PICK n \in D : \A m \in D : n <= m
    <2>1. D \subseteq Nat
      OBVIOUS
    <2> HIDE DEF D
    <2> QED
      BY <1>1, <2>1, LeastNatural
  <1>3. n \in Nat /\ ~WayIs(n)
    OBVIOUS
  <1>4. CASE n = 0
    BY <1>3, <1>4, UpSteps DEF WayIs
  <1>5. CASE n # 0
    <2>1. n \div 2 \in Nat /\ n \div 2 < n /\ ~(n <= n \div 2)
      BY <1>3, <1>5, HalfIs
    <2>2. WayIs(n \div 2)
      BY <1>2, <2>1
    <2>3. Seg!Up(n) = {n} \cup Seg!Up(n \div 2)
      BY <1>3, <1>5, UpSteps
    <2>4. Seg!Up(n) \subseteq 1 .. n
      <3>1. 1 .. n \div 2 \subseteq 1 .. n /\ n \in 1 .. n
        BY <1>3, <1>5, <2>1
      <3> QED
        BY <2>2, <2>3, <3>1 DEF WayIs
    <2>5. ASSUME NEW k \in Nat \ {0}, 2 * k \in Seg!Up(n) \/ 2 * k + 1 \in Seg!Up(n)
          PROVE  k \in Seg!Up(n)
      <3>1. CASE 2 * k = n \/ 2 * k + 1 = n
        <4>1. n \div 2 = k
          BY <1>3, <3>1
        <4>2. k \in Seg!Up(k)
          BY UpSteps
        <4> QED
          BY <2>3, <4>1, <4>2
      <3>2. CASE 2 * k \in Seg!Up(n \div 2) \/ 2 * k + 1 \in Seg!Up(n \div 2)
        BY <2>2, <2>3, <3>2 DEF WayIs
      <3> QED
        BY <2>3, <2>5, <3>1, <3>2
    <2> QED
      BY <1>3, <2>4, <2>5 DEF WayIs
  <1> QED
    BY <1>4, <1>5

\* f holds the nodes from b on of a tree over the leaves in w.
Trees(cap, w, b, f) ==
    f = [n \in b .. 2 * cap - 1 |->
            IF n \in 1 .. cap - 1 THEN Seg!Merge(f[2 * n], f[2 * n + 1]) ELSE w[n]]

LEMMA TreesExist ==
    ASSUME NEW cap \in Nat \ {0}, NEW w
    PROVE  \A d \in Nat : d <= 2 * cap => \E f : Trees(cap, w, 2 * cap - d, f)
  <1> DEFINE D == {d \in Nat : d <= 2 * cap /\ ~ \E f : Trees(cap, w, 2 * cap - d, f)}
  <1>1. SUFFICES ASSUME D # {} PROVE FALSE
    OBVIOUS
  <1>2. PICK d \in D : \A e \in D : d <= e
    <2>1. D \subseteq Nat
      OBVIOUS
    <2> HIDE DEF D
    <2> QED
      BY <1>1, <2>1, LeastNatural
  <1>3. d \in Nat /\ d <= 2 * cap /\ ~ \E f : Trees(cap, w, 2 * cap - d, f)
    OBVIOUS
  <1> DEFINE b == 2 * cap - d
  <1>4. CASE d = 0
    <2> DEFINE f == [n \in b .. 2 * cap - 1 |-> w[n]]
    <2>1. b .. 2 * cap - 1 = {}
      BY <1>4
    <2>2. Trees(cap, w, b, f)
      BY <2>1 DEF Trees
    <2> QED
      BY <1>3, <2>2
  <1>5. CASE d # 0
    <2>1. /\ d - 1 \in Nat /\ d - 1 <= 2 * cap /\ ~ (d <= d - 1) /\ 2 * cap - (d - 1) = b + 1
          /\ b \in Nat
      BY <1>3, <1>5
    <2>2. PICK f : Trees(cap, w, b + 1, f)
      <3>1. d - 1 \notin D
        BY <1>2, <2>1
      <3> QED
        BY <2>1, <3>1
    <2> HIDE DEF b
    <2> DEFINE h == [n \in b .. 2 * cap - 1 |->
                        IF n \in 1 .. cap - 1 THEN Seg!Merge(f[2 * n], f[2 * n + 1]) ELSE w[n]]
    <2>3. ASSUME NEW n \in b + 1 .. 2 * cap - 1
          PROVE  h[n] = f[n]
      <3>1. n \in b .. 2 * cap - 1
        BY <2>1
      <3> QED
        BY <2>2, <3>1 DEF Trees
    <2>4. ASSUME NEW n \in b .. 2 * cap - 1
          PROVE  h[n] = IF n \in 1 .. cap - 1 THEN Seg!Merge(h[2 * n], h[2 * n + 1]) ELSE w[n]
      <3>1. n \in 1 .. cap - 1 => 2 * n \in b + 1 .. 2 * cap - 1
                                  /\ 2 * n + 1 \in b + 1 .. 2 * cap - 1
        BY <2>1
      <3>2. n \in 1 .. cap - 1 => h[2 * n] = f[2 * n] /\ h[2 * n + 1] = f[2 * n + 1]
        BY <2>3, <3>1
      <3>3. h[n] = IF n \in 1 .. cap - 1 THEN Seg!Merge(f[2 * n], f[2 * n + 1]) ELSE w[n]
        OBVIOUS
      <3> HIDE DEF h
      <3> QED
        BY <3>2, <3>3
    <2>5. Trees(cap, w, b, h)
      BY <2>4 DEF Trees
    <2> QED
      BY <1>3, <2>5 DEF b
  <1> QED
    BY <1>4, <1>5

LEMMA BuiltIs ==
    ASSUME NEW cap \in Nat \ {0}, NEW a, NEW S,
           \A n \in 0 .. 2 * cap - 1 : Seg!Loaded(cap, a)[n] \in Seq(S)
    PROVE  /\ Seg!Built(cap, a) \in [0 .. 2 * cap - 1 -> Seq(S)]
           /\ \A n \in 0 .. 2 * cap - 1 :
                 Seg!Built(cap, a)[n] =
                     IF n \in 1 .. cap - 1
                       THEN Seg!Merge(Seg!Built(cap, a)[2 * n], Seg!Built(cap, a)[2 * n + 1])
                     ELSE Seg!Loaded(cap, a)[n]
  <1> DEFINE w == Seg!Loaded(cap, a)
             F == CHOOSE f : f = [n \in 0 .. 2 * cap - 1 |->
                     IF n \in 1 .. cap - 1 THEN Seg!Merge(f[2 * n], f[2 * n + 1])
                     ELSE Seg!Loaded(cap, a)[n]]
             D == {d \in Nat : d <= 2 * cap /\ d # 0 /\ F[2 * cap - d] \notin Seq(S)}
  <1>1. F = [n \in 0 .. 2 * cap - 1 |->
                IF n \in 1 .. cap - 1 THEN Seg!Merge(F[2 * n], F[2 * n + 1])
                ELSE Seg!Loaded(cap, a)[n]]
    <2>1. PICK f : f = [n \in 0 .. 2 * cap - 1 |->
                IF n \in 1 .. cap - 1 THEN Seg!Merge(f[2 * n], f[2 * n + 1])
                ELSE Seg!Loaded(cap, a)[n]]
      <3>1. 2 * cap \in Nat /\ 2 * cap <= 2 * cap /\ 2 * cap - 2 * cap = 0
        OBVIOUS
      <3>2. \E f : Trees(cap, Seg!Loaded(cap, a), 0, f)
        BY <3>1, TreesExist
      <3> QED
        BY <3>2 DEF Trees
    <2> QED
      BY <2>1
  <1>2. Seg!Built(cap, a) = F
    BY DEF Seg!Built
  <1> HIDE DEF F
  <1>3. \A n \in 0 .. 2 * cap - 1 :
           F[n] = IF n \in 1 .. cap - 1 THEN Seg!Merge(F[2 * n], F[2 * n + 1])
                  ELSE Seg!Loaded(cap, a)[n]
    BY <1>1
  <1>4. ASSUME D # {} PROVE FALSE
    <2>1. PICK d \in D : \A e \in D : d <= e
      <3>1. D \subseteq Nat
        OBVIOUS
      <3> HIDE DEF D
      <3> QED
        BY <1>4, <3>1, LeastNatural
    <2> DEFINE n == 2 * cap - d
    <2>2. d \in Nat /\ d <= 2 * cap /\ d # 0 /\ F[n] \notin Seq(S) /\ n \in 0 .. 2 * cap - 1
      OBVIOUS
    <2>3. n \in 1 .. cap - 1 /\ F[n] = Seg!Merge(F[2 * n], F[2 * n + 1])
      <3> HIDE DEF n
      <3> QED
        BY <1>3, <2>2
    <2> DEFINE e == 2 * cap - 2 * n
    <2>4. /\ e \in Nat /\ e <= 2 * cap /\ e # 0 /\ ~(d <= e) /\ 2 * cap - e = 2 * n
          /\ e - 1 \in Nat /\ e - 1 <= 2 * cap /\ e - 1 # 0 /\ ~(d <= e - 1)
          /\ 2 * cap - (e - 1) = 2 * n + 1
      BY <2>2, <2>3
    <2>5. F[2 * n] \in Seq(S)
      <3>1. e \notin D
        BY <2>1, <2>4
      <3>2. F[2 * cap - e] \in Seq(S)
        BY <2>4, <3>1
      <3> QED
        BY <2>4, <3>2
    <2>6. F[2 * n + 1] \in Seq(S)
      <3>1. e - 1 \notin D
        BY <2>1, <2>4
      <3>2. F[2 * cap - (e - 1)] \in Seq(S)
        BY <2>4, <3>1
      <3> QED
        BY <2>4, <3>2
    <2>7. Seg!Merge(F[2 * n], F[2 * n + 1]) \in Seq(S)
      BY <2>5, <2>6, MergeLaws
    <2> QED
      BY <2>2, <2>3, <2>7
  <1>5. ASSUME NEW n \in 0 .. 2 * cap - 1 PROVE F[n] \in Seq(S)
    <2>1. 2 * cap - n \in Nat /\ 2 * cap - n <= 2 * cap /\ 2 * cap - n # 0
          /\ 2 * cap - (2 * cap - n) = n
      OBVIOUS
    <2>2. F[2 * cap - (2 * cap - n)] \in Seq(S)
      BY <1>4, <2>1
    <2> QED
      BY <2>1, <2>2
  <1>6. F \in [0 .. 2 * cap - 1 -> Seq(S)]
    BY <1>1, <1>5
  <1> QED
    BY <1>2, <1>3, <1>6

-----------------------------------------------------------------------------
(* The segment tree: its invariant *)

Letters == SegElements \cup UNION {{a[i] : i \in DOMAIN a} : a \in SegArrays}

\* Nodes that a running loop has still to come to.
Pending == IF segPc = "build" THEN 1 .. segAt ELSE IF segPc = "set" THEN Seg!Up(segAt) ELSE {}

\* Every node but the excepted is the merge of its children, none of them excepted.
IsTree(cap, sz, ns, vs, except) ==
    /\ cap \in Nat \ {0} /\ sz \in Nat /\ sz <= cap
    /\ ns \in [0 .. 2 * cap - 1 -> Seq(Letters)]
    /\ vs \in [0 .. sz - 1 -> Seq(Letters)]
    /\ \A i \in 0 .. cap - 1 : ns[cap + i] = IF i < sz THEN vs[i] ELSE Seg!Identity
    /\ except \subseteq 1 .. cap - 1
    /\ \A n \in (1 .. cap - 1) \ except :
          2 * n \notin except /\ 2 * n + 1 \notin except /\ ns[n] = Seg!Merge(ns[2 * n], ns[2 * n + 1])

\* The nodes between left and right are all that the accumulators lack.
QueryShape ==
    /\ segQuery \in [begin : Nat, end : Nat, left : Nat \ {0}, right : Nat,
                  leftValue : Seq(Letters), rightValue : Seq(Letters), spoilt : BOOLEAN]
    /\ segQuery.begin < segQuery.end /\ segQuery.end <= segSize
    /\ segQuery.left <= segQuery.right /\ segQuery.right <= 2 * segCapacity
    /\ \/ segQuery.spoilt
       \/ \E k \in segQuery.left .. segQuery.right - 1 : k \in stale
       \/ Seg!Merge(Seg!Merge(segQuery.leftValue, Seg!Fold(segNodes, segQuery.left, segQuery.right)), segQuery.rightValue)
          = Seg!Fold(segValues, segQuery.begin, segQuery.end)

SegInv ==
    /\ segPc \in {"idle", "build", "set", "query"}
    /\ segSize \in Nat /\ segCapacity \in Nat
    /\ segCapacity = 0 => segSize = 0 /\ segPc = "idle"
    /\ segCapacity > 0 => IsTree(segCapacity, segSize, segNodes, segValues, stale \cup Pending)
    /\ segPc \in {"build", "set"} => segAt \in 0 .. segCapacity - 1
    /\ segPc = "query" => QueryShape
    /\ segPc = "idle" /\ ~segQuery.spoilt => segOut = Seg!Fold(segValues, segQuery.begin, segQuery.end)

LEMMA ArrayTypes ==
    ASSUME NEW a \in SegArrays
    PROVE  Len(a) \in Nat /\ \A i \in 1 .. Len(a) : a[i] \in Letters
  <1>1. a \in Seq({a[i] : i \in DOMAIN a})
    BY SegAssumption
  <1>2. Len(a) \in Nat /\ DOMAIN a = 1 .. Len(a)
    BY <1>1
  <1> QED
    BY <1>2 DEF Letters

LEMMA OneLetter ==
    ASSUME NEW e \in Letters
    PROVE  <<e>> \in Seq(Letters)
  OBVIOUS

\* No query runs, and none has answered last.
LEMMA Returned ==
    ASSUME NEW r, Seg!Return(r), segSize' \in Nat, segCapacity' \in Nat,
           segCapacity' = 0 => segSize' = 0,
           segCapacity' > 0 => IsTree(segCapacity', segSize', segNodes', segValues', stale')
    PROVE  SegInv'
  <1>1. segPc' = "idle" /\ segQuery' = Seg!NoQuery /\ segOut' = Seg!Identity
    BY DEF Seg!Return
  <1>2. Pending' = {}
    BY <1>1 DEF Pending
  <1>3. stale' \cup Pending' = stale'
    BY <1>2
  <1>4. segOut' = Seg!Fold(segValues', segQuery'.begin, segQuery'.end)
    <2>1. segQuery'.begin = 0 /\ segQuery'.end = 0
      BY <1>1 DEF Seg!NoQuery
    <2>2. Seg!Fold(segValues', 0, 0) = Seg!Identity
      BY FoldSteps
    <2> QED
      BY <1>1, <2>1, <2>2
  <1>5. segCapacity' > 0 => IsTree(segCapacity', segSize', segNodes', segValues', stale' \cup Pending')
    BY <1>3
  <1> QED
    BY <1>1, <1>4, <1>5 DEF SegInv

LEMMA InitSeg == Seg!Init => SegInv
  <1> SUFFICES ASSUME Seg!Init PROVE SegInv
    OBVIOUS
  <1>1. segPc = "idle" /\ segQuery = Seg!NoQuery /\ segOut = Seg!Identity /\ segSize = 0 /\ segCapacity = 0
    BY DEF Seg!Init
  <1>2. segQuery.begin = 0 /\ segQuery.end = 0
    BY <1>1 DEF Seg!NoQuery
  <1>3. Seg!Fold(segValues, 0, 0) = Seg!Identity
    BY FoldSteps
  <1> QED
    BY <1>1, <1>2, <1>3 DEF SegInv

LEMMA BlankTree ==
    ASSUME NEW cap \in Nat \ {0}, NEW sz \in Nat, sz <= cap
    PROVE  IsTree(cap, sz, Seg!Blank(cap), [i \in 0 .. sz - 1 |-> Seg!Identity], {})
  <1>1. Seg!Identity \in Seq(Letters) /\ Seg!Merge(Seg!Identity, Seg!Identity) = Seg!Identity
    BY MergeLaws
  <1>2. \A n \in 0 .. 2 * cap - 1 : Seg!Blank(cap)[n] = Seg!Identity
    BY DEF Seg!Blank
  <1>3. \A i \in 0 .. cap - 1 : cap + i \in 0 .. 2 * cap - 1
    OBVIOUS
  <1>4. \A n \in 1 .. cap - 1 : {n, 2 * n, 2 * n + 1} \subseteq 0 .. 2 * cap - 1
    OBVIOUS
  <1>5. Seg!Blank(cap) \in [0 .. 2 * cap - 1 -> Seq(Letters)]
    BY <1>1 DEF Seg!Blank
  <1>6. [i \in 0 .. sz - 1 |-> Seg!Identity] \in [0 .. sz - 1 -> Seq(Letters)]
    BY <1>1
  <1>7. ASSUME NEW i \in 0 .. cap - 1
        PROVE  Seg!Blank(cap)[cap + i]
               = IF i < sz THEN [j \in 0 .. sz - 1 |-> Seg!Identity][i] ELSE Seg!Identity
    <2>1. Seg!Blank(cap)[cap + i] = Seg!Identity
      BY <1>2, <1>3
    <2>2. i < sz => i \in 0 .. sz - 1
      OBVIOUS
    <2> QED
      BY <2>1, <2>2
  <1>8. ASSUME NEW n \in 1 .. cap - 1
        PROVE  Seg!Blank(cap)[n] = Seg!Merge(Seg!Blank(cap)[2 * n], Seg!Blank(cap)[2 * n + 1])
    BY <1>1, <1>2, <1>4
  <1> QED
    BY <1>5, <1>6, <1>7, <1>8 DEF IsTree

LEMMA StoredIs ==
    ASSUME NEW a \in SegArrays
    PROVE  Seg!Stored(a) \in [0 .. Len(a) - 1 -> Seq(Letters)]
  <1>1. Len(a) \in Nat /\ \A i \in 1 .. Len(a) : a[i] \in Letters
    BY ArrayTypes
  <1>2. ASSUME NEW i \in 0 .. Len(a) - 1
        PROVE  <<a[i + 1]>> \in Seq(Letters)
    <2>1. i + 1 \in 1 .. Len(a)
      BY <1>1
    <2> QED
      BY <1>1, <2>1, OneLetter
  <1> QED
    BY <1>2 DEF Seg!Stored

LEMMA LoadedIs ==
    ASSUME NEW a \in SegArrays, NEW cap \in Nat \ {0}, Len(a) <= cap
    PROVE  /\ \A n \in 0 .. 2 * cap - 1 : Seg!Loaded(cap, a)[n] \in Seq(Letters)
           /\ Seg!Loaded(cap, a) \in [0 .. 2 * cap - 1 -> Seq(Letters)]
           /\ \A i \in 0 .. cap - 1 :
                 Seg!Loaded(cap, a)[cap + i] = IF i < Len(a) THEN Seg!Stored(a)[i] ELSE Seg!Identity
  <1>1. Len(a) \in Nat /\ \A i \in 1 .. Len(a) : a[i] \in Letters
    BY ArrayTypes
  <1>2. Seg!Identity \in Seq(Letters)
    BY MergeLaws
  <1>3. ASSUME NEW n \in 0 .. 2 * cap - 1
        PROVE  (IF n - cap \in 0 .. Len(a) - 1 THEN <<a[n - cap + 1]>> ELSE Seg!Identity) \in Seq(Letters)
    <2>1. n - cap \in 0 .. Len(a) - 1 => n - cap + 1 \in 1 .. Len(a)
      BY <1>1
    <2>2. n - cap \in 0 .. Len(a) - 1 => <<a[n - cap + 1]>> \in Seq(Letters)
      BY <1>1, <2>1, OneLetter
    <2> QED
      BY <1>2, <2>2
  <1>4. Seg!Loaded(cap, a) \in [0 .. 2 * cap - 1 -> Seq(Letters)]
    BY <1>3 DEF Seg!Loaded
  <1>5. ASSUME NEW i \in 0 .. cap - 1
        PROVE  Seg!Loaded(cap, a)[cap + i] = IF i < Len(a) THEN Seg!Stored(a)[i] ELSE Seg!Identity
    <2>1. cap + i \in 0 .. 2 * cap - 1 /\ cap + i - cap = i
      OBVIOUS
    <2>2. Seg!Loaded(cap, a)[cap + i] = IF i \in 0 .. Len(a) - 1 THEN <<a[i + 1]>> ELSE Seg!Identity
      BY <2>1 DEF Seg!Loaded
    <2>3. i \in 0 .. Len(a) - 1 <=> i < Len(a)
      BY <1>1
    <2>4. i \in 0 .. Len(a) - 1 => Seg!Stored(a)[i] = <<a[i + 1]>>
      BY DEF Seg!Stored
    <2> QED
      BY <2>2, <2>3, <2>4
  <1>6. \A n \in 0 .. 2 * cap - 1 : Seg!Loaded(cap, a)[n] \in Seq(Letters)
    BY <1>4
  <1> QED
    BY <1>4, <1>5, <1>6

LEMMA LoadedTree ==
    ASSUME NEW a \in SegArrays, NEW cap \in Nat \ {0}, Len(a) <= cap
    PROVE  IsTree(cap, Len(a), Seg!Loaded(cap, a), Seg!Stored(a), 1 .. cap - 1)
  <1>1. Len(a) \in Nat
    BY ArrayTypes
  <1>2. (1 .. cap - 1) \ (1 .. cap - 1) = {}
    OBVIOUS
  <1> QED
    BY <1>1, <1>2, LoadedIs, StoredIs DEF IsTree

LEMMA BuiltTree ==
    ASSUME NEW a \in SegArrays, NEW cap \in Nat \ {0}, Len(a) <= cap
    PROVE  IsTree(cap, Len(a), Seg!Built(cap, a), Seg!Stored(a), {})
  <1> DEFINE b == Seg!Built(cap, a)
  <1>1. Len(a) \in Nat
    BY ArrayTypes
  <1>2. /\ b \in [0 .. 2 * cap - 1 -> Seq(Letters)]
        /\ \A n \in 0 .. 2 * cap - 1 :
              b[n]
              = IF n \in 1 .. cap - 1 THEN Seg!Merge(b[2 * n], b[2 * n + 1]) ELSE Seg!Loaded(cap, a)[n]
    BY LoadedIs, BuiltIs
  <1> HIDE DEF b
  <1>3. ASSUME NEW i \in 0 .. cap - 1
        PROVE  b[cap + i] = IF i < Len(a) THEN Seg!Stored(a)[i] ELSE Seg!Identity
    <2>1. cap + i \in 0 .. 2 * cap - 1 /\ cap + i \notin 1 .. cap - 1
      OBVIOUS
    <2>2. b[cap + i] = Seg!Loaded(cap, a)[cap + i]
      BY <1>2, <2>1
    <2> QED
      BY <2>2, LoadedIs
  <1>4. ASSUME NEW n \in 1 .. cap - 1
        PROVE  b[n] = Seg!Merge(b[2 * n], b[2 * n + 1])
    <2>1. n \in 0 .. 2 * cap - 1
      OBVIOUS
    <2> QED
      BY <1>2, <2>1
  <1>5. IsTree(cap, Len(a), b, Seg!Stored(a), {})
    BY <1>1, <1>2, <1>3, <1>4, StoredIs DEF IsTree
  <1> QED
    BY <1>5 DEF b

\* What the calls that run no loop leave.
LEMMA IdleTree ==
    ASSUME SegInv, segCapacity > 0, segPc \in {"idle", "query"}
    PROVE  IsTree(segCapacity, segSize, segNodes, segValues, stale)
  <1>1. stale \cup Pending = stale
    BY DEF Pending
  <1> QED
    BY <1>1 DEF SegInv

LEMMA FailKeeps ==
    ASSUME SegInv, segPc \in {"idle", "query"}, NEW r, Seg!Return(r), UNCHANGED <<Seg!segtree, segValues, stale>>
    PROVE  SegInv'
  <1>1. segSize' = segSize /\ segCapacity' = segCapacity /\ segNodes' = segNodes /\ segValues' = segValues /\ stale' = stale
    BY DEF Seg!segtree
  <1>2. segSize' \in Nat /\ segCapacity' \in Nat /\ (segCapacity' = 0 => segSize' = 0)
    BY <1>1 DEF SegInv
  <1>3. segCapacity' > 0 => IsTree(segCapacity', segSize', segNodes', segValues', stale')
    <2> SUFFICES ASSUME segCapacity > 0 PROVE IsTree(segCapacity', segSize', segNodes', segValues', stale')
      BY <1>1
    <2>1. IsTree(segCapacity, segSize, segNodes, segValues, stale)
      BY IdleTree
    <2> QED
      BY <1>1, <2>1
  <1> QED
    BY <1>2, <1>3, Returned

LEMMA NothingKeeps ==
    ASSUME NEW r, Seg!Nothing, Seg!Return(r)
    PROVE  SegInv'
  <1>1. segSize' = 0 /\ segCapacity' = 0
    BY DEF Seg!Nothing
  <1>2. segSize' \in Nat /\ segCapacity' \in Nat /\ (segCapacity' = 0 => segSize' = 0) /\ ~(segCapacity' > 0)
    BY <1>1
  <1> QED
    BY <1>2, Returned

LEMMA CreateKeeps ==
    ASSUME NEW a \in SegArrays, Seg!Create(Len(a))
    PROVE  SegInv'
  <1> DEFINE n == Len(a)
  <1>1. n \in Nat
    BY ArrayTypes
  <1> HIDE DEF n
  <1>2. /\ segSize' = n /\ segCapacity' = Seg!NextCapacity(n) /\ segNodes' = Seg!Blank(segCapacity')
        /\ segValues' = [i \in 0 .. n - 1 |-> Seg!Identity] /\ stale' = {} /\ Seg!Return(0)
    BY DEF Seg!Create, n
  <1>3. segCapacity' \in Nat \ {0} /\ n <= segCapacity'
    BY <1>1, <1>2, CapacityIs
  <1>4. IsTree(segCapacity', segSize', segNodes', segValues', stale')
    BY <1>1, <1>2, <1>3, BlankTree
  <1>5. Seg!Return(0) /\ segSize' \in Nat /\ segCapacity' \in Nat /\ (segCapacity' = 0 => segSize' = 0)
    BY <1>1, <1>2, <1>3
  <1> QED
    BY <1>4, <1>5, Returned

LEMMA ResetKeeps ==
    ASSUME SegInv, Seg!Reset
    PROVE  SegInv'
  <1>1. /\ segNodes' = Seg!Blank(segCapacity) /\ segValues' = [i \in 0 .. segSize - 1 |-> Seg!Identity] /\ stale' = {}
        /\ segSize' = segSize /\ segCapacity' = segCapacity /\ Seg!Return(0) /\ segCapacity > 0 /\ segPc = "idle"
    BY DEF Seg!Reset
  <1>2. IsTree(segCapacity, segSize, segNodes, segValues, stale)
    BY <1>1, IdleTree
  <1>3. segCapacity \in Nat \ {0} /\ segSize \in Nat /\ segSize <= segCapacity
    BY <1>2 DEF IsTree
  <1>4. IsTree(segCapacity', segSize', segNodes', segValues', stale')
    BY <1>1, <1>3, BlankTree
  <1>5. Seg!Return(0) /\ segSize' \in Nat /\ segCapacity' \in Nat /\ (segCapacity' = 0 => segSize' = 0)
    BY <1>1, <1>3
  <1> QED
    BY <1>4, <1>5, Returned

LEMMA BuildKeeps ==
    ASSUME SegInv, NEW a \in SegArrays, Seg!Build(a)
    PROVE  SegInv'
  <1>1. /\ segPc = "idle" /\ segCapacity > 0 /\ Len(a) = segSize
        /\ segNodes' = Seg!Loaded(segCapacity, a) /\ segValues' = Seg!Stored(a) /\ stale' = {}
        /\ segPc' = "build" /\ segAt' = segCapacity - 1 /\ segSize' = segSize /\ segCapacity' = segCapacity
    BY DEF Seg!Build
  <1>2. IsTree(segCapacity, segSize, segNodes, segValues, stale)
    BY <1>1, IdleTree
  <1>3. segCapacity \in Nat \ {0} /\ segSize \in Nat /\ segSize <= segCapacity
    BY <1>2 DEF IsTree
  <1>4. IsTree(segCapacity', segSize', segNodes', segValues', 1 .. segCapacity - 1)
    BY <1>1, <1>3, LoadedTree
  <1>5. stale' \cup Pending' = 1 .. segCapacity - 1
    BY <1>1 DEF Pending
  <1>6. segAt' \in 0 .. segCapacity' - 1
    BY <1>1, <1>3
  <1> QED
    BY <1>1, <1>3, <1>4, <1>5, <1>6 DEF SegInv

LEMMA CopyKeeps ==
    ASSUME NEW a \in SegArrays, Seg!Copy(a)
    PROVE  SegInv'
  <1>1. /\ segSize' = Len(a) /\ segCapacity' = Seg!NextCapacity(Len(a)) /\ segNodes' = Seg!Built(segCapacity', a)
        /\ segValues' = Seg!Stored(a) /\ stale' = {} /\ Seg!Return(0)
    BY DEF Seg!Copy
  <1>2. Len(a) \in Nat
    BY ArrayTypes
  <1>3. segCapacity' \in Nat \ {0} /\ Len(a) <= segCapacity'
    BY <1>1, <1>2, CapacityIs
  <1>4. IsTree(segCapacity', segSize', segNodes', segValues', stale')
    BY <1>1, <1>3, BuiltTree
  <1>5. Seg!Return(0) /\ segSize' \in Nat /\ segCapacity' \in Nat /\ (segCapacity' = 0 => segSize' = 0)
    BY <1>1, <1>2, <1>3
  <1> QED
    BY <1>4, <1>5, Returned

LEMMA SetKeeps ==
    ASSUME SegInv, NEW i \in 0 .. segSize, NEW e \in SegElements, Seg!Set(i, e)
    PROVE  SegInv'
  <1> DEFINE leaf == segCapacity + i
             up == (segCapacity + i) \div 2
  <1>1. /\ segPc = "idle" /\ i < segSize
        /\ segNodes' = [segNodes EXCEPT ![leaf] = <<e>>]
        /\ segValues' = [segValues EXCEPT ![i] = <<e>>]
        /\ segPc' = "set" /\ segAt' = up /\ segSize' = segSize /\ segCapacity' = segCapacity /\ stale' = stale
    BY DEF Seg!Set
  <1>2. segCapacity > 0 /\ segSize \in Nat /\ i \in 0 .. segSize - 1
    BY <1>1 DEF SegInv
  <1>3. IsTree(segCapacity, segSize, segNodes, segValues, stale)
    BY <1>1, <1>2, IdleTree
  <1>4. /\ segCapacity \in Nat \ {0} /\ segSize <= segCapacity
        /\ segNodes \in [0 .. 2 * segCapacity - 1 -> Seq(Letters)]
        /\ segValues \in [0 .. segSize - 1 -> Seq(Letters)]
        /\ stale \subseteq 1 .. segCapacity - 1
    BY <1>3 DEF IsTree
  <1>5. /\ leaf \in Nat \ {0} /\ leaf \in 0 .. 2 * segCapacity - 1 /\ up \in 0 .. segCapacity - 1
        /\ (leaf = 2 * up \/ leaf = 2 * up + 1)
    BY <1>2, <1>4
  <1>6. <<e>> \in Seq(Letters)
    BY OneLetter DEF Letters
  <1>7. WayIs(up)
    BY <1>5, UpIs
  <1>8. up # 0 => up \in Seg!Up(up)
    BY <1>5, UpSteps
  <1> HIDE DEF leaf, up
  <1>9. stale \cup Seg!Up(up) \subseteq 1 .. segCapacity - 1
    <2>1. Seg!Up(up) \subseteq 1 .. up
      BY <1>7 DEF WayIs
    <2>2. 1 .. up \subseteq 1 .. segCapacity - 1
      BY <1>4, <1>5
    <2> QED
      BY <1>4, <2>1, <2>2
  <1>10. segNodes' \in [0 .. 2 * segCapacity - 1 -> Seq(Letters)] /\ segValues' \in [0 .. segSize - 1 -> Seq(Letters)]
    BY <1>1, <1>4, <1>6
  <1>11. ASSUME NEW k \in 0 .. segCapacity - 1
         PROVE  segNodes'[segCapacity + k] = IF k < segSize THEN segValues'[k] ELSE Seg!Identity
    <2>1. segCapacity + k \in 0 .. 2 * segCapacity - 1 /\ (segCapacity + k = leaf <=> k = i)
          /\ (k < segSize => k \in 0 .. segSize - 1)
      BY <1>2, <1>4 DEF leaf
    <2>2. segNodes[segCapacity + k] = IF k < segSize THEN segValues[k] ELSE Seg!Identity
      BY <1>3 DEF IsTree
    <2> QED
      BY <1>1, <1>4, <2>1, <2>2
  <1>12. ASSUME NEW n \in (1 .. segCapacity - 1) \ (stale \cup Seg!Up(up))
         PROVE  /\ 2 * n \notin stale \cup Seg!Up(up) /\ 2 * n + 1 \notin stale \cup Seg!Up(up)
                /\ segNodes'[n] = Seg!Merge(segNodes'[2 * n], segNodes'[2 * n + 1])
    <2>1. 2 * n \notin stale /\ 2 * n + 1 \notin stale /\ segNodes[n] = Seg!Merge(segNodes[2 * n], segNodes[2 * n + 1])
      BY <1>3 DEF IsTree
    <2>2. 2 * n \notin Seg!Up(up) /\ 2 * n + 1 \notin Seg!Up(up)
      BY <1>7 DEF WayIs
    <2>3. n # up
      BY <1>8
    <2>4. n # leaf /\ 2 * n # leaf /\ 2 * n + 1 # leaf
          /\ {n, 2 * n, 2 * n + 1} \subseteq 0 .. 2 * segCapacity - 1
      <3>1. leaf >= segCapacity
        BY <1>2, <1>4 DEF leaf
      <3> QED
        BY <1>4, <1>5, <2>3, <3>1
    <2> QED
      BY <1>1, <1>4, <2>1, <2>2, <2>4
  <1>13. IsTree(segCapacity', segSize', segNodes', segValues', stale \cup Seg!Up(up))
    <2>1. IsTree(segCapacity, segSize, segNodes', segValues', stale \cup Seg!Up(up))
      BY <1>2, <1>4, <1>9, <1>10, <1>11, <1>12 DEF IsTree
    <2> QED
      BY <1>1, <2>1
  <1>14. stale' \cup Pending' = stale \cup Seg!Up(up)
    BY <1>1 DEF Pending
  <1> QED
    BY <1>1, <1>2, <1>4, <1>5, <1>13, <1>14 DEF SegInv

\* One more node is merged from its children, which makes it stale if they are.
LEMMA MergedTree ==
    ASSUME NEW cap, NEW sz, NEW ns, NEW vs, NEW st, NEW st2, NEW P, NEW R, NEW n,
           IsTree(cap, sz, ns, vs, st \cup P), P = {n} \cup R,
           \A k \in R : k < n,
           st2 = IF {2 * n, 2 * n + 1} \cap st = {} THEN st \ {n} ELSE st \cup {n}
    PROVE  IsTree(cap, sz, [ns EXCEPT ![n] = Seg!Merge(ns[2 * n], ns[2 * n + 1])], vs, st2 \cup R)
  <1> DEFINE ms == [ns EXCEPT ![n] = Seg!Merge(ns[2 * n], ns[2 * n + 1])]
  <1>1. /\ cap \in Nat \ {0} /\ sz \in Nat /\ sz <= cap
        /\ ns \in [0 .. 2 * cap - 1 -> Seq(Letters)]
        /\ vs \in [0 .. sz - 1 -> Seq(Letters)]
        /\ \A i \in 0 .. cap - 1 : ns[cap + i] = IF i < sz THEN vs[i] ELSE Seg!Identity
        /\ st \cup P \subseteq 1 .. cap - 1
    BY DEF IsTree
  <1>2. n \in 1 .. cap - 1 /\ {2 * n, 2 * n + 1} \subseteq 0 .. 2 * cap - 1
    <2>1. n \in 1 .. cap - 1
      BY <1>1
    <2> QED
      BY <1>1, <2>1
  <1>3. Seg!Merge(ns[2 * n], ns[2 * n + 1]) \in Seq(Letters)
    BY <1>1, <1>2, MergeLaws
  <1>4. ms \in [0 .. 2 * cap - 1 -> Seq(Letters)]
    BY <1>1, <1>3
  <1>5. \A k \in 0 .. 2 * cap - 1 : ms[k] = IF k = n THEN Seg!Merge(ns[2 * n], ns[2 * n + 1]) ELSE ns[k]
    BY <1>1
  <1> HIDE DEF ms
  <1>6. ASSUME NEW i \in 0 .. cap - 1
        PROVE  ms[cap + i] = IF i < sz THEN vs[i] ELSE Seg!Identity
    <2>1. cap + i \in 0 .. 2 * cap - 1 /\ cap + i # n
      BY <1>1, <1>2
    <2> QED
      BY <1>1, <1>5, <2>1
  <1>7. st2 \cup R \subseteq 1 .. cap - 1
    BY <1>1, <1>2
  <1>8. ASSUME NEW k \in (1 .. cap - 1) \ (st2 \cup R)
        PROVE  2 * k \notin st2 \cup R /\ 2 * k + 1 \notin st2 \cup R /\ ms[k] = Seg!Merge(ms[2 * k], ms[2 * k + 1])
    <2>1. {k, 2 * k, 2 * k + 1} \subseteq 0 .. 2 * cap - 1
      BY <1>1
    <2>2. CASE k = n
      <3>1. {2 * n, 2 * n + 1} \cap st = {} /\ st2 = st \ {n}
        BY <2>2
      <3>2. 2 * n \notin R /\ 2 * n + 1 \notin R
        BY <1>1, <1>2
      <3>3. 2 * n # n /\ 2 * n + 1 # n
        BY <1>2
      <3> QED
        BY <1>5, <2>1, <2>2, <3>1, <3>2, <3>3
    <2>3. CASE k # n
      <3>1. k \notin st \cup P
        BY <2>3
      <3>2. 2 * k \notin st \cup P /\ 2 * k + 1 \notin st \cup P /\ ns[k] = Seg!Merge(ns[2 * k], ns[2 * k + 1])
        BY <3>1 DEF IsTree
      <3>3. 2 * k # n /\ 2 * k + 1 # n
        BY <3>2
      <3>4. 2 * k \notin st2 \cup R /\ 2 * k + 1 \notin st2 \cup R
        BY <3>2, <3>3
      <3> QED
        BY <1>5, <2>1, <2>3, <3>2, <3>3, <3>4
    <2> QED
      BY <2>2, <2>3
  <1>9. IsTree(cap, sz, ms, vs, st2 \cup R)
    BY <1>1, <1>4, <1>6, <1>7, <1>8 DEF IsTree
  <1> QED
    BY <1>9 DEF ms

LEMMA StepKeeps ==
    ASSUME SegInv, Seg!Step
    PROVE  SegInv'
  <1>1. /\ segPc \in {"build", "set"} /\ segAt > 0
        /\ segNodes' = [segNodes EXCEPT ![segAt] = Seg!Merge(segNodes[2 * segAt], segNodes[2 * segAt + 1])]
        /\ stale' = IF {2 * segAt, 2 * segAt + 1} \cap stale = {} THEN stale \ {segAt} ELSE stale \cup {segAt}
        /\ segAt' = IF segPc = "build" THEN segAt - 1 ELSE segAt \div 2
        /\ segSize' = segSize /\ segCapacity' = segCapacity /\ segValues' = segValues /\ segPc' = segPc
    BY DEF Seg!Step, Seg!Rebuilt
  <1>2. /\ segSize \in Nat /\ segCapacity \in Nat /\ segAt \in 0 .. segCapacity - 1 /\ segCapacity > 0
        /\ IsTree(segCapacity, segSize, segNodes, segValues, stale \cup Pending)
    BY <1>1 DEF SegInv
  <1>3. segAt \in Nat \ {0} /\ segAt \div 2 \in Nat /\ segAt \div 2 <= segAt - 1
    BY <1>1, <1>2, HalfIs
  <1>4. Pending = {segAt} \cup Pending' /\ \A k \in Pending' : k < segAt
    <2>1. CASE segPc = "build"
      <3>1. Pending = 1 .. segAt /\ Pending' = 1 .. segAt - 1
        BY <1>1, <2>1 DEF Pending
      <3> QED
        BY <1>3, <3>1
    <2>2. CASE segPc = "set"
      <3>1. Pending = Seg!Up(segAt) /\ Pending' = Seg!Up(segAt \div 2)
        BY <1>1, <2>2 DEF Pending
      <3>2. Seg!Up(segAt) = {segAt} \cup Seg!Up(segAt \div 2)
        BY <1>3, UpSteps
      <3>3. Seg!Up(segAt \div 2) \subseteq 1 .. segAt \div 2
        BY <1>3, UpIs DEF WayIs
      <3>4. \A k \in 1 .. segAt \div 2 : k < segAt
        BY <1>3
      <3> QED
        BY <3>1, <3>2, <3>3, <3>4
    <2> QED
      BY <1>1, <2>1, <2>2
  <1>5. IsTree(segCapacity, segSize, segNodes', segValues, stale' \cup Pending')
    BY <1>1, <1>2, <1>4, MergedTree
  <1>6. segAt' \in 0 .. segCapacity - 1
    BY <1>1, <1>2, <1>3
  <1> QED
    BY <1>1, <1>2, <1>5, <1>6 DEF SegInv

LEMMA StepFailsKeeps ==
    ASSUME SegInv, Seg!StepFails
    PROVE  SegInv'
  <1>1. /\ segPc \in {"build", "set"} /\ stale' = stale \cup Pending /\ Seg!Return(-1)
        /\ segSize' = segSize /\ segCapacity' = segCapacity /\ segNodes' = segNodes /\ segValues' = segValues
    BY DEF Seg!StepFails, Pending, Seg!segtree
  <1>2. /\ segSize \in Nat /\ segCapacity \in Nat /\ segCapacity > 0
        /\ IsTree(segCapacity, segSize, segNodes, segValues, stale \cup Pending)
    BY <1>1 DEF SegInv
  <1>3. IsTree(segCapacity', segSize', segNodes', segValues', stale')
    BY <1>1, <1>2
  <1>5. Seg!Return(-1) /\ segSize' \in Nat /\ segCapacity' \in Nat /\ (segCapacity' = 0 => segSize' = 0)
    BY <1>1, <1>2
  <1> QED
    BY <1>3, <1>5, Returned

LEMMA EndKeeps ==
    ASSUME SegInv, Seg!End
    PROVE  SegInv'
  <1>1. /\ segPc \in {"build", "set"} /\ segAt = 0 /\ Seg!Return(0)
        /\ segSize' = segSize /\ segCapacity' = segCapacity /\ segNodes' = segNodes /\ segValues' = segValues /\ stale' = stale
    BY DEF Seg!End, Seg!segtree
  <1>2. /\ segSize \in Nat /\ segCapacity \in Nat /\ segCapacity > 0
        /\ IsTree(segCapacity, segSize, segNodes, segValues, stale \cup Pending)
    BY <1>1 DEF SegInv
  <1>3. Pending = {}
    <2>1. Seg!Up(0) = {} /\ 1 .. 0 = {}
      BY UpSteps
    <2> QED
      BY <1>1, <2>1 DEF Pending
  <1>4. IsTree(segCapacity', segSize', segNodes', segValues', stale')
    <2>1. stale \cup Pending = stale
      BY <1>3
    <2> QED
      BY <1>1, <1>2, <2>1
  <1>5. Seg!Return(0) /\ segSize' \in Nat /\ segCapacity' \in Nat /\ (segCapacity' = 0 => segSize' = 0)
    BY <1>1, <1>2
  <1> QED
    BY <1>4, <1>5, Returned
-----------------------------------------------------------------------------
(* The segment tree: queries *)

LEMMA QueryBeginKeeps ==
    ASSUME SegInv, NEW begin \in Nat, NEW end \in Nat, Seg!QueryBegin(begin, end)
    PROVE  SegInv'
  <1>1. /\ segPc = "idle" /\ begin < end /\ end <= segSize
        /\ segQuery' = [begin |-> begin, end |-> end,
                     left |-> begin + segCapacity, right |-> end + segCapacity,
                     leftValue |-> Seg!Identity, rightValue |-> Seg!Identity, spoilt |-> FALSE]
        /\ segPc' = "query" /\ segSize' = segSize /\ segCapacity' = segCapacity /\ segNodes' = segNodes
        /\ segValues' = segValues /\ stale' = stale
    BY DEF Seg!QueryBegin, Seg!segtree
  <1>2. segSize \in Nat /\ segCapacity \in Nat /\ segCapacity > 0
    BY <1>1 DEF SegInv
  <1>3. IsTree(segCapacity, segSize, segNodes, segValues, stale)
    BY <1>1, <1>2, IdleTree
  <1>4. /\ segSize <= segCapacity /\ segNodes \in [0 .. 2 * segCapacity - 1 -> Seq(Letters)]
        /\ \A i \in 0 .. segCapacity - 1 : segNodes[segCapacity + i] = IF i < segSize THEN segValues[i] ELSE Seg!Identity
    BY <1>3 DEF IsTree
  <1>5. Seg!Identity \in Seq(Letters)
    BY MergeLaws
  <1>6. segQuery' \in [begin : Nat, end : Nat, left : Nat \ {0}, right : Nat,
                    leftValue : Seq(Letters), rightValue : Seq(Letters), spoilt : BOOLEAN]
    BY <1>1, <1>2, <1>5
  <1>7. /\ segQuery'.begin = begin /\ segQuery'.end = end
        /\ segQuery'.left = begin + segCapacity /\ segQuery'.right = end + segCapacity
        /\ segQuery'.leftValue = Seg!Identity /\ segQuery'.rightValue = Seg!Identity
    BY <1>1
  <1> DEFINE m == end - begin
             l == begin + segCapacity
             r == end + segCapacity
  <1>8. m \in Nat /\ begin + m = end /\ l + m = r /\ l \in Int /\ r \in Int /\ l <= r
    BY <1>1, <1>2
  <1>9. ASSUME NEW i \in 0 .. m - 1
        PROVE  segNodes[l + i] = segValues[begin + i]
    <2>1. begin + i \in 0 .. segCapacity - 1 /\ begin + i < segSize /\ l + i = segCapacity + (begin + i)
      BY <1>1, <1>2, <1>4
    <2> QED
      BY <1>4, <2>1
  <1>10. ValuesIn(Letters, segNodes, l, r)
    <2>1. \A i \in l .. r - 1 : i \in 0 .. 2 * segCapacity - 1
      BY <1>1, <1>2, <1>4
    <2> QED
      BY <1>4, <2>1 DEF ValuesIn
  <1> HIDE DEF m, l, r
  <1>11. Seg!Fold(segNodes, l, r) = Seg!Fold(segValues, begin, end)
    <2>1. begin \in Int
      OBVIOUS
    <2>2. \A i \in 0 .. r - l - 1 : segNodes[l + i] = segValues[begin + i]
      BY <1>8, <1>9
    <2>3. end \in Int /\ SameValues(segNodes, l, r, segValues, begin, end)
      BY <1>8, <2>2 DEF SameValues
    <2> QED
      BY <1>8, <2>1, <2>3, FoldSame
  <1>12. Seg!Merge(Seg!Merge(Seg!Identity, Seg!Fold(segNodes, l, r)), Seg!Identity)
         = Seg!Fold(segValues, begin, end)
    <2>1. Seg!Fold(segNodes, l, r) \in Seq(Letters)
      BY <1>8, <1>10, FoldType
    <2> QED
      BY <1>11, <2>1, MergeLaws
  <1>13. Seg!Merge(Seg!Merge(segQuery'.leftValue, Seg!Fold(segNodes', segQuery'.left, segQuery'.right)), segQuery'.rightValue)
         = Seg!Fold(segValues', segQuery'.begin, segQuery'.end)
    BY <1>1, <1>7, <1>12 DEF l, r
  <1>14. /\ segQuery'.begin < segQuery'.end /\ segQuery'.end <= segSize'
         /\ segQuery'.left <= segQuery'.right /\ segQuery'.right <= 2 * segCapacity'
    BY <1>1, <1>2, <1>4, <1>7
  <1>15. QueryShape'
    BY <1>6, <1>13, <1>14 DEF QueryShape
  <1>16. IsTree(segCapacity', segSize', segNodes', segValues', stale' \cup Pending')
    <2>1. stale' \cup Pending' = stale
      BY <1>1 DEF Pending
    <2> QED
      BY <1>1, <1>3, <2>1
  <1> QED
    BY <1>1, <1>2, <1>15, <1>16 DEF SegInv

\* What lies between l and r: the nodes that an iteration merges, and the
\* children of the nodes that it leaves to the next.
LEMMA Bounds ==
    ASSUME NEW l \in Nat \ {0}, NEW r \in Nat, l < r
    PROVE  /\ (l + 1) \div 2 \in Nat \ {0} /\ r \div 2 \in Nat /\ (l + 1) \div 2 <= r \div 2
           /\ 2 * ((l + 1) \div 2) = IF l % 2 = 1 THEN l + 1 ELSE l
           /\ 2 * (r \div 2) = IF r % 2 = 1 THEN r - 1 ELSE r
  <1>1. l = 2 * (l \div 2) + (l % 2) /\ l \div 2 \in Nat /\ l % 2 \in 0 .. 1
    OBVIOUS
  <1>2. r = 2 * (r \div 2) + (r % 2) /\ r \div 2 \in Nat /\ r % 2 \in 0 .. 1
    OBVIOUS
  <1>3. (l + 1) \div 2 = IF l % 2 = 1 THEN l \div 2 + 1 ELSE l \div 2
    BY <1>1
  <1> QED
    BY <1>1, <1>2, <1>3

Peels(S, v, l, r) ==
    LET x == IF Seg!Odd(l) THEN v[l] ELSE Seg!Identity
        y == IF Seg!Odd(r) THEN v[r - 1] ELSE Seg!Identity
        f == Seg!Fold(v, 2 * ((l + 1) \div 2), 2 * (r \div 2))
    IN  /\ x \in Seq(S) /\ y \in Seq(S) /\ f \in Seq(S)
        /\ Seg!Fold(v, l, r) = Seg!Merge(Seg!Merge(x, f), y)

LEMMA Peel ==
    ASSUME NEW S, NEW v, NEW l \in Nat \ {0}, NEW r \in Nat, l < r, ValuesIn(S, v, l, r)
    PROVE  Peels(S, v, l, r)
  <1> DEFINE l2 == 2 * ((l + 1) \div 2)
             r2 == 2 * (r \div 2)
             x == IF Seg!Odd(l) THEN v[l] ELSE Seg!Identity
             y == IF Seg!Odd(r) THEN v[r - 1] ELSE Seg!Identity
             f == Seg!Fold(v, l2, r2)
  <1>1. /\ l2 \in Int /\ r2 \in Int /\ l2 <= r2
        /\ l2 = IF Seg!Odd(l) THEN l + 1 ELSE l
        /\ r2 = IF Seg!Odd(r) THEN r - 1 ELSE r
    BY Bounds DEF Seg!Odd
  <1> HIDE DEF l2, r2
  <1>2. x \in Seq(S) /\ y \in Seq(S)
    <2>1. v[l] \in Seq(S) /\ v[r - 1] \in Seq(S)
      BY DEF ValuesIn
    <2> QED
      BY <2>1, MergeLaws
  <1>3. f \in Seq(S)
    <2>1. ValuesIn(S, v, l2, r2)
      BY <1>1 DEF ValuesIn
    <2> QED
      BY <1>1, <2>1, FoldType
  <1>4. Seg!Fold(v, l, r2) = Seg!Merge(x, f)
    <2>1. CASE Seg!Odd(l)
      <3>1. l2 = l + 1 /\ l < r2 /\ l \in Int
        BY <1>1, <2>1
      <3>2. ValuesIn(S, v, l, r2)
        BY <1>1 DEF ValuesIn
      <3>3. Seg!Fold(v, l, r2) = Seg!Merge(v[l], Seg!Fold(v, l + 1, r2))
        BY <1>1, <3>1, <3>2, FoldHead
      <3> QED
        BY <2>1, <3>1, <3>3
    <2>2. CASE ~Seg!Odd(l)
      <3>1. l2 = l /\ x = Seg!Identity
        BY <1>1, <2>2
      <3>2. Seg!Merge(x, f) = f
        BY <1>3, <3>1, MergeLaws
      <3> QED
        BY <3>1, <3>2
    <2> QED
      BY <2>1, <2>2
  <1>5. Seg!Fold(v, l, r2) \in Seq(S)
    <2>1. Seg!Merge(x, f) \in Seq(S)
      BY <1>2, <1>3, MergeLaws
    <2> QED
      BY <1>4, <2>1
  <1>6. Seg!Fold(v, l, r) = Seg!Merge(Seg!Fold(v, l, r2), y)
    <2>1. CASE Seg!Odd(r)
      <3>1. Seg!Fold(v, l, r) = Seg!Merge(Seg!Fold(v, l, r - 1), v[r - 1])
        BY FoldSteps
      <3> QED
        BY <1>1, <2>1, <3>1
    <2>2. CASE ~Seg!Odd(r)
      <3>1. r2 = r /\ y = Seg!Identity
        BY <1>1, <2>2
      <3>2. Seg!Merge(Seg!Fold(v, l, r2), y) = Seg!Fold(v, l, r2)
        BY <1>5, <3>1, MergeLaws
      <3> QED
        BY <3>1, <3>2
    <2> QED
      BY <2>1, <2>2
  <1>7. Seg!Fold(v, l, r) = Seg!Merge(Seg!Merge(x, f), y)
    BY <1>4, <1>6
  <1> QED
    BY <1>2, <1>3, <1>7 DEF Peels, l2, r2

LEMMA Shuffle ==
    ASSUME NEW S, NEW a \in Seq(S), NEW x \in Seq(S), NEW f \in Seq(S), NEW y \in Seq(S), NEW b \in Seq(S)
    PROVE  Seg!Merge(Seg!Merge(a, Seg!Merge(Seg!Merge(x, f), y)), b)
           = Seg!Merge(Seg!Merge(Seg!Merge(a, x), f), Seg!Merge(y, b))
  <1>1. Seg!Merge(x, f) \in Seq(S) /\ Seg!Merge(a, x) \in Seq(S) /\ Seg!Merge(a, Seg!Merge(x, f)) \in Seq(S)
    BY MergeLaws
  <1>2. Seg!Merge(a, Seg!Merge(Seg!Merge(x, f), y)) = Seg!Merge(Seg!Merge(a, Seg!Merge(x, f)), y)
    BY <1>1, MergeLaws
  <1>3. Seg!Merge(Seg!Merge(Seg!Merge(a, Seg!Merge(x, f)), y), b)
        = Seg!Merge(Seg!Merge(a, Seg!Merge(x, f)), Seg!Merge(y, b))
    BY <1>1, MergeLaws
  <1>4. Seg!Merge(a, Seg!Merge(x, f)) = Seg!Merge(Seg!Merge(a, x), f)
    BY MergeLaws
  <1> QED
    BY <1>2, <1>3, <1>4

LEMMA QueryStepKeeps ==
    ASSUME SegInv, Seg!QueryStep
    PROVE  SegInv'
  <1> DEFINE l == segQuery.left
             r == segQuery.right
             l2 == (segQuery.left + 1) \div 2
             r2 == segQuery.right \div 2
             x == IF Seg!Odd(l) THEN segNodes[l] ELSE Seg!Identity
             y == IF Seg!Odd(r) THEN segNodes[r - 1] ELSE Seg!Identity
             f == Seg!Fold(segNodes, 2 * l2, 2 * r2)
  <1>1. /\ segPc = "query" /\ l < r
        /\ segQuery' = [segQuery EXCEPT
               !.leftValue = IF Seg!Odd(segQuery.left) THEN Seg!Merge(@, segNodes[segQuery.left]) ELSE @,
               !.rightValue
               = IF Seg!Odd(segQuery.right) THEN Seg!Merge(segNodes[segQuery.right - 1], @) ELSE @,
               !.left = (@ + 1) \div 2,
               !.right = @ \div 2,
               !.spoilt = @ \/ Seg!Met \cap stale # {}]
        /\ segSize' = segSize /\ segCapacity' = segCapacity /\ segNodes' = segNodes /\ segPc' = segPc
        /\ segValues' = segValues /\ stale' = stale
    BY DEF Seg!QueryStep, Seg!segtree
  <1>2. QueryShape /\ segSize \in Nat /\ segCapacity \in Nat /\ segCapacity > 0
    BY <1>1 DEF SegInv
  <1>3. IsTree(segCapacity, segSize, segNodes, segValues, stale)
    BY <1>1, <1>2, IdleTree
  <1>4. /\ segQuery \in [begin : Nat, end : Nat, left : Nat \ {0}, right : Nat,
                      leftValue : Seq(Letters), rightValue : Seq(Letters), spoilt : BOOLEAN]
        /\ segQuery.begin < segQuery.end /\ segQuery.end <= segSize /\ r <= 2 * segCapacity
    BY <1>2 DEF QueryShape
  <1>5. /\ segNodes \in [0 .. 2 * segCapacity - 1 -> Seq(Letters)]
        /\ \A n \in (1 .. segCapacity - 1) \ stale :
              2 * n \notin stale /\ 2 * n + 1 \notin stale /\ segNodes[n] = Seg!Merge(segNodes[2 * n], segNodes[2 * n + 1])
    BY <1>3 DEF IsTree
  <1>6. /\ l \in Nat \ {0} /\ r \in Nat /\ segQuery.leftValue \in Seq(Letters)
        /\ segQuery.rightValue \in Seq(Letters) /\ segQuery.spoilt \in BOOLEAN
        /\ segQuery.begin \in Nat /\ segQuery.end \in Nat
    BY <1>4
  <1>7. /\ segQuery'.begin = segQuery.begin /\ segQuery'.end = segQuery.end
        /\ segQuery'.left = l2 /\ segQuery'.right = r2
        /\ segQuery'.leftValue = IF Seg!Odd(l) THEN Seg!Merge(segQuery.leftValue, segNodes[l]) ELSE segQuery.leftValue
        /\ segQuery'.rightValue = IF Seg!Odd(r) THEN Seg!Merge(segNodes[r - 1], segQuery.rightValue) ELSE segQuery.rightValue
        /\ segQuery'.spoilt = (segQuery.spoilt \/ Seg!Met \cap stale # {})
        /\ segQuery' = [begin |-> segQuery'.begin, end |-> segQuery'.end, left |-> segQuery'.left,
                     right |-> segQuery'.right, leftValue |-> segQuery'.leftValue,
                     rightValue |-> segQuery'.rightValue, spoilt |-> segQuery'.spoilt]
    BY <1>1, <1>4
  <1>8. ValuesIn(Letters, segNodes, l, r)
    <2>1. \A i \in l .. r - 1 : i \in 0 .. 2 * segCapacity - 1
      BY <1>2, <1>4, <1>6
    <2> QED
      BY <1>5, <2>1 DEF ValuesIn
  <1>9. /\ l2 \in Nat \ {0} /\ r2 \in Nat /\ l2 <= r2
        /\ 2 * l2 = IF Seg!Odd(l) THEN l + 1 ELSE l
        /\ 2 * r2 = IF Seg!Odd(r) THEN r - 1 ELSE r
    BY <1>1, <1>6, Bounds DEF Seg!Odd
  <1>10. x \in Seq(Letters) /\ y \in Seq(Letters) /\ f \in Seq(Letters)
         /\ Seg!Fold(segNodes, l, r) = Seg!Merge(Seg!Merge(x, f), y)
    <2>1. Peels(Letters, segNodes, l, r)
      <3> HIDE DEF l, r
      <3> QED
        BY <1>1, <1>6, <1>8, Peel
    <2> QED
      BY <2>1 DEF Peels
  <1> HIDE DEF l, r, l2, r2, f
  <1>11. segQuery'.leftValue = Seg!Merge(segQuery.leftValue, x) /\ segQuery'.rightValue = Seg!Merge(y, segQuery.rightValue)
    <2>1. x = IF Seg!Odd(l) THEN segNodes[l] ELSE Seg!Identity
      OBVIOUS
    <2>2. y = IF Seg!Odd(r) THEN segNodes[r - 1] ELSE Seg!Identity
      OBVIOUS
    <2>3. Seg!Merge(segQuery.leftValue, Seg!Identity) = segQuery.leftValue
          /\ Seg!Merge(Seg!Identity, segQuery.rightValue) = segQuery.rightValue
      BY <1>6, MergeLaws
    <2>4. /\ segQuery'.leftValue = IF Seg!Odd(l) THEN Seg!Merge(segQuery.leftValue, segNodes[l]) ELSE segQuery.leftValue
          /\ segQuery'.rightValue = IF Seg!Odd(r) THEN Seg!Merge(segNodes[r - 1], segQuery.rightValue) ELSE segQuery.rightValue
      BY <1>7
    <2> HIDE DEF x, y
    <2>5. segQuery'.leftValue = Seg!Merge(segQuery.leftValue, x)
      <3>1. CASE Seg!Odd(l)
        BY <2>1, <2>4, <3>1
      <3>2. CASE ~Seg!Odd(l)
        BY <2>1, <2>3, <2>4, <3>2
      <3> QED
        BY <3>1, <3>2
    <2>6. segQuery'.rightValue = Seg!Merge(y, segQuery.rightValue)
      <3>1. CASE Seg!Odd(r)
        BY <2>2, <2>4, <3>1
      <3>2. CASE ~Seg!Odd(r)
        BY <2>2, <2>3, <2>4, <3>2
      <3> QED
        BY <3>1, <3>2
    <2> QED
      BY <2>5, <2>6
  <1>12. segQuery'.leftValue \in Seq(Letters) /\ segQuery'.rightValue \in Seq(Letters)
    <2>1. x \in Seq(Letters) /\ y \in Seq(Letters)
      BY <1>10
    <2> HIDE DEF x, y
    <2>2. Seg!Merge(segQuery.leftValue, x) \in Seq(Letters) /\ Seg!Merge(y, segQuery.rightValue) \in Seq(Letters)
      BY <1>6, <2>1, MergeLaws
    <2> QED
      BY <1>11, <2>2
  <1>13. segQuery' \in [begin : Nat, end : Nat, left : Nat \ {0}, right : Nat,
                     leftValue : Seq(Letters), rightValue : Seq(Letters), spoilt : BOOLEAN]
    <2>1. segQuery'.spoilt \in BOOLEAN
      BY <1>6, <1>7
    <2>2. segQuery'.begin \in Nat /\ segQuery'.end \in Nat /\ segQuery'.left \in Nat \ {0} /\ segQuery'.right \in Nat
      BY <1>6, <1>7, <1>9
    <2> QED
      BY <1>7, <1>12, <2>1, <2>2
  <1>14. ASSUME ~segQuery'.spoilt, ~ \E k \in l2 .. r2 - 1 : k \in stale
         PROVE  Seg!Merge(Seg!Merge(segQuery'.leftValue, Seg!Fold(segNodes, l2, r2)), segQuery'.rightValue)
                = Seg!Fold(segValues, segQuery.begin, segQuery.end)
    <2>1. ~segQuery.spoilt /\ Seg!Met \cap stale = {}
      BY <1>7, <1>14
    <2>2. \A k \in l2 .. r2 - 1 :
             /\ k \in (1 .. segCapacity - 1) \ stale
             /\ 2 * k \notin stale /\ 2 * k + 1 \notin stale
             /\ segNodes[k] = Seg!Merge(segNodes[2 * k], segNodes[2 * k + 1])
      <3>1. \A k \in l2 .. r2 - 1 : k \in 1 .. segCapacity - 1
        <4>1. 2 * r2 <= 2 * segCapacity
          BY <1>2, <1>4, <1>6, <1>9
        <4> QED
          BY <1>2, <1>9, <4>1
      <3> QED
        BY <1>5, <1>14, <3>1
    <2>3. ~ \E k \in l .. r - 1 : k \in stale
      <3> SUFFICES ASSUME NEW k \in l .. r - 1, k \in stale PROVE FALSE
        OBVIOUS
      <3>1. CASE Seg!Odd(l) /\ k = l
        BY <2>1, <3>1 DEF Seg!Met, l
      <3>2. CASE Seg!Odd(r) /\ k = r - 1
        BY <2>1, <3>2 DEF Seg!Met, r
      <3>3. CASE ~(Seg!Odd(l) /\ k = l) /\ ~(Seg!Odd(r) /\ k = r - 1)
        <4>1. k \in 2 * l2 .. 2 * r2 - 1
          BY <1>6, <1>9, <3>3
        <4>2. k \div 2 \in l2 .. r2 - 1 /\ (k = 2 * (k \div 2) \/ k = 2 * (k \div 2) + 1)
          BY <1>9, <4>1
        <4> QED
          BY <2>2, <4>2
      <3> QED
        BY <3>1, <3>2, <3>3
    <2>4. Seg!Merge(Seg!Merge(segQuery.leftValue, Seg!Fold(segNodes, l, r)), segQuery.rightValue)
          = Seg!Fold(segValues, segQuery.begin, segQuery.end)
      BY <1>2, <2>1, <2>3 DEF QueryShape, l, r
    <2>5. Seg!Fold(segNodes, l2, r2) = f
      <3>1. ValuesIn(Letters, segNodes, 2 * l2, 2 * r2)
        <4>1. \A i \in 2 * l2 .. 2 * r2 - 1 : i \in l .. r - 1
          BY <1>6, <1>9
        <4> QED
          BY <1>8, <4>1 DEF ValuesIn
      <3>2. l2 \in Int /\ r2 \in Int /\ l2 <= r2
        BY <1>9
      <3> QED
        BY <2>2, <3>1, <3>2, FoldPairs DEF f
    <2> DEFINE a == segQuery.leftValue
               b == segQuery.rightValue
    <2>6. a \in Seq(Letters) /\ b \in Seq(Letters)
      BY <1>6
    <2>7. Seg!Merge(Seg!Merge(a, Seg!Merge(Seg!Merge(x, f), y)), b)
          = Seg!Merge(Seg!Merge(Seg!Merge(a, x), f), Seg!Merge(y, b))
      <3> HIDE DEF a, b, x, y
      <3> QED
        BY <1>10, <2>6, Shuffle
    <2> HIDE DEF x, y
    <2> QED
      BY <1>10, <1>11, <2>4, <2>5, <2>7
  <1>15. QueryShape'
    <2>1. /\ segQuery'.begin < segQuery'.end /\ segQuery'.end <= segSize'
          /\ segQuery'.left <= segQuery'.right /\ segQuery'.right <= 2 * segCapacity'
      <3>1. r2 <= 2 * segCapacity
        BY <1>2, <1>4, <1>6, <1>9
      <3> QED
        BY <1>1, <1>4, <1>7, <1>9, <3>1
    <2>2. \/ segQuery'.spoilt
          \/ \E k \in segQuery'.left .. segQuery'.right - 1 : k \in stale'
          \/ Seg!Merge(Seg!Merge(segQuery'.leftValue, Seg!Fold(segNodes', segQuery'.left, segQuery'.right)), segQuery'.rightValue)
             = Seg!Fold(segValues', segQuery'.begin, segQuery'.end)
      <3> QED
        BY <1>1, <1>7, <1>14
    <2> QED
      BY <1>13, <2>1, <2>2 DEF QueryShape
  <1>16. IsTree(segCapacity', segSize', segNodes', segValues', stale' \cup Pending')
    <2>1. stale' \cup Pending' = stale
      BY <1>1 DEF Pending
    <2> QED
      BY <1>1, <1>3, <2>1
  <1> QED
    BY <1>1, <1>2, <1>15, <1>16 DEF SegInv

LEMMA QueryEndKeeps ==
    ASSUME SegInv, Seg!QueryEnd
    PROVE  SegInv'
  <1>1. /\ segPc = "query" /\ segQuery.left >= segQuery.right /\ segPc' = "idle"
        /\ segOut' = Seg!Merge(segQuery.leftValue, segQuery.rightValue)
        /\ segQuery'.begin = segQuery.begin /\ segQuery'.end = segQuery.end /\ segQuery'.spoilt = segQuery.spoilt
        /\ segSize' = segSize /\ segCapacity' = segCapacity /\ segNodes' = segNodes
        /\ segValues' = segValues /\ stale' = stale
    BY DEF Seg!QueryEnd, Seg!segtree, Seg!NoQuery
  <1>2. QueryShape /\ segSize \in Nat /\ segCapacity \in Nat /\ segCapacity > 0
    BY <1>1 DEF SegInv
  <1>3. IsTree(segCapacity, segSize, segNodes, segValues, stale)
    BY <1>1, <1>2, IdleTree
  <1>4. ASSUME ~segQuery.spoilt
        PROVE  segOut' = Seg!Fold(segValues, segQuery.begin, segQuery.end)
    <2>1. /\ segQuery.left \in Nat /\ segQuery.right \in Nat /\ segQuery.left <= segQuery.right
          /\ segQuery.leftValue \in Seq(Letters) /\ segQuery.rightValue \in Seq(Letters)
      BY <1>2 DEF QueryShape
    <2>2. segQuery.left = segQuery.right /\ segQuery.left .. segQuery.right - 1 = {}
      BY <1>1, <2>1
    <2>3. Seg!Fold(segNodes, segQuery.left, segQuery.right) = Seg!Identity
      BY <2>1, <2>2, FoldSteps
    <2>4. Seg!Merge(Seg!Merge(segQuery.leftValue, Seg!Identity), segQuery.rightValue)
          = Seg!Fold(segValues, segQuery.begin, segQuery.end)
      BY <1>2, <1>4, <2>2, <2>3 DEF QueryShape
    <2>5. Seg!Merge(segQuery.leftValue, Seg!Identity) = segQuery.leftValue
      BY <2>1, MergeLaws
    <2> QED
      BY <1>1, <2>4, <2>5
  <1>5. IsTree(segCapacity', segSize', segNodes', segValues', stale' \cup Pending')
    <2>1. stale' \cup Pending' = stale
      BY <1>1 DEF Pending
    <2> QED
      BY <1>1, <1>3, <2>1
  <1>6. ~segQuery'.spoilt => segOut' = Seg!Fold(segValues', segQuery'.begin, segQuery'.end)
    BY <1>1, <1>4
  <1> QED
    BY <1>1, <1>2, <1>5, <1>6 DEF SegInv

-----------------------------------------------------------------------------
LEMMA StutterKeeps ==
    ASSUME SegInv, UNCHANGED Seg!vars
    PROVE  SegInv'
  BY DEF SegInv, Seg!vars, Seg!segtree, Pending, QueryShape

LEMMA NextKeeps ==
    ASSUME SegInv, [Seg!Next]_(Seg!vars)
    PROVE  SegInv'
  <1>1. ASSUME NEW a \in SegArrays, Seg!Create(Len(a)) PROVE SegInv'
    BY <1>1, CreateKeeps
  <1>2. ASSUME NEW a \in SegArrays, Seg!Build(a) PROVE SegInv'
    BY <1>2, BuildKeeps
  <1>3. ASSUME NEW a \in SegArrays, Seg!Copy(a) PROVE SegInv'
    BY <1>3, CopyKeeps
  <1>4. CASE Seg!CreateFails \/ Seg!Destroy \/ Seg!CopyFails
    BY <1>4, NothingKeeps DEF Seg!CreateFails, Seg!Destroy, Seg!CopyFails
  <1>5. CASE Seg!Reset
    BY <1>5, ResetKeeps
  <1>6. CASE Seg!ResetFails \/ Seg!QueryFails
    BY <1>6, FailKeeps DEF Seg!ResetFails, Seg!QueryFails, Seg!Fail
  <1>7. ASSUME NEW i \in 0 .. segSize, Seg!SetInvalid(i) \/ Seg!QueryEmpty(i) PROVE SegInv'
    BY <1>7, FailKeeps DEF Seg!SetInvalid, Seg!QueryEmpty, Seg!Fail
  <1>8. ASSUME NEW i \in 0 .. segSize, NEW e \in SegElements, Seg!Set(i, e) PROVE SegInv'
    BY <1>8, SetKeeps
  <1>9. ASSUME NEW i \in 0 .. segSize, NEW end \in 0 .. segSize + 1, Seg!QueryBegin(i, end) PROVE SegInv'
    <2>1. i \in Nat /\ end \in Nat
      OBVIOUS
    <2> QED
      BY <1>9, <2>1, QueryBeginKeeps
  <1>10. ASSUME NEW i \in 0 .. segSize, NEW end \in 0 .. segSize + 1, Seg!QueryInvalid(i, end) PROVE SegInv'
    BY <1>10, FailKeeps DEF Seg!QueryInvalid, Seg!Fail
  <1>11. CASE Seg!QueryStep
    BY <1>11, QueryStepKeeps
  <1>12. CASE Seg!QueryEnd
    BY <1>12, QueryEndKeeps
  <1>13. CASE Seg!Step
    BY <1>13, StepKeeps
  <1>14. CASE Seg!StepFails
    BY <1>14, StepFailsKeeps
  <1>15. CASE Seg!End
    BY <1>15, EndKeeps
  <1>16. CASE UNCHANGED Seg!vars
    BY <1>16, StutterKeeps
  <1>17. CASE Seg!Next
    BY <1>1, <1>2, <1>3, <1>4, <1>5, <1>6, <1>7, <1>8, <1>9, <1>10, <1>11, <1>12, <1>13, <1>14, <1>15,
       <1>17 DEF Seg!Next
  <1> QED
    BY <1>16, <1>17

LEMMA SegInvShows == SegInv => Seg!QueriesFold
  <1> SUFFICES ASSUME SegInv PROVE Seg!QueriesFold
    OBVIOUS
  <1>1. ASSUME segPc \in {"idle", "query"}, segCapacity > 0
        PROVE  /\ stale \subseteq 1 .. segCapacity - 1
               /\ \A i \in 0 .. segCapacity - 1 :
                     segNodes[segCapacity + i] = IF i < segSize THEN segValues[i] ELSE Seg!Identity
               /\ \A n \in (1 .. segCapacity - 1) \ stale :
                     {2 * n, 2 * n + 1} \cap stale = {} /\ segNodes[n] = Seg!Rebuilt(n)
    <2>1. IsTree(segCapacity, segSize, segNodes, segValues, stale)
      BY <1>1, IdleTree
    <2> QED
      BY <2>1 DEF IsTree, Seg!Rebuilt
  <1>2. segPc = "idle" /\ ~segQuery.spoilt => segOut = Seg!Fold(segValues, segQuery.begin, segQuery.end)
    BY DEF SegInv
  <1> QED
    BY <1>1, <1>2 DEF Seg!QueriesFold

-----------------------------------------------------------------------------
(* The heap of heap.c: what HeapProofs proves of every instance *)

HP == INSTANCE HeapProofs WITH Elements <- HeapElements, size <- heapSize

\* The instances of Heap and of HeapProofs are the same module.
LEMMA HeapsAssumed == HP!HeapAssumption
  BY HeapsAssumption DEF Heaps!HeapAssumption, HP!HeapAssumption

LEMMA HeapInit == Heaps!Init <=> HP!Init
  BY DEF Heaps!Init, HP!Init, Heaps!Slots, HP!Slots

LEMMA HeapNext == Heaps!Next <=> HP!Next
  BY DEF Heaps!Next, HP!Next, Heaps!Slots, HP!Slots, Heaps!Used, HP!Used,
    Heaps!Parent, HP!Parent, Heaps!Left, HP!Left, Heaps!Call, HP!Call,
    Heaps!Return, HP!Return, Heaps!Fail, HP!Fail, Heaps!ReserveEnough, HP!ReserveEnough,
    Heaps!Reserve, HP!Reserve, Heaps!ReserveFails, HP!ReserveFails,
    Heaps!PushFails, HP!PushFails, Heaps!PushGrow, HP!PushGrow, Heaps!PushStage, HP!PushStage,
    Heaps!Belongs, HP!Belongs, Heaps!MoveUp, HP!MoveUp, Heaps!PushEnd, HP!PushEnd,
    Heaps!PopEmpty, HP!PopEmpty, Heaps!Pop, HP!Pop, Heaps!GreaterChild, HP!GreaterChild,
    Heaps!Settled, HP!Settled, Heaps!MoveDown, HP!MoveDown, Heaps!PopEnd, HP!PopEnd,
    Heaps!Count, HP!Count, Heaps!Clear, HP!Clear, Heaps!Calls, HP!Calls, HP!Cardinality, Heaps!Cardinality, HP!IsFiniteSet, Heaps!IsFiniteSet

LEMMA HeapStep == [Heaps!Next]_(Heaps!vars) => [HP!Next]_(HP!vars)
  BY HeapNext DEF Heaps!vars, HP!vars

LEMMA HeapOrderIs == HP!HeapOrder => Heaps!HeapOrder
  BY DEF Heaps!HeapOrder, HP!HeapOrder, Heaps!TypeOK, HP!TypeOK, Heaps!ControlShape, HP!ControlShape,
    Heaps!Copies, HP!Copies, Heaps!Ordered, HP!Ordered, Heaps!Holding, HP!Holding,
    Heaps!Used, HP!Used, Heaps!Slots, HP!Slots, Heaps!Parent, HP!Parent, HP!Cardinality, Heaps!Cardinality, HP!IsFiniteSet, Heaps!IsFiniteSet

LEMMA BagInit == HP!Bag!Init => Heaps!Bag!Init
  BY DEF HP!Bag!Init, Heaps!Bag!Init, Heaps!Used, HP!Used, Heaps!Holding, HP!Holding, HP!Cardinality, Heaps!Cardinality, HP!IsFiniteSet, Heaps!IsFiniteSet

LEMMA BagNext == [HP!Bag!Next]_(HP!Bag!bagVars) => [Heaps!Bag!Next]_(Heaps!Bag!bagVars)
  BY DEF HP!Bag!Next, Heaps!Bag!Next, Heaps!Used, HP!Used, Heaps!Holding, HP!Holding,
    HP!Bag!bagVars, Heaps!Bag!bagVars, HP!Bag!Call, Heaps!Bag!Call, HP!Bag!Idle, Heaps!Bag!Idle,
    HP!Bag!Answer, Heaps!Bag!Answer, HP!Bag!Push, Heaps!Bag!Push, HP!Bag!Pop, Heaps!Bag!Pop,
    HP!Bag!PopEmpty, Heaps!Bag!PopEmpty, HP!Bag!Refuse, Heaps!Bag!Refuse,
    HP!Bag!Reserve, Heaps!Bag!Reserve, HP!Bag!Clear, Heaps!Bag!Clear,
    HP!Bag!Held, Heaps!Bag!Held, HP!Bag!Greatest, Heaps!Bag!Greatest, HP!Cardinality, Heaps!Cardinality, HP!IsFiniteSet, Heaps!IsFiniteSet

-----------------------------------------------------------------------------
(* The legacy heap does what heap.c does *)

LP == INSTANCE HeapProofs WITH
        Elements <- HeapElements, Capacities <- {}, MaxCapacity <- LegacyMaxCapacity,
        capacity <- lhCapacity, size <- lhSize, data <- Legacy!Kept, live <- lhBag,
        pc <- lhPc, call <- Legacy!Answered, hole <- lhHole, staged <- Legacy!Staged

\* What the macros have established besides what heap.c has: an element to
\* push with room for it, an element to pop, and a slot behind the end.
LegacyShape ==
    /\ lhData \in [Legacy!Slots -> HeapElements \cup {None}]
    /\ lhPc \in {"push", "stage", "up"} => lhCall.elem \in HeapElements
    /\ lhPc = "push" => Legacy!Larger <= LegacyMaxCapacity
    /\ lhPc = "pop" => lhSize > 0
    /\ lhPc = "down" => lhSize < lhCapacity

LegacyInv == LP!Inv /\ LegacyShape

LEMMA LegacyAssumed == LP!HeapAssumption /\ LegacyMaxCapacity \in Nat \ {0}
  BY HeapsAssumption DEF Heaps!HeapAssumption, LP!HeapAssumption

\* What the invariant says of a state.
LEMMA LegacyParts ==
    ASSUME LegacyInv
    PROVE  /\ lhSize \in Nat /\ lhCapacity \in Nat /\ lhSize <= lhCapacity
           /\ lhCapacity <= LegacyMaxCapacity /\ LegacyMaxCapacity \in Nat
           /\ Legacy!Slots = 0 .. LegacyMaxCapacity - 1
           /\ lhHole \in Nat
           /\ lhPc \in {"up", "down"} => lhHole < lhSize
           /\ lhPc \notin {"up", "down"} => lhHole = 0
           /\ lhData \in [Legacy!Slots -> HeapElements \cup {None}]
           /\ \A i \in Legacy!Slots : Legacy!Kept[i] =
                 IF i < lhSize /\ ~(lhPc = "up" /\ i = lhHole /\ i = lhSize - 1)
                   THEN lhData[i] ELSE None
           /\ lhBag \in [HeapElements -> Nat]
           /\ lhPc \in {"idle", "push", "stage", "up", "pop", "down", "reserve", "clear", "destroy"}
  <1>1. LP!TypeOK /\ LP!ControlShape
    BY DEF LegacyInv, LP!Inv, LP!HeapOrder
  <1>2. LegacyMaxCapacity \in Nat /\ Legacy!Slots = 0 .. LegacyMaxCapacity - 1
    BY LegacyAssumed DEF Legacy!Slots
  <1>3. lhCapacity \in 0 .. LegacyMaxCapacity /\ lhSize \in 0 .. lhCapacity
        /\ lhHole \in 0 .. LegacyMaxCapacity - 1
    BY <1>1 DEF LP!TypeOK, LP!Slots
  <1>4. /\ lhPc \in {"up", "down"} => lhHole \in 0 .. lhSize - 1
        /\ lhPc \notin {"up", "down"} => lhHole = 0
    BY <1>1 DEF LP!ControlShape, LP!Used
  <1>5. lhBag \in [HeapElements -> Nat]
        /\ lhPc \in {"idle", "push", "stage", "up", "pop", "down", "reserve", "clear", "destroy"}
    BY <1>1 DEF LP!TypeOK
  <1>6. lhData \in [Legacy!Slots -> HeapElements \cup {None}]
    BY DEF LegacyInv, LegacyShape
  <1>7. \A i \in Legacy!Slots : Legacy!Kept[i] =
           IF i < lhSize /\ ~(lhPc = "up" /\ i = lhHole /\ i = lhSize - 1)
             THEN lhData[i] ELSE None
    BY DEF Legacy!Kept
  <1> QED
    BY <1>2, <1>3, <1>4, <1>5, <1>6, <1>7

\* The first state of the macros is the first of heap.c.
LEMMA LegacyInit == Legacy!Init => LP!Init /\ LegacyInv
  <1> SUFFICES ASSUME Legacy!Init PROVE LP!Init /\ LegacyInv
    OBVIOUS
  <1>1. /\ lhCapacity = 0 /\ lhSize = 0 /\ lhHole = 0 /\ lhPc = "idle"
        /\ lhData = [i \in Legacy!Slots |-> None]
        /\ lhBag = [e \in HeapElements |-> 0]
        /\ lhCall = [op |-> "init", elem |-> None]
    BY DEF Legacy!Init
  <1>2. Legacy!Kept = [i \in LP!Slots |-> None]
    BY <1>1, LegacyAssumed DEF Legacy!Kept, Legacy!Slots, LP!Slots
  <1>3. Legacy!Staged = None
        /\ Legacy!Answered = [op |-> "init", elem |-> None, at |-> 0, ret |-> "ok"]
    BY <1>1 DEF Legacy!Staged, Legacy!Answered
  <1>4. LP!Init
    BY <1>1, <1>2, <1>3 DEF LP!Init
  <1>5. LP!Inv
    BY <1>4, LegacyAssumed, LP!InitInv
  <1>6. LegacyShape
    BY <1>1 DEF LegacyShape
  <1> QED
    BY <1>4, <1>5, <1>6 DEF LegacyInv

\* The slots of the array, before and after a step, from what they hold.
LEMMA KeptNext ==
    /\ DOMAIN Legacy!Kept = Legacy!Slots
    /\ Legacy!Kept' = [i \in Legacy!Slots |->
          IF i < lhSize' /\ ~(lhPc' = "up" /\ i = lhHole' /\ i = lhSize' - 1)
            THEN lhData'[i] ELSE None]
    /\ Legacy!Kept = [i \in Legacy!Slots |->
          IF i < lhSize /\ ~(lhPc = "up" /\ i = lhHole /\ i = lhSize - 1)
            THEN lhData[i] ELSE None]
    /\ LP!Slots = Legacy!Slots
  BY DEF Legacy!Kept, Legacy!Slots, LP!Slots

LEMMA KeptSame ==
    ASSUME \A i \in Legacy!Slots : Legacy!Kept'[i] = Legacy!Kept[i]
    PROVE  Legacy!Kept' = Legacy!Kept
  <1> DEFINE now == Legacy!Kept
             next == Legacy!Kept'
  <1>1. /\ now = [i \in Legacy!Slots |-> now[i]]
        /\ next = [i \in Legacy!Slots |-> next[i]]
    BY KeptNext
  <1> HIDE DEF now, next
  <1>2. [i \in Legacy!Slots |-> next[i]] = [i \in Legacy!Slots |-> now[i]]
    BY DEF now, next
  <1> QED
    BY <1>1, <1>2 DEF now, next

LEMMA KeptBut ==
    ASSUME NEW at \in Legacy!Slots, NEW v,
           \A i \in Legacy!Slots : Legacy!Kept'[i] = IF i = at THEN v ELSE Legacy!Kept[i]
    PROVE  Legacy!Kept' = [Legacy!Kept EXCEPT ![at] = v]
  <1> DEFINE now == Legacy!Kept
             next == Legacy!Kept'
  <1>1. /\ now = [i \in Legacy!Slots |-> now[i]]
        /\ next = [i \in Legacy!Slots |-> next[i]]
    BY KeptNext
  <1> HIDE DEF now, next
  <1>2. \A i \in Legacy!Slots : next[i] = IF i = at THEN v ELSE now[i]
    BY DEF now, next
  <1>3. next = [now EXCEPT ![at] = v]
    BY <1>1, <1>2
  <1> QED
    BY <1>3 DEF now, next

\* Each step of the macros is one of heap.c.
LEMMA LegacyCallStep ==
    ASSUME LegacyInv, NEW op \in {"push", "pop", "destroy"},
           NEW e \in HeapElements \cup {None}, Legacy!Call(op, e),
           op = "push" <=> e \in HeapElements
    PROVE  LP!Next /\ LegacyShape'
  <1>1. /\ lhPc = "idle" /\ lhPc' = op /\ lhCall' = [op |-> op, elem |-> e]
        /\ UNCHANGED <<lhCapacity, lhSize, lhData, lhHole, lhBag>>
        /\ op = "push" => Legacy!Larger <= LegacyMaxCapacity
        /\ op = "pop" => lhSize > 0
    BY DEF Legacy!Call
  <1>2. Legacy!Kept' = Legacy!Kept
    BY <1>1, KeptNext
  <1>3. /\ Legacy!Staged' = Legacy!Staged
        /\ Legacy!Answered' = [op |-> op, elem |-> e, at |-> 0, ret |-> "pending"]
    BY <1>1 DEF Legacy!Staged, Legacy!Answered
  <1>4. LP!Call(op, e, 0)
    BY <1>1, <1>2, <1>3 DEF LP!Call
  <1>5. LP!Calls
    BY <1>4 DEF LP!Calls
  <1>6. Legacy!Larger' = Legacy!Larger
    BY <1>1 DEF Legacy!Larger
  <1>7. LegacyShape'
    BY <1>1, <1>6 DEF LegacyShape, LegacyInv, Legacy!Slots
  <1> QED
    BY <1>5, <1>7 DEF LP!Next

LEMMA LegacyExpandStep ==
    ASSUME LegacyInv, Legacy!Expand
    PROVE  LP!Next /\ LegacyShape'
  <1>1. /\ lhPc = "push" /\ lhPc' = "stage" /\ lhCapacity' = Legacy!Larger
        /\ UNCHANGED <<lhSize, lhData, lhCall, lhHole, lhBag>>
    BY DEF Legacy!Expand
  <1>2. Legacy!Kept' = Legacy!Kept
    BY <1>1, KeptNext
  <1>3. Legacy!Staged' = Legacy!Staged /\ Legacy!Answered' = Legacy!Answered
    BY <1>1 DEF Legacy!Staged, Legacy!Answered
  <1>4. /\ lhCall.elem \in HeapElements /\ Legacy!Larger <= LegacyMaxCapacity
        /\ None \notin HeapElements
    BY <1>1, LegacyAssumed DEF LegacyInv, LegacyShape, LP!HeapAssumption
  <1>5. Legacy!Answered.elem = lhCall.elem
    BY DEF Legacy!Answered
  <1>6. LP!PushGrow
    BY <1>1, <1>2, <1>3, <1>4, <1>5, LegacyParts DEF LP!PushGrow, Legacy!Larger
  <1>7. LegacyShape'
    BY <1>1, <1>4 DEF LegacyShape, LegacyInv, Legacy!Slots
  <1> QED
    BY <1>6, <1>7 DEF LP!Next

LEMMA LegacyPushBeginStep ==
    ASSUME LegacyInv, Legacy!PushBegin
    PROVE  LP!Next /\ LegacyShape'
  <1>1. /\ lhPc = "stage" /\ lhPc' = "up" /\ lhHole' = lhSize /\ lhSize' = lhSize + 1
        /\ lhBag' = [lhBag EXCEPT ![lhCall.elem] = @ + 1]
        /\ UNCHANGED <<lhCapacity, lhData, lhCall>>
    BY DEF Legacy!PushBegin
  <1>2. Legacy!Kept' = Legacy!Kept
    <2>1. \A i \in Legacy!Slots :
             (i < lhSize' /\ ~(i = lhHole' /\ i = lhSize' - 1)) <=> i < lhSize
      BY <1>1, LegacyParts
    <2>2. \A i \in Legacy!Slots : Legacy!Kept'[i] =
             IF i < lhSize' /\ ~(i = lhHole' /\ i = lhSize' - 1) THEN lhData[i] ELSE None
      <3>1. lhPc' = "up" /\ lhData' = lhData
        BY <1>1
      <3> QED
        BY <3>1, KeptNext
    <2>3. \A i \in Legacy!Slots : Legacy!Kept[i] = IF i < lhSize THEN lhData[i] ELSE None
      BY <1>1, LegacyParts
    <2>4. \A i \in Legacy!Slots : Legacy!Kept'[i] = Legacy!Kept[i]
      BY <2>1, <2>2, <2>3
    <2> QED
      BY <2>4, KeptSame
  <1>3. /\ Legacy!Staged' = lhCall.elem /\ Legacy!Answered' = Legacy!Answered
        /\ Legacy!Answered.elem = lhCall.elem
    BY <1>1 DEF Legacy!Staged, Legacy!Answered
  <1>4. LP!PushStage
    BY <1>1, <1>2, <1>3 DEF LP!PushStage
  <1>5. LegacyShape'
    BY <1>1 DEF LegacyShape, LegacyInv, Legacy!Slots
  <1> QED
    BY <1>4, <1>5 DEF LP!Next

\* A slot is behind its parent, and the last one is nobody's parent.
LEMMA LegacyParent ==
    ASSUME LegacyInv, lhPc = "up", lhHole # 0
    PROVE  /\ Legacy!Parent(lhHole) \in Nat /\ Legacy!Parent(lhHole) < lhHole
           /\ Legacy!Parent(lhHole) \in Legacy!Slots /\ lhHole \in Legacy!Slots
           /\ Legacy!Kept[Legacy!Parent(lhHole)] = lhData[Legacy!Parent(lhHole)]
           /\ LP!Parent(lhHole) = Legacy!Parent(lhHole)
  <1>1. Legacy!Parent(lhHole) \in Nat /\ Legacy!Parent(lhHole) < lhHole
    BY LegacyParts DEF Legacy!Parent
  <1>2. LP!Parent(lhHole) = Legacy!Parent(lhHole)
    BY DEF Legacy!Parent, LP!Parent
  <1>3. Legacy!Parent(lhHole) \in Legacy!Slots /\ lhHole \in Legacy!Slots
        /\ Legacy!Parent(lhHole) < lhSize /\ Legacy!Parent(lhHole) # lhHole
    BY <1>1, LegacyParts
  <1> QED
    BY <1>1, <1>2, <1>3, LegacyParts

LEMMA LegacyBelongs ==
    ASSUME LegacyInv, lhPc = "up"
    PROVE  LP!Belongs <=> Legacy!Belongs
  <1>1. Legacy!Staged = lhCall.elem
    BY DEF Legacy!Staged
  <1>2. lhHole > 0 <=> lhHole # 0
    BY LegacyParts
  <1> QED
    BY <1>1, <1>2, LegacyParent DEF LP!Belongs, Legacy!Belongs

LEMMA LegacyMoveUpStep ==
    ASSUME LegacyInv, Legacy!MoveUp
    PROVE  LP!Next /\ LegacyShape'
  <1> DEFINE up == Legacy!Parent(lhHole)
  <1>1. /\ lhPc = "up" /\ ~Legacy!Belongs /\ lhHole # 0
        /\ lhData' = [lhData EXCEPT ![lhHole] = lhData[up]]
        /\ lhHole' = up
        /\ UNCHANGED <<lhCapacity, lhSize, lhPc, lhCall, lhBag>>
    BY LegacyParts DEF Legacy!MoveUp, Legacy!Belongs
  <1>2. /\ up \in Nat /\ up < lhHole /\ up \in Legacy!Slots /\ lhHole \in Legacy!Slots
        /\ Legacy!Kept[up] = lhData[up] /\ LP!Parent(lhHole) = up
    BY <1>1, LegacyParent
  <1> HIDE DEF up
  <1>3. lhHole < lhSize /\ lhSize \in Nat /\ lhHole \in Nat
    BY <1>1, LegacyParts
  <1>4. Legacy!Kept' = [Legacy!Kept EXCEPT ![lhHole] = Legacy!Kept[up]]
    <2>1. ASSUME NEW i \in Legacy!Slots
          PROVE  Legacy!Kept'[i] = IF i = lhHole THEN lhData[up] ELSE Legacy!Kept[i]
      <3>1. i \in Nat /\ ~(i = up /\ i = lhSize - 1)
        BY <1>2, <1>3, LegacyParts
      <3>2. Legacy!Kept'[i] = IF i < lhSize THEN lhData'[i] ELSE None
        BY <1>1, <3>1, KeptNext
      <3>3. lhData'[i] = IF i = lhHole THEN lhData[up] ELSE lhData[i]
        BY <1>1, LegacyParts
      <3>4. i # lhHole => Legacy!Kept[i] = IF i < lhSize THEN lhData[i] ELSE None
        BY LegacyParts
      <3> QED
        BY <1>3, <3>2, <3>3, <3>4
    <2> QED
      BY <1>2, <2>1, KeptBut
  <1>5. Legacy!Staged' = Legacy!Staged /\ Legacy!Answered' = Legacy!Answered
    BY <1>1 DEF Legacy!Staged, Legacy!Answered
  <1>6. LP!MoveUp
    BY <1>1, <1>2, <1>4, <1>5, LegacyBelongs DEF LP!MoveUp
  <1>7. LegacyShape'
    BY <1>1, <1>2, LegacyParts DEF LegacyShape, LegacyInv, Legacy!Slots
  <1> QED
    BY <1>6, <1>7 DEF LP!Next

\* A macro that has done its work.
LEMMA LegacyReturns ==
    ASSUME Legacy!Return
    PROVE  /\ lhPc' = "idle" /\ lhHole' = 0 /\ UNCHANGED lhCall
           /\ LP!Return("ok")
  <1>1. lhPc' = "idle" /\ lhHole' = 0 /\ UNCHANGED lhCall
    BY DEF Legacy!Return
  <1>2. Legacy!Staged' = None /\ Legacy!Answered' = [Legacy!Answered EXCEPT !.ret = "ok"]
    BY <1>1 DEF Legacy!Staged, Legacy!Answered
  <1> QED
    BY <1>1, <1>2 DEF LP!Return

LEMMA LegacyPushEndStep ==
    ASSUME LegacyInv, Legacy!PushEnd
    PROVE  LP!Next /\ LegacyShape'
  <1>1. /\ lhPc = "up" /\ Legacy!Belongs /\ Legacy!Return
        /\ lhData' = [lhData EXCEPT ![lhHole] = lhCall.elem]
        /\ UNCHANGED <<lhCapacity, lhSize, lhBag>>
    BY DEF Legacy!PushEnd
  <1>2. lhPc' = "idle" /\ lhHole' = 0 /\ UNCHANGED lhCall /\ LP!Return("ok")
    BY <1>1, LegacyReturns
  <1>3. lhHole < lhSize /\ lhSize \in Nat /\ lhHole \in Nat /\ lhHole \in Legacy!Slots
    BY <1>1, LegacyParts
  <1>4. Legacy!Staged = lhCall.elem
    BY <1>1 DEF Legacy!Staged
  <1>5. Legacy!Kept' = [Legacy!Kept EXCEPT ![lhHole] = Legacy!Staged]
    <2>1. ASSUME NEW i \in Legacy!Slots
          PROVE  Legacy!Kept'[i] = IF i = lhHole THEN lhCall.elem ELSE Legacy!Kept[i]
      <3>1. Legacy!Kept'[i] = IF i < lhSize THEN lhData'[i] ELSE None
        BY <1>1, <1>2, KeptNext
      <3>2. lhData'[i] = IF i = lhHole THEN lhCall.elem ELSE lhData[i]
        BY <1>1, LegacyParts
      <3>3. i # lhHole => Legacy!Kept[i] = IF i < lhSize THEN lhData[i] ELSE None
        BY LegacyParts
      <3> QED
        BY <1>3, <3>1, <3>2, <3>3
    <2> QED
      BY <1>3, <1>4, <2>1, KeptBut
  <1>6. LP!PushEnd
    BY <1>1, <1>2, <1>5, LegacyBelongs DEF LP!PushEnd
  <1>7. LegacyShape'
    <2>1. lhCall.elem \in HeapElements
      BY <1>1 DEF LegacyInv, LegacyShape
    <2> QED
      BY <1>1, <1>2, <1>3, <2>1, LegacyParts DEF LegacyShape, LegacyInv, Legacy!Slots
  <1> QED
    BY <1>6, <1>7 DEF LP!Next

LEMMA LegacyPopStep ==
    ASSUME LegacyInv, Legacy!Pop
    PROVE  LP!Next /\ LegacyShape'
  <1>1. /\ lhPc = "pop" /\ lhSize' = lhSize - 1 /\ lhCapacity' = lhCapacity
        /\ lhData' = [lhData EXCEPT ![0] = lhData[lhSize - 1]]
        /\ lhBag' = [lhBag EXCEPT ![lhData[0]] = @ - 1]
        /\ IF lhSize = 1 THEN Legacy!Return
           ELSE lhPc' = "down" /\ UNCHANGED <<lhCall, lhHole>>
    BY DEF Legacy!Pop
  <1>2. /\ lhSize > 0 /\ lhSize \in Nat /\ lhCapacity \in Nat /\ lhSize <= lhCapacity
        /\ 0 \in Legacy!Slots /\ lhSize - 1 \in Legacy!Slots
    BY <1>1, LegacyParts DEF LegacyInv, LegacyShape
  <1>3. lhPc' # "up"
    BY <1>1, LegacyReturns
  <1>4. \A i \in Legacy!Slots : i \in Nat /\ Legacy!Kept[i] = IF i < lhSize THEN lhData[i] ELSE None
    BY <1>1, LegacyParts
  <1>5. Legacy!Kept' = [i \in LP!Slots |-> IF i >= lhSize - 1 THEN None
                                           ELSE IF i = 0 THEN Legacy!Kept[lhSize - 1]
                                                ELSE Legacy!Kept[i]]
    <2>1. ASSUME NEW i \in Legacy!Slots
          PROVE  (IF i < lhSize' /\ ~(lhPc' = "up" /\ i = lhHole' /\ i = lhSize' - 1)
                    THEN lhData'[i] ELSE None)
                 = IF i >= lhSize - 1 THEN None
                   ELSE IF i = 0 THEN Legacy!Kept[lhSize - 1] ELSE Legacy!Kept[i]
      <3>1. lhData'[i] = IF i = 0 THEN lhData[lhSize - 1] ELSE lhData[i]
        BY <1>1, LegacyParts
      <3>2. Legacy!Kept[lhSize - 1] = lhData[lhSize - 1]
        BY <1>2, <1>4
      <3>3. i < lhSize' <=> ~(i >= lhSize - 1)
        BY <1>1, <1>2, <1>4
      <3>4. i < lhSize - 1 => Legacy!Kept[i] = lhData[i]
        BY <1>2, <1>4
      <3>5. ~(i >= lhSize - 1) => i < lhSize - 1
        BY <1>2, <1>4
      <3> QED
        BY <1>3, <3>1, <3>2, <3>3, <3>4, <3>5
    <2>2. Legacy!Kept' = [i \in Legacy!Slots |->
             IF i < lhSize' /\ ~(lhPc' = "up" /\ i = lhHole' /\ i = lhSize' - 1)
               THEN lhData'[i] ELSE None]
          /\ LP!Slots = Legacy!Slots
      BY KeptNext
    <2> QED
      BY <2>1, <2>2
  <1>6. Legacy!Kept[0] = lhData[0]
    BY <1>2, <1>4
  <1>7. IF lhSize = 1 THEN LP!Return("ok")
        ELSE lhPc' = "down" /\ UNCHANGED <<Legacy!Answered, lhHole, Legacy!Staged>>
    <2>1. CASE lhSize = 1
      BY <1>1, <2>1, LegacyReturns
    <2>2. CASE lhSize # 1
      BY <1>1, <2>2 DEF Legacy!Answered, Legacy!Staged
    <2> QED
      BY <2>1, <2>2
  <1>8. LP!Pop
    <2>1. lhSize # 0
      BY <1>2
    <2> QED
      BY <1>1, <1>5, <1>6, <1>7, <2>1 DEF LP!Pop
  <1>9. LegacyShape'
    <2>1. lhData' \in [Legacy!Slots -> HeapElements \cup {None}]
      BY <1>1, <1>2, LegacyParts
    <2>2. lhPc' \in {"idle", "down"}
      BY <1>1, LegacyReturns
    <2>3. lhSize' < lhCapacity'
      BY <1>1, <1>2
    <2> QED
      BY <2>1, <2>2, <2>3 DEF LegacyShape, Legacy!Slots
  <1> QED
    BY <1>8, <1>9 DEF LP!Next

\* Both look at the same children of a slot that goes down.
LEMMA LegacyChildren ==
    ASSUME LegacyInv, lhPc = "down"
    PROVE  /\ LP!Left(lhHole) = Legacy!Left /\ Legacy!Left \in Nat /\ Legacy!Left > lhHole
           /\ Legacy!Left < lhSize =>
                 /\ LP!GreaterChild(lhHole) = Legacy!Greater
                 /\ Legacy!Greater \in {Legacy!Left, Legacy!Left + 1}
                 /\ Legacy!Greater < lhSize
                 /\ Legacy!Kept[Legacy!Greater] = lhData[Legacy!Greater]
           /\ Legacy!Kept[lhHole] = lhData[lhHole]
           /\ LP!Settled <=> Legacy!Settled
  <1> DEFINE left == Legacy!Left
             greater == Legacy!Greater
  <1>1. LP!Left(lhHole) = left /\ left = lhHole * 2 + 1
    BY DEF Legacy!Left, LP!Left
  <1>2. /\ lhHole \in Nat /\ lhHole < lhSize /\ lhSize \in Nat
        /\ left \in Nat /\ left > lhHole
        /\ \A i \in Nat : i < lhSize => i \in Legacy!Slots /\ Legacy!Kept[i] = lhData[i]
    <2>1. lhHole \in Nat /\ lhHole < lhSize /\ lhSize \in Nat
      BY LegacyParts
    <2>2. left \in Nat /\ left > lhHole
      BY <1>1, <2>1
    <2>3. \A i \in Nat : i < lhSize => i \in Legacy!Slots
      BY LegacyParts
    <2>4. \A i \in Nat : i < lhSize => Legacy!Kept[i] = lhData[i]
      BY <2>3, LegacyParts
    <2> QED
      BY <2>1, <2>2, <2>3, <2>4
  <1>3. greater = IF left + 1 < lhSize /\ lhData[left] < lhData[left + 1] THEN left + 1 ELSE left
    BY DEF Legacy!Greater
  <1>4. LP!GreaterChild(lhHole)
          = IF left + 1 < lhSize /\ Legacy!Kept[left] < Legacy!Kept[left + 1]
              THEN left + 1 ELSE left
    BY <1>1 DEF LP!GreaterChild
  <1> HIDE DEF left, greater
  <1>5. left < lhSize => /\ LP!GreaterChild(lhHole) = greater
                         /\ greater \in {left, left + 1} /\ greater < lhSize
                         /\ greater \in Nat
                         /\ Legacy!Kept[greater] = lhData[greater]
    <2> SUFFICES ASSUME left < lhSize
                 PROVE  /\ LP!GreaterChild(lhHole) = greater
                        /\ greater \in {left, left + 1} /\ greater < lhSize
                        /\ greater \in Nat
                        /\ Legacy!Kept[greater] = lhData[greater]
      OBVIOUS
    <2>1. Legacy!Kept[left] = lhData[left]
          /\ (left + 1 < lhSize => Legacy!Kept[left + 1] = lhData[left + 1])
      BY <1>2
    <2>2. LP!GreaterChild(lhHole) = greater
      BY <1>3, <1>4, <2>1
    <2>3. greater \in {left, left + 1} /\ greater < lhSize /\ greater \in Nat
      BY <1>2, <1>3
    <2> QED
      BY <1>2, <2>2, <2>3
  <1>6. Legacy!Kept[lhHole] = lhData[lhHole]
    BY <1>2
  <1>7. LP!Settled <=> Legacy!Settled
    BY <1>1, <1>5, <1>6 DEF LP!Settled, Legacy!Settled, left, greater
  <1> QED
    BY <1>1, <1>2, <1>5, <1>6, <1>7 DEF left, greater

LEMMA LegacyMoveDownStep ==
    ASSUME LegacyInv, Legacy!MoveDown
    PROVE  LP!Next /\ LegacyShape'
  <1> DEFINE c == Legacy!Greater
  <1>1. /\ lhPc = "down" /\ ~Legacy!Settled /\ Legacy!Left < lhSize
        /\ lhData' = [lhData EXCEPT ![lhSize] = lhData[lhHole], ![lhHole] = lhData[c],
                                    ![c] = lhData[lhHole]]
        /\ lhHole' = c
        /\ UNCHANGED <<lhCapacity, lhSize, lhPc, lhCall, lhBag>>
    BY DEF Legacy!MoveDown, Legacy!Settled
  <1>2. /\ LP!GreaterChild(lhHole) = c /\ ~LP!Settled
        /\ c \in Nat /\ c > lhHole /\ c < lhSize /\ lhHole \in Nat /\ lhSize \in Nat
        /\ Legacy!Kept[c] = lhData[c] /\ Legacy!Kept[lhHole] = lhData[lhHole]
        /\ c \in Legacy!Slots /\ lhHole \in Legacy!Slots /\ lhSize \in Legacy!Slots
    <2>1. /\ LP!GreaterChild(lhHole) = c /\ ~LP!Settled
          /\ c \in {Legacy!Left, Legacy!Left + 1} /\ c < lhSize
          /\ Legacy!Left \in Nat /\ Legacy!Left > lhHole
          /\ Legacy!Kept[c] = lhData[c] /\ Legacy!Kept[lhHole] = lhData[lhHole]
      BY <1>1, LegacyChildren
    <2>2. lhSize < lhCapacity
      BY <1>1 DEF LegacyInv, LegacyShape
    <2> HIDE DEF c
    <2>3. c \in Nat /\ c > lhHole /\ lhHole \in Nat /\ lhSize \in Nat
      BY <2>1, LegacyParts
    <2> QED
      BY <2>1, <2>2, <2>3, LegacyParts
  <1> HIDE DEF c
  <1>3. Legacy!Kept' = [Legacy!Kept EXCEPT ![lhHole] = Legacy!Kept[c],
                                           ![c] = Legacy!Kept[lhHole]]
    <2> DEFINE now == Legacy!Kept
               next == Legacy!Kept'
    <2>1. ASSUME NEW i \in Legacy!Slots
          PROVE  next[i] = IF i = c THEN lhData[lhHole]
                           ELSE IF i = lhHole THEN lhData[c] ELSE now[i]
      <3>1. next[i] = IF i < lhSize THEN lhData'[i] ELSE None
        BY <1>1, KeptNext
      <3>2. lhData'[i] = IF i = c THEN lhData[lhHole]
                         ELSE IF i = lhHole THEN lhData[c]
                         ELSE IF i = lhSize THEN lhData[lhHole] ELSE lhData[i]
        BY <1>1, <1>2, LegacyParts
      <3>3. now[i] = IF i < lhSize THEN lhData[i] ELSE None
        BY <1>1, LegacyParts
      <3>4. i \in Nat /\ ~(lhSize < lhSize)
        BY <1>2, LegacyParts
      <3> HIDE DEF now, next
      <3> QED
        BY <1>2, <3>1, <3>2, <3>3, <3>4
    <2>2. /\ now = [i \in Legacy!Slots |-> now[i]]
          /\ next = [i \in Legacy!Slots |-> next[i]]
      BY KeptNext
    <2>3. now[c] = lhData[c] /\ now[lhHole] = lhData[lhHole]
      BY <1>2
    <2> HIDE DEF now, next
    <2>4. next = [now EXCEPT ![lhHole] = now[c], ![c] = now[lhHole]]
      BY <1>2, <2>1, <2>2, <2>3
    <2> QED
      BY <2>4 DEF now, next
  <1>4. Legacy!Staged' = Legacy!Staged /\ Legacy!Answered' = Legacy!Answered
    BY <1>1 DEF Legacy!Staged, Legacy!Answered
  <1>5. LP!MoveDown
    BY <1>1, <1>2, <1>3, <1>4 DEF LP!MoveDown
  <1>6. LegacyShape'
    <2>1. lhData' \in [Legacy!Slots -> HeapElements \cup {None}]
      BY <1>1, <1>2, LegacyParts
    <2> QED
      BY <1>1, <2>1 DEF LegacyInv, LegacyShape, Legacy!Slots
  <1> QED
    BY <1>5, <1>6 DEF LP!Next

LEMMA LegacyPopEndStep ==
    ASSUME LegacyInv, Legacy!PopEnd
    PROVE  LP!Next /\ LegacyShape'
  <1>1. /\ lhPc = "down" /\ Legacy!Settled /\ Legacy!Return
        /\ UNCHANGED <<lhCapacity, lhSize, lhData, lhBag>>
    BY DEF Legacy!PopEnd
  <1>2. lhPc' = "idle" /\ LP!Return("ok")
    BY <1>1, LegacyReturns
  <1>3. Legacy!Kept' = Legacy!Kept
    <2>1. \A i \in Legacy!Slots : Legacy!Kept'[i] = Legacy!Kept[i]
      BY <1>1, <1>2, KeptNext
    <2> QED
      BY <2>1, KeptSame
  <1>4. LP!PopEnd
    BY <1>1, <1>2, <1>3, LegacyChildren DEF LP!PopEnd
  <1>5. LegacyShape'
    BY <1>1, <1>2, LegacyParts DEF LegacyShape, Legacy!Slots
  <1> QED
    BY <1>4, <1>5 DEF LP!Next

\* heap_free destroys nothing: the values it drops are all that were held.
LEMMA LegacyFreeStep ==
    ASSUME LegacyInv, Legacy!Free
    PROVE  LP!Next /\ LegacyShape'
  <1>1. /\ lhPc = "destroy" /\ Legacy!Return
        /\ lhCapacity' = 0 /\ lhSize' = 0
        /\ lhData' = [i \in Legacy!Slots |-> None]
        /\ lhBag' = [e \in HeapElements |-> 0]
    BY DEF Legacy!Free
  <1>2. lhPc' = "idle" /\ LP!Return("ok")
    BY <1>1, LegacyReturns
  <1>3. Legacy!Kept' = [i \in LP!Slots |-> None]
    BY <1>1, KeptNext
  <1>4. lhBag' = [e \in HeapElements |-> lhBag[e] - LP!Count(e)]
    <2>1. ASSUME NEW e \in HeapElements
          PROVE  lhBag[e] = LP!Count(e) /\ lhBag[e] \in Nat
      <3>1. \A i : LP!Holding(i) = Legacy!Kept[i]
        BY <1>1 DEF LP!Holding
      <3>2. {i \in LP!Used : LP!Holding(i) = e} = {i \in LP!Used : Legacy!Kept[i] = e}
        BY <3>1
      <3>3. lhBag[e] = LP!Cardinality({i \in LP!Used : LP!Holding(i) = e})
        BY DEF LegacyInv, LP!Inv, LP!HeapOrder, LP!Copies
      <3> QED
        BY <3>2, <3>3, LegacyParts DEF LP!Count
    <2>2. \A e \in HeapElements : lhBag[e] - LP!Count(e) = 0
      BY <2>1
    <2> QED
      BY <1>1, <2>2
  <1>5. LP!Clear
    BY <1>1, <1>2, <1>3, <1>4 DEF LP!Clear
  <1>6. LegacyShape'
    BY <1>1, <1>2 DEF LegacyShape, Legacy!Slots
  <1> QED
    BY <1>5, <1>6 DEF LP!Next

LEMMA LegacyStep ==
    LegacyInv /\ [Legacy!Next]_(Legacy!vars) => [LP!Next]_(LP!vars) /\ LegacyInv'
  <1> SUFFICES ASSUME LegacyInv, [Legacy!Next]_(Legacy!vars)
               PROVE  [LP!Next]_(LP!vars) /\ LegacyShape'
    BY LP!NextInv DEF LegacyInv
  <1>1. CASE UNCHANGED Legacy!vars
    <2>1. UNCHANGED <<lhCapacity, lhSize, lhData, lhPc, lhCall, lhHole, lhBag>>
      BY <1>1 DEF Legacy!vars
    <2>2. UNCHANGED LP!vars
      BY <2>1 DEF LP!vars, Legacy!Kept, Legacy!Answered, Legacy!Staged, Legacy!Slots
    <2>3. LegacyShape'
      BY <2>1 DEF LegacyInv, LegacyShape, Legacy!Slots, Legacy!Larger
    <2> QED
      BY <2>2, <2>3
  <1>2. CASE \E e \in HeapElements : Legacy!Call("push", e)
    BY <1>2, LegacyCallStep
  <1>3. CASE \E op \in {"pop", "destroy"} : Legacy!Call(op, None)
    <2>1. None \notin HeapElements
      BY LegacyAssumed DEF LP!HeapAssumption
    <2> QED
      BY <1>3, <2>1, LegacyCallStep
  <1>4. CASE Legacy!Expand \/ Legacy!PushBegin \/ Legacy!MoveUp \/ Legacy!PushEnd
    BY <1>4, LegacyExpandStep, LegacyPushBeginStep, LegacyMoveUpStep, LegacyPushEndStep
  <1>5. CASE Legacy!Pop \/ Legacy!MoveDown \/ Legacy!PopEnd \/ Legacy!Free
    BY <1>5, LegacyPopStep, LegacyMoveDownStep, LegacyPopEndStep, LegacyFreeStep
  <1> QED
    BY <1>1, <1>2, <1>3, <1>4, <1>5 DEF Legacy!Next

\* The heap that LegacyHeap maps itself to is the one of the proofs.
LEMMA LegacyOrderIs == LP!HeapOrder => Legacy!H!HeapOrder
  BY DEF Legacy!H!HeapOrder, LP!HeapOrder, Legacy!H!TypeOK, LP!TypeOK,
    Legacy!H!ControlShape, LP!ControlShape, Legacy!H!Copies, LP!Copies,
    Legacy!H!Ordered, LP!Ordered, Legacy!H!Holding, LP!Holding, Legacy!H!Used, LP!Used,
    Legacy!H!Slots, LP!Slots, Legacy!H!Parent, LP!Parent,
    LP!Cardinality, Legacy!H!Cardinality, LP!IsFiniteSet, Legacy!H!IsFiniteSet

LEMMA LegacyInitIs == LP!Init => Legacy!H!Init
  BY DEF Legacy!H!Init, LP!Init, Legacy!H!Slots, LP!Slots

LEMMA LegacyNextIs == [LP!Next]_(LP!vars) => [Legacy!H!Next]_(Legacy!H!vars)
  BY DEF Legacy!H!Next, LP!Next, Legacy!H!vars, LP!vars,
    Legacy!H!Slots, LP!Slots, Legacy!H!Used, LP!Used,
    Legacy!H!Parent, LP!Parent, Legacy!H!Left, LP!Left, Legacy!H!Call, LP!Call,
    Legacy!H!Return, LP!Return, Legacy!H!Fail, LP!Fail,
    Legacy!H!ReserveEnough, LP!ReserveEnough, Legacy!H!Reserve, LP!Reserve,
    Legacy!H!ReserveFails, LP!ReserveFails, Legacy!H!PushFails, LP!PushFails,
    Legacy!H!PushGrow, LP!PushGrow, Legacy!H!PushStage, LP!PushStage,
    Legacy!H!Belongs, LP!Belongs, Legacy!H!MoveUp, LP!MoveUp,
    Legacy!H!PushEnd, LP!PushEnd, Legacy!H!PopEmpty, LP!PopEmpty, Legacy!H!Pop, LP!Pop,
    Legacy!H!GreaterChild, LP!GreaterChild, Legacy!H!Settled, LP!Settled,
    Legacy!H!MoveDown, LP!MoveDown, Legacy!H!PopEnd, LP!PopEnd,
    Legacy!H!Count, LP!Count, Legacy!H!Clear, LP!Clear, Legacy!H!Calls, LP!Calls,
    LP!Cardinality, Legacy!H!Cardinality, LP!IsFiniteSet, Legacy!H!IsFiniteSet

-----------------------------------------------------------------------------
(* The strings of sds.c: functions that walk through a string *)

\* What holds of a place if it holds of all later places holds everywhere.
LEMMA WalkDown ==
    ASSUME NEW M \in Nat, NEW P,
           \A i \in 1 .. M : (\A k \in i + 1 .. M : k \in P) => i \in P
    PROVE  \A i \in 1 .. M : i \in P
  <1> DEFINE D == {d \in Nat : d < M /\ M - d \notin P}
  <1>1. SUFFICES ASSUME D # {} PROVE FALSE
    <2>1. \A i \in 1 .. M : M - i \in Nat /\ M - i < M /\ M - (M - i) = i
      OBVIOUS
    <2> QED
      BY <2>1
  <1>2. PICK d \in D : \A e \in D : d <= e
    <2>1. D \subseteq Nat
      OBVIOUS
    <2> HIDE DEF D
    <2> QED
      BY <1>1, <2>1, LeastNatural
  <1>3. d \in Nat /\ d < M /\ M - d \notin P /\ M - d \in 1 .. M
    OBVIOUS
  <1>4. ASSUME NEW k \in M - d + 1 .. M
        PROVE  k \in P
    <2>1. M - k \in Nat /\ M - k < M /\ ~(d <= M - k) /\ M - (M - k) = k
      BY <1>3
    <2>2. M - k \notin D
      BY <1>2, <2>1
    <2> QED
      BY <2>1, <2>2
  <1> QED
    BY <1>3, <1>4

\* A function that is defined at each place from its value at a later place.
WalkFrom(M, b, nx, base, comb, R, f) ==
    /\ f \in [b .. M -> R]
    /\ \A i \in b .. M : f[i] = IF nx[i] = 0 THEN base[i] ELSE comb[i][f[nx[i]]]

LEMMA WalkExists ==
    ASSUME NEW M \in Nat, NEW nx, \A i \in 1 .. M : nx[i] \in {0} \cup (i + 1 .. M),
           NEW R, NEW base, \A i \in 1 .. M : base[i] \in R,
           NEW comb, \A i \in 1 .. M : \A r \in R : comb[i][r] \in R
    PROVE  \E f : WalkFrom(M, 1, nx, base, comb, R, f)
  <1> DEFINE P(d) == \E f : WalkFrom(M, M + 1 - d, nx, base, comb, R, f)
             D == {d \in Nat : d <= M /\ ~P(d)}
  <1>1. ASSUME D # {} PROVE FALSE
    <2>1. PICK d \in D : \A e \in D : d <= e
      <3>1. D \subseteq Nat
        OBVIOUS
      <3> HIDE DEF D
      <3> QED
        BY <1>1, <3>1, LeastNatural
    <2>2. d \in Nat /\ d <= M /\ ~P(d)
      OBVIOUS
    <2>3. CASE d = 0
      <3> DEFINE f == [i \in M + 1 .. M |-> base[i]]
      <3>1. M + 1 .. M = {} /\ M + 1 - d = M + 1
        BY <2>3
      <3>2. f \in [M + 1 .. M -> R] /\ \A i \in M + 1 .. M : FALSE
        BY <3>1
      <3>3. WalkFrom(M, M + 1, nx, base, comb, R, f)
        BY <3>2 DEF WalkFrom
      <3> HIDE DEF f
      <3> QED
        BY <2>2, <3>1, <3>3
    <2>4. CASE d # 0
      <3> DEFINE b == M + 1 - d
      <3>1. /\ d - 1 \in Nat /\ d - 1 <= M /\ ~(d <= d - 1) /\ M + 1 - (d - 1) = b + 1
            /\ b \in 1 .. M
        BY <2>2, <2>4
      <3>2. d - 1 \notin D
        BY <2>1, <3>1
      <3>3. PICK g : WalkFrom(M, b + 1, nx, base, comb, R, g)
        BY <3>1, <3>2
      <3> HIDE DEF b
      <3> DEFINE v == IF nx[b] = 0 THEN base[b] ELSE comb[b][g[nx[b]]]
                 f == [i \in b .. M |-> IF i = b THEN v ELSE g[i]]
      <3>4. g \in [b + 1 .. M -> R]
            /\ \A i \in b + 1 .. M : g[i] = IF nx[i] = 0 THEN base[i] ELSE comb[i][g[nx[i]]]
        BY <3>3 DEF WalkFrom
      <3>5. v \in R
        <4>1. CASE nx[b] = 0
          BY <3>1, <4>1
        <4>2. CASE nx[b] # 0
          <5>1. nx[b] \in b + 1 .. M
            BY <3>1, <4>2
          <5>2. g[nx[b]] \in R
            BY <3>4, <5>1
          <5> QED
            BY <3>1, <4>2, <5>2
        <4> QED
          BY <4>1, <4>2
      <3> HIDE DEF v
      <3>6. f \in [b .. M -> R]
        BY <3>1, <3>4, <3>5
      <3>7. \A i \in b + 1 .. M : i \in b .. M /\ f[i] = g[i]
        BY <3>1
      <3>8. f[b] = v
        BY <3>1
      <3> HIDE DEF f
      <3>9. ASSUME NEW i \in b .. M
            PROVE  f[i] = IF nx[i] = 0 THEN base[i] ELSE comb[i][f[nx[i]]]
        <4>1. i \in 1 .. M /\ (i # b => i \in b + 1 .. M)
          BY <3>1
        <4>2. nx[i] # 0 => nx[i] \in b + 1 .. M
          BY <3>1, <4>1
        <4>3. nx[i] # 0 => f[nx[i]] = g[nx[i]]
          BY <3>7, <4>2
        <4>4. CASE i = b
          BY <3>8, <4>3, <4>4 DEF v
        <4>5. CASE i # b
          BY <3>4, <3>7, <4>1, <4>3, <4>5
        <4> QED
          BY <4>4, <4>5
      <3>10. WalkFrom(M, b, nx, base, comb, R, f)
        BY <3>6, <3>9 DEF WalkFrom
      <3> QED
        BY <2>2, <3>10 DEF b
    <2> QED
      BY <2>3, <2>4
  <1>2. M \notin D
    BY <1>1
  <1>3. M + 1 - M = 1 /\ M <= M
    OBVIOUS
  <1> QED
    BY <1>2, <1>3

-----------------------------------------------------------------------------
(* The strings of sds.c: finding, counting, replacing and splitting *)

\* m is the first place from i on where t comes in x, or 0.
FirstPlace(x, t, i, m) ==
    \/ m = 0 /\ \A k \in i .. Len(x) - Len(t) + 1 : SubSeq(x, k, k + Len(t) - 1) # t
    \/ /\ m \in i .. Len(x) - Len(t) + 1 /\ SubSeq(x, m, m + Len(t) - 1) = t
       /\ m # 0 /\ m \in i .. Len(x) /\ m + Len(t) \in i + 1 .. Len(x) + 1
       /\ \A k \in i .. m - 1 : SubSeq(x, k, k + Len(t) - 1) # t

LEMMA FirstIs ==
    ASSUME NEW S, NEW x \in Seq(S), NEW t \in Seq(S), t # <<>>, NEW i \in 1 .. Len(x) + 1
    PROVE  FirstPlace(x, t, i, Strs!Find(x, t, i))
  <1> DEFINE H == {j \in i .. Len(x) - Len(t) + 1 : SubSeq(x, j, j + Len(t) - 1) = t}
             m == CHOOSE j \in H : \A k \in H : j <= k
  <1>1. Len(x) \in Nat /\ Len(t) \in Nat /\ Len(t) # 0 /\ i \in Nat \ {0}
    <2>1. Len(x) \in Nat /\ Len(t) \in Nat
      BY LenProperties
    <2>2. Len(t) # 0
      BY EmptySeq
    <2> QED
      BY <2>1, <2>2
  <1>2. Strs!Find(x, t, i) = IF H = {} THEN 0 ELSE m
    <2>1. Strs!Find(x, t, i) = IF t = <<>> \/ H = {} THEN 0 ELSE m
      BY DEF Strs!Find
    <2> HIDE DEF H, m
    <2> QED
      BY <2>1
  <1>3. CASE H = {}
    BY <1>2, <1>3 DEF FirstPlace
  <1>4. CASE H # {}
    <2>1. H \subseteq Nat
      BY <1>1
    <2>2. \E j \in H : \A k \in H : j <= k
      <3> HIDE DEF H
      <3> QED
        BY <1>4, <2>1, LeastNatural
    <2>3. m \in H /\ \A k \in H : m <= k
      <3> HIDE DEF H
      <3> QED
        BY <2>2
    <2>4. Strs!Find(x, t, i) = m
      BY <1>2, <1>4
    <2> HIDE DEF m
    <2>5. m \in i .. Len(x) - Len(t) + 1 /\ SubSeq(x, m, m + Len(t) - 1) = t
      BY <2>3
    <2>6. m # 0 /\ m \in i .. Len(x) /\ m + Len(t) \in i + 1 .. Len(x) + 1
      BY <1>1, <2>5
    <2>7. ASSUME NEW k \in i .. m - 1
          PROVE  SubSeq(x, k, k + Len(t) - 1) # t
      <3>1. k \in i .. Len(x) - Len(t) + 1 /\ ~(m <= k)
        BY <1>1, <2>5
      <3>2. k \notin H
        BY <2>3, <3>1
      <3> QED
        BY <3>1, <3>2
    <2> QED
      BY <2>4, <2>5, <2>6, <2>7 DEF FirstPlace
  <1> QED
    BY <1>3, <1>4

\* The place behind the next t, or 0.
NextWalk(x, t) ==
    [i \in 1 .. Len(x) + 1 |-> IF Strs!Find(x, t, i) = 0 THEN 0 ELSE Strs!Find(x, t, i) + Len(t)]

LEMMA NextWalkIs ==
    ASSUME NEW S, NEW x \in Seq(S), NEW t \in Seq(S), t # <<>>
    PROVE  /\ Len(x) + 1 \in Nat
           /\ \A i \in 1 .. Len(x) + 1 :
                 /\ NextWalk(x, t)[i] \in {0} \cup (i + 1 .. Len(x) + 1)
                 /\ NextWalk(x, t)[i] = 0 <=> Strs!Find(x, t, i) = 0
                 /\ Strs!Find(x, t, i) # 0 => NextWalk(x, t)[i] = Strs!Find(x, t, i) + Len(t)
  <1>1. Len(x) \in Nat /\ Len(t) \in Nat
    BY LenProperties
  <1>2. ASSUME NEW i \in 1 .. Len(x) + 1
        PROVE  /\ NextWalk(x, t)[i] \in {0} \cup (i + 1 .. Len(x) + 1)
               /\ NextWalk(x, t)[i] = 0 <=> Strs!Find(x, t, i) = 0
               /\ Strs!Find(x, t, i) # 0 => NextWalk(x, t)[i] = Strs!Find(x, t, i) + Len(t)
    <2> DEFINE m == Strs!Find(x, t, i)
    <2>1. NextWalk(x, t)[i] = IF m = 0 THEN 0 ELSE m + Len(t)
      BY DEF NextWalk
    <2>2. m = 0 \/ m + Len(t) \in i + 1 .. Len(x) + 1
      BY FirstIs DEF FirstPlace
    <2> HIDE DEF m
    <2>3. m # 0 => m + Len(t) # 0
      BY <1>1, <2>2
    <2> QED
      BY <2>1, <2>2, <2>3 DEF m
  <1> QED
    BY <1>1, <1>2

CountFn(x, t, c) ==
    c = [i \in 1 .. Len(x) + 1 |->
            IF Strs!Find(x, t, i) = 0 THEN 0 ELSE 1 + c[Strs!Find(x, t, i) + Len(t)]]

ReplacedFn(x, t, with, r) ==
    r = [i \in 1 .. Len(x) + 1 |->
            IF Strs!Find(x, t, i) = 0 THEN SubSeq(x, i, Len(x))
            ELSE SubSeq(x, i, Strs!Find(x, t, i) - 1) \o with
                    \o r[Strs!Find(x, t, i) + Len(t)]]

PiecesFn(x, t, p) ==
    p = [i \in 1 .. Len(x) + 1 |->
            IF Strs!Find(x, t, i) = 0 THEN <<SubSeq(x, i, Len(x))>>
            ELSE <<SubSeq(x, i, Strs!Find(x, t, i) - 1)>>
                    \o p[Strs!Find(x, t, i) + Len(t)]]

LEMMA PartIs ==
    ASSUME NEW S, NEW x \in Seq(S), NEW i \in 1 .. Len(x) + 1, NEW j \in i - 1 .. Len(x)
    PROVE  SubSeq(x, i, j) \in Seq(S) /\ Len(SubSeq(x, i, j)) = j - i + 1
           /\ \A k \in 1 .. j - i + 1 : SubSeq(x, i, j)[k] = x[i + k - 1]
  <1>1. Len(x) \in Nat /\ \A k \in 1 .. Len(x) : x[k] \in S
    BY LenProperties
  <1>2. i \in Int /\ j \in Int /\ \A k \in i .. j : x[k] \in S
    BY <1>1
  <1>3. (IF i <= j THEN j - i + 1 ELSE 0) = j - i + 1
    BY <1>1
  <1>4. /\ SubSeq(x, i, j) \in Seq(S)
        /\ Len(SubSeq(x, i, j)) = IF i <= j THEN j - i + 1 ELSE 0
        /\ \A k \in 1 .. j - i + 1 : SubSeq(x, i, j)[k] = x[i + k - 1]
    BY <1>2, SubSeqProperties
  <1> QED
    BY <1>3, <1>4

LEMMA FunctionsAgree ==
    ASSUME NEW D, NEW T, NEW f \in [D -> T], NEW g \in [D -> T], \A i \in D : f[i] = g[i]
    PROVE  f = g
  OBVIOUS

LEMMA CountFnIs ==
    ASSUME NEW S, NEW x \in Seq(S), NEW t \in Seq(S), t # <<>>
    PROVE  \E c : CountFn(x, t, c) /\ Strs!Count(x, t) = c[1]
  <1> DEFINE M == Len(x) + 1
             F == CHOOSE c : c = [i \in 1 .. Len(x) + 1 |->
                     IF Strs!Find(x, t, i) = 0 THEN 0 ELSE 1 + c[Strs!Find(x, t, i) + Len(t)]]
  <1>1. \E c : CountFn(x, t, c)
    <2> DEFINE nx == NextWalk(x, t)
               base == [i \in 1 .. M |-> 0]
               comb == [i \in 1 .. M |-> [r \in Nat |-> 1 + r]]
    <2>1. M \in Nat /\ \A i \in 1 .. M : nx[i] \in {0} \cup (i + 1 .. M)
      BY NextWalkIs
    <2>2. \A i \in 1 .. M : base[i] \in Nat /\ \A r \in Nat : comb[i][r] \in Nat
      OBVIOUS
    <2>3. PICK c : WalkFrom(M, 1, nx, base, comb, Nat, c)
      <3> HIDE DEF M, nx, base, comb
      <3> QED
        BY <2>1, <2>2, WalkExists
    <2>4. c \in [1 .. M -> Nat]
          /\ \A i \in 1 .. M : c[i] = IF nx[i] = 0 THEN base[i] ELSE comb[i][c[nx[i]]]
      BY <2>3 DEF WalkFrom
    <2>5. ASSUME NEW i \in 1 .. M
          PROVE  c[i] = IF Strs!Find(x, t, i) = 0 THEN 0 ELSE 1 + c[Strs!Find(x, t, i) + Len(t)]
      <3>1. CASE Strs!Find(x, t, i) = 0
        <4>1. nx[i] = 0
          BY <3>1, NextWalkIs
        <4>2. base[i] = 0
          OBVIOUS
        <4> HIDE DEF nx, base, comb
        <4> QED
          BY <2>4, <3>1, <4>1, <4>2
      <3>2. CASE Strs!Find(x, t, i) # 0
        <4>1. nx[i] = Strs!Find(x, t, i) + Len(t) /\ nx[i] # 0 /\ nx[i] \in i + 1 .. M
          BY <3>2, NextWalkIs
        <4>2. nx[i] \in 1 .. M
          BY <2>1, <4>1
        <4>3. c[nx[i]] \in Nat
          BY <2>4, <4>2
        <4>4. c[i] = comb[i][c[nx[i]]]
          BY <2>4, <4>1
        <4>5. comb[i][c[nx[i]]] = 1 + c[nx[i]]
          BY <4>3
        <4> QED
          BY <3>2, <4>1, <4>4, <4>5
      <3> QED
        BY <3>1, <3>2
    <2> QED
      BY <2>4, <2>5 DEF CountFn
  <1>2. F = [i \in 1 .. Len(x) + 1 |->
                IF Strs!Find(x, t, i) = 0 THEN 0 ELSE 1 + F[Strs!Find(x, t, i) + Len(t)]]
    BY <1>1 DEF CountFn
  <1>3. Strs!Count(x, t) = F[1]
    BY DEF Strs!Count
  <1> HIDE DEF F
  <1> QED
    BY <1>2, <1>3 DEF CountFn

LEMMA ReplacedFnIs ==
    ASSUME NEW S, NEW x \in Seq(S), NEW t \in Seq(S), t # <<>>, NEW with \in Seq(S)
    PROVE  \E r : ReplacedFn(x, t, with, r) /\ Strs!Replaced(x, t, with) = r[1]
  <1> DEFINE M == Len(x) + 1
             F == CHOOSE r : r = [i \in 1 .. Len(x) + 1 |->
                     IF Strs!Find(x, t, i) = 0 THEN SubSeq(x, i, Len(x))
                     ELSE SubSeq(x, i, Strs!Find(x, t, i) - 1) \o with
                             \o r[Strs!Find(x, t, i) + Len(t)]]
  <1>1. \E r : ReplacedFn(x, t, with, r)
    <2> DEFINE nx == NextWalk(x, t)
               base == [i \in 1 .. M |-> SubSeq(x, i, Len(x))]
               comb == [i \in 1 .. M |-> [r \in Seq(S) |->
                           IF Strs!Find(x, t, i) = 0 THEN <<>>
                           ELSE SubSeq(x, i, Strs!Find(x, t, i) - 1) \o with \o r]]
    <2>1. M \in Nat /\ \A i \in 1 .. M : nx[i] \in {0} \cup (i + 1 .. M)
      BY NextWalkIs
    <2>2. ASSUME NEW i \in 1 .. M
          PROVE  base[i] \in Seq(S)
      <3>1. Len(x) \in i - 1 .. Len(x)
        BY <2>1
      <3> QED
        BY <3>1, PartIs
    <2>3. ASSUME NEW i \in 1 .. M, NEW r \in Seq(S)
          PROVE  comb[i][r] \in Seq(S)
      <3>1. <<>> \in Seq(S)
        BY EmptySeq
      <3>2. ASSUME Strs!Find(x, t, i) # 0
            PROVE  SubSeq(x, i, Strs!Find(x, t, i) - 1) \o with \o r \in Seq(S)
        <4>1. Strs!Find(x, t, i) - 1 \in i - 1 .. Len(x)
          <5>1. Strs!Find(x, t, i) \in i .. Len(x)
            BY <3>2, FirstIs DEF FirstPlace
          <5> QED
            BY <2>1, <5>1
        <4>2. SubSeq(x, i, Strs!Find(x, t, i) - 1) \in Seq(S)
          BY <4>1, PartIs
        <4>3. SubSeq(x, i, Strs!Find(x, t, i) - 1) \o with \in Seq(S)
          BY <4>2, ConcatProperties
        <4> QED
          BY <4>3, ConcatProperties
      <3> QED
        BY <3>1, <3>2
    <2>4. PICK r : WalkFrom(M, 1, nx, base, comb, Seq(S), r)
      <3> HIDE DEF M, nx, base, comb
      <3> QED
        BY <2>1, <2>2, <2>3, WalkExists
    <2>5. r \in [1 .. M -> Seq(S)]
          /\ \A i \in 1 .. M : r[i] = IF nx[i] = 0 THEN base[i] ELSE comb[i][r[nx[i]]]
      BY <2>4 DEF WalkFrom
    <2>6. ASSUME NEW i \in 1 .. M
          PROVE  r[i] = IF Strs!Find(x, t, i) = 0 THEN SubSeq(x, i, Len(x))
                        ELSE SubSeq(x, i, Strs!Find(x, t, i) - 1) \o with
                                \o r[Strs!Find(x, t, i) + Len(t)]
      <3>1. CASE Strs!Find(x, t, i) = 0
        <4>1. nx[i] = 0
          BY <3>1, NextWalkIs
        <4>2. base[i] = SubSeq(x, i, Len(x))
          OBVIOUS
        <4> HIDE DEF nx, base, comb
        <4> QED
          BY <2>5, <3>1, <4>1, <4>2
      <3>2. CASE Strs!Find(x, t, i) # 0
        <4>1. nx[i] = Strs!Find(x, t, i) + Len(t) /\ nx[i] # 0 /\ nx[i] \in i + 1 .. M
          BY <3>2, NextWalkIs
        <4>2. nx[i] \in 1 .. M
          BY <2>1, <4>1
        <4>3. r[nx[i]] \in Seq(S)
          BY <2>5, <4>2
        <4>4. r[i] = comb[i][r[nx[i]]]
          BY <2>5, <4>1
        <4>5. comb[i][r[nx[i]]] = SubSeq(x, i, Strs!Find(x, t, i) - 1) \o with \o r[nx[i]]
          BY <3>2, <4>3
        <4> QED
          BY <3>2, <4>1, <4>4, <4>5
      <3> QED
        BY <3>1, <3>2
    <2> DEFINE G == [i \in 1 .. M |->
                     IF Strs!Find(x, t, i) = 0 THEN SubSeq(x, i, Len(x))
                     ELSE SubSeq(x, i, Strs!Find(x, t, i) - 1) \o with
                             \o r[Strs!Find(x, t, i) + Len(t)]]
    <2>7. \A i \in 1 .. M : r[i] = G[i]
      BY <2>6
    <2>8. G \in [1 .. M -> Seq(S)]
      <3>1. DOMAIN G = 1 .. M /\ G = [i \in 1 .. M |-> G[i]]
        OBVIOUS
      <3> HIDE DEF G, M
      <3> QED
        BY <2>5, <2>7, <3>1
    <2>9. r \in [1 .. M -> Seq(S)]
      BY <2>5
    <2>10. r = G
      <3> DEFINE D == 1 .. M
      <3>1. r \in [D -> Seq(S)] /\ G \in [D -> Seq(S)] /\ \A i \in D : r[i] = G[i]
        <4> HIDE DEF G, M
        <4> QED
          BY <2>7, <2>8, <2>9
      <3> HIDE DEF D, G, M
      <3> QED
        BY <3>1, FunctionsAgree
    <2> QED
      BY <2>10 DEF ReplacedFn
  <1>2. F = [i \in 1 .. Len(x) + 1 |->
                IF Strs!Find(x, t, i) = 0 THEN SubSeq(x, i, Len(x))
                ELSE SubSeq(x, i, Strs!Find(x, t, i) - 1) \o with
                        \o F[Strs!Find(x, t, i) + Len(t)]]
    BY <1>1 DEF ReplacedFn
  <1>3. Strs!Replaced(x, t, with) = F[1]
    BY DEF Strs!Replaced
  <1> HIDE DEF F
  <1> QED
    BY <1>2, <1>3 DEF ReplacedFn

LEMMA PiecesFnIs ==
    ASSUME NEW S, NEW x \in Seq(S), NEW t \in Seq(S), t # <<>>
    PROVE  \E p : PiecesFn(x, t, p) /\ Strs!Pieces(x, t) = p[1]
  <1> DEFINE M == Len(x) + 1
             F == CHOOSE p : p = [i \in 1 .. Len(x) + 1 |->
                     IF Strs!Find(x, t, i) = 0 THEN <<SubSeq(x, i, Len(x))>>
                     ELSE <<SubSeq(x, i, Strs!Find(x, t, i) - 1)>>
                             \o p[Strs!Find(x, t, i) + Len(t)]]
  <1>1. \E p : PiecesFn(x, t, p)
    <2> DEFINE nx == NextWalk(x, t)
               base == [i \in 1 .. M |-> <<SubSeq(x, i, Len(x))>>]
               comb == [i \in 1 .. M |-> [r \in Seq(Seq(S)) |->
                           IF Strs!Find(x, t, i) = 0 THEN <<>>
                           ELSE <<SubSeq(x, i, Strs!Find(x, t, i) - 1)>> \o r]]
    <2>1. M \in Nat /\ \A i \in 1 .. M : nx[i] \in {0} \cup (i + 1 .. M)
      BY NextWalkIs
    <2>2. ASSUME NEW i \in 1 .. M
          PROVE  base[i] \in Seq(Seq(S))
      <3>1. Len(x) \in i - 1 .. Len(x)
        BY <2>1
      <3>2. SubSeq(x, i, Len(x)) \in Seq(S)
        BY <3>1, PartIs
      <3> QED
        BY <3>2
    <2>3. ASSUME NEW i \in 1 .. M, NEW r \in Seq(Seq(S))
          PROVE  comb[i][r] \in Seq(Seq(S))
      <3>1. <<>> \in Seq(Seq(S))
        BY EmptySeq
      <3>2. ASSUME Strs!Find(x, t, i) # 0
            PROVE  <<SubSeq(x, i, Strs!Find(x, t, i) - 1)>> \o r \in Seq(Seq(S))
        <4>1. Strs!Find(x, t, i) - 1 \in i - 1 .. Len(x)
          <5>1. Strs!Find(x, t, i) \in i .. Len(x)
            BY <3>2, FirstIs DEF FirstPlace
          <5> QED
            BY <2>1, <5>1
        <4>2. SubSeq(x, i, Strs!Find(x, t, i) - 1) \in Seq(S)
          BY <4>1, PartIs
        <4>3. <<SubSeq(x, i, Strs!Find(x, t, i) - 1)>> \in Seq(Seq(S))
          BY <4>2
        <4> QED
          BY <4>3, ConcatProperties
      <3> QED
        BY <3>1, <3>2
    <2>4. PICK p : WalkFrom(M, 1, nx, base, comb, Seq(Seq(S)), p)
      <3> HIDE DEF M, nx, base, comb
      <3> QED
        BY <2>1, <2>2, <2>3, WalkExists
    <2>5. p \in [1 .. M -> Seq(Seq(S))]
          /\ \A i \in 1 .. M : p[i] = IF nx[i] = 0 THEN base[i] ELSE comb[i][p[nx[i]]]
      BY <2>4 DEF WalkFrom
    <2>6. ASSUME NEW i \in 1 .. M
          PROVE  p[i] = IF Strs!Find(x, t, i) = 0 THEN <<SubSeq(x, i, Len(x))>>
                        ELSE <<SubSeq(x, i, Strs!Find(x, t, i) - 1)>>
                                \o p[Strs!Find(x, t, i) + Len(t)]
      <3>1. CASE Strs!Find(x, t, i) = 0
        <4>1. nx[i] = 0
          BY <3>1, NextWalkIs
        <4>2. base[i] = <<SubSeq(x, i, Len(x))>>
          OBVIOUS
        <4> HIDE DEF nx, base, comb
        <4> QED
          BY <2>5, <3>1, <4>1, <4>2
      <3>2. CASE Strs!Find(x, t, i) # 0
        <4>1. nx[i] = Strs!Find(x, t, i) + Len(t) /\ nx[i] # 0 /\ nx[i] \in i + 1 .. M
          BY <3>2, NextWalkIs
        <4>2. nx[i] \in 1 .. M
          BY <2>1, <4>1
        <4>3. p[nx[i]] \in Seq(Seq(S))
          BY <2>5, <4>2
        <4>4. p[i] = comb[i][p[nx[i]]]
          BY <2>5, <4>1
        <4>5. comb[i][p[nx[i]]] = <<SubSeq(x, i, Strs!Find(x, t, i) - 1)>> \o p[nx[i]]
          BY <3>2, <4>3
        <4> QED
          BY <3>2, <4>1, <4>4, <4>5
      <3> QED
        BY <3>1, <3>2
    <2> DEFINE G == [i \in 1 .. M |->
                     IF Strs!Find(x, t, i) = 0 THEN <<SubSeq(x, i, Len(x))>>
                     ELSE <<SubSeq(x, i, Strs!Find(x, t, i) - 1)>>
                             \o p[Strs!Find(x, t, i) + Len(t)]]
    <2>7. \A i \in 1 .. M : p[i] = G[i]
      BY <2>6
    <2>8. G \in [1 .. M -> Seq(Seq(S))]
      <3>1. DOMAIN G = 1 .. M /\ G = [i \in 1 .. M |-> G[i]]
        OBVIOUS
      <3> HIDE DEF G, M
      <3> QED
        BY <2>5, <2>7, <3>1
    <2>9. p \in [1 .. M -> Seq(Seq(S))]
      BY <2>5
    <2>10. p = G
      <3> DEFINE D == 1 .. M
      <3>1. p \in [D -> Seq(Seq(S))] /\ G \in [D -> Seq(Seq(S))] /\ \A i \in D : p[i] = G[i]
        <4> HIDE DEF G, M
        <4> QED
          BY <2>7, <2>8, <2>9
      <3> HIDE DEF D, G, M
      <3> QED
        BY <3>1, FunctionsAgree
    <2> QED
      BY <2>10 DEF PiecesFn
  <1>2. F = [i \in 1 .. Len(x) + 1 |->
                IF Strs!Find(x, t, i) = 0 THEN <<SubSeq(x, i, Len(x))>>
                ELSE <<SubSeq(x, i, Strs!Find(x, t, i) - 1)>>
                        \o F[Strs!Find(x, t, i) + Len(t)]]
    BY <1>1 DEF PiecesFn
  <1>3. Strs!Pieces(x, t) = F[1]
    BY DEF Strs!Pieces
  <1> HIDE DEF F
  <1> QED
    BY <1>2, <1>3 DEF PiecesFn
\* m is where t comes next in x.
NextAt(x, t, i, m) == m = Strs!Find(x, t, i)

NextPlace(x, t, i, m) ==
    /\ m = 0 \/ m \in i .. Len(x)
    /\ m # 0 => m + Len(t) \in i + 1 .. Len(x) + 1

LEMMA NextIs ==
    ASSUME NEW S, NEW x \in Seq(S), NEW t \in Seq(S), t # <<>>, NEW i \in 1 .. Len(x) + 1,
           NEW m, NextAt(x, t, i, m)
    PROVE  NextPlace(x, t, i, m)
  BY FirstIs DEF FirstPlace, NextAt, NextPlace

LEMMA BeforeNext ==
    ASSUME NEW S, NEW x \in Seq(S), NEW i \in 1 .. Len(x) + 1, NEW m \in i .. Len(x) + 1
    PROVE  SubSeq(x, i, m - 1) \in Seq(S)
  <1>1. m - 1 \in i - 1 .. Len(x)
    BY LenProperties
  <1> QED
    BY <1>1, PartIs

LEMMA RestType ==
    ASSUME NEW S, NEW x \in Seq(S), NEW i \in 1 .. Len(x) + 1
    PROVE  SubSeq(x, i, Len(x)) \in Seq(S)
  <1>1. Len(x) \in i - 1 .. Len(x)
    BY LenProperties
  <1> QED
    BY <1>1, PartIs

LEMMA CountStep ==
    ASSUME NEW x, NEW t, NEW c, CountFn(x, t, c), NEW i \in 1 .. Len(x) + 1,
           NEW m, NextAt(x, t, i, m)
    PROVE  c[i] = IF m = 0 THEN 0 ELSE 1 + c[m + Len(t)]
  BY DEF CountFn, NextAt

LEMMA ReplacedStep ==
    ASSUME NEW x, NEW t, NEW with, NEW r, ReplacedFn(x, t, with, r), NEW i \in 1 .. Len(x) + 1,
           NEW m, NextAt(x, t, i, m)
    PROVE  r[i] = IF m = 0 THEN SubSeq(x, i, Len(x))
                  ELSE SubSeq(x, i, m - 1) \o with \o r[m + Len(t)]
  BY DEF ReplacedFn, NextAt

PieceAt(x, t, p, i, m) ==
    p[i] = IF m = 0 THEN <<SubSeq(x, i, Len(x))>>
           ELSE <<SubSeq(x, i, m - 1)>> \o p[m + Len(t)]

LEMMA PiecesStep ==
    ASSUME NEW x, NEW t, NEW p, PiecesFn(x, t, p), NEW i \in 1 .. Len(x) + 1,
           NEW m, NextAt(x, t, i, m)
    PROVE  PieceAt(x, t, p, i, m)
  BY DEF PiecesFn, NextAt, PieceAt

LEMMA WalkTypes ==
    ASSUME NEW S, NEW x \in Seq(S), NEW t \in Seq(S), t # <<>>
    PROVE  /\ \A c : CountFn(x, t, c) => \A i \in 1 .. Len(x) + 1 : c[i] \in Nat
           /\ \A with \in Seq(S) : \A r : ReplacedFn(x, t, with, r) =>
                 \A i \in 1 .. Len(x) + 1 : r[i] \in Seq(S)
           /\ \A p : PiecesFn(x, t, p) =>
                 \A i \in 1 .. Len(x) + 1 : p[i] \in Seq(Seq(S)) /\ p[i] # <<>>
  <1> DEFINE M == Len(x) + 1
  <1>1. Len(x) \in Nat /\ M \in Nat
    BY LenProperties
  <1>2. ASSUME NEW c, CountFn(x, t, c)
        PROVE  \A i \in 1 .. M : c[i] \in Nat
    <2> DEFINE P == {i \in 1 .. M : c[i] \in Nat}
    <2>1. ASSUME NEW i \in 1 .. M, \A k \in i + 1 .. M : k \in P
          PROVE  i \in P
      <3>0. PICK m : NextAt(x, t, i, m)
        BY DEF NextAt
      <3>1. c[i] = IF m = 0 THEN 0 ELSE 1 + c[m + Len(t)]
        BY <1>2, <3>0, CountStep
      <3>n. (m = 0 \/ m \in i .. Len(x)) /\ (m # 0 => m + Len(t) \in i + 1 .. M)
        BY <3>0, NextIs DEF NextPlace
      <3>2. m # 0 => c[m + Len(t)] \in Nat
        BY <2>1, <3>n
      <3> QED
        BY <3>1, <3>2
    <2>2. \A i \in 1 .. M : i \in P
      <3> HIDE DEF P, M
      <3> QED
        BY <1>1, <2>1, WalkDown
    <2> QED
      BY <2>2
  <1>3. ASSUME NEW with \in Seq(S), NEW r, ReplacedFn(x, t, with, r)
        PROVE  \A i \in 1 .. M : r[i] \in Seq(S)
    <2> DEFINE P == {i \in 1 .. M : r[i] \in Seq(S)}
    <2>1. ASSUME NEW i \in 1 .. M, \A k \in i + 1 .. M : k \in P
          PROVE  i \in P
      <3>0. PICK m : NextAt(x, t, i, m)
        BY DEF NextAt
      <3>1. r[i] = IF m = 0 THEN SubSeq(x, i, Len(x))
                   ELSE SubSeq(x, i, m - 1) \o with \o r[m + Len(t)]
        BY <1>3, <3>0, ReplacedStep
      <3>n. (m = 0 \/ m \in i .. Len(x)) /\ (m # 0 => m + Len(t) \in i + 1 .. M)
        BY <3>0, NextIs DEF NextPlace
      <3>b. SubSeq(x, i, Len(x)) \in Seq(S)
        BY RestType
      <3>a. m # 0 => SubSeq(x, i, m - 1) \in Seq(S)
        <4>1. m # 0 => m \in i .. Len(x) + 1
          BY <1>1, <3>n
        <4> QED
          BY <4>1, BeforeNext
      <3>2. m # 0 => r[m + Len(t)] \in Seq(S)
        BY <2>1, <3>n
      <3>3. m # 0 => SubSeq(x, i, m - 1) \o with \in Seq(S)
        BY <3>a, ConcatProperties
      <3>4. m # 0 => SubSeq(x, i, m - 1) \o with \o r[m + Len(t)] \in Seq(S)
        BY <3>2, <3>3, ConcatProperties
      <3> QED
        BY <3>1, <3>4, <3>b
    <2>2. \A i \in 1 .. M : i \in P
      <3> HIDE DEF P, M
      <3> QED
        BY <1>1, <2>1, WalkDown
    <2> QED
      BY <2>2
  <1>4. ASSUME NEW p, PiecesFn(x, t, p)
        PROVE  \A i \in 1 .. M : p[i] \in Seq(Seq(S)) /\ p[i] # <<>>
    <2> DEFINE P == {i \in 1 .. M : p[i] \in Seq(Seq(S)) /\ p[i] # <<>>}
    <2>1. ASSUME NEW i \in 1 .. M, \A k \in i + 1 .. M : k \in P
          PROVE  i \in P
      <3>0. PICK m : NextAt(x, t, i, m)
        BY DEF NextAt
      <3>1. p[i] = IF m = 0 THEN <<SubSeq(x, i, Len(x))>>
                   ELSE <<SubSeq(x, i, m - 1)>> \o p[m + Len(t)]
        <4>1. PieceAt(x, t, p, i, m)
          BY <1>4, <3>0, PiecesStep
        <4> QED
          BY <4>1 DEF PieceAt
      <3>n. (m = 0 \/ m \in i .. Len(x)) /\ (m # 0 => m + Len(t) \in i + 1 .. M)
        BY <3>0, NextIs DEF NextPlace
      <3>b. SubSeq(x, i, Len(x)) \in Seq(S)
        BY RestType
      <3>a. m # 0 => SubSeq(x, i, m - 1) \in Seq(S)
        <4>1. m # 0 => m \in i .. Len(x) + 1
          BY <1>1, <3>n
        <4> QED
          BY <4>1, BeforeNext
      <3>2. m # 0 => p[m + Len(t)] \in Seq(Seq(S))
        BY <2>1, <3>n
      <3>3. \A y \in Seq(S) : <<y>> \in Seq(Seq(S)) /\ <<y>> # <<>> /\ Len(<<y>>) = 1
        OBVIOUS
      <3>4. \A y \in Seq(S), q \in Seq(Seq(S)) : <<y>> \o q \in Seq(Seq(S)) /\ <<y>> \o q # <<>>
        <4> SUFFICES ASSUME NEW y \in Seq(S), NEW q \in Seq(Seq(S))
                     PROVE  <<y>> \o q \in Seq(Seq(S)) /\ <<y>> \o q # <<>>
          OBVIOUS
        <4>1. <<y>> \o q \in Seq(Seq(S)) /\ Len(<<y>> \o q) = 1 + Len(q) /\ Len(q) \in Nat
          BY <3>3, ConcatProperties, LenProperties
        <4>2. Len(<<y>> \o q) # 0
          BY <4>1
        <4> QED
          BY <4>1, <4>2, EmptySeq
      <3> QED
        BY <3>1, <3>2, <3>3, <3>4, <3>a, <3>b
    <2>2. \A i \in 1 .. M : i \in P
      <3> HIDE DEF P, M
      <3> QED
        BY <1>1, <2>1, WalkDown
    <2> QED
      BY <2>2
  <1> QED
    BY <1>2, <1>3, <1>4

-----------------------------------------------------------------------------
(* The strings of sds.c: what sdsjoinlen writes *)

Flattens(v, f) == f = [i \in 1 .. Len(v) |-> IF i = 1 THEN v[i] ELSE f[i - 1] \o v[i]]

LEMMA FoldFlattens ==
    ASSUME NEW S, NEW v \in Seq(Seq(S)), v # <<>>
    PROVE  Flattens(v, [i \in 1 .. Len(v) |-> Seg!Fold(v, 1, i + 1)])
  <1> DEFINE G == [i \in 1 .. Len(v) |-> Seg!Fold(v, 1, i + 1)]
  <1>1. Len(v) \in Nat /\ \A i \in 1 .. Len(v) : v[i] \in Seq(S)
    BY LenProperties
  <1>2. ASSUME NEW i \in 1 .. Len(v)
        PROVE  G[i] = IF i = 1 THEN v[i] ELSE G[i - 1] \o v[i]
    <2>1. G[i] = Seg!Fold(v, 1, i + 1)
      OBVIOUS
    <2>2. Seg!Fold(v, 1, i + 1) = Seg!Merge(Seg!Fold(v, 1, i), v[i])
      <3>1. i + 1 \in Int /\ 1 < i + 1 /\ 1 <= i + 1 /\ i + 1 - 1 = i
        BY <1>1
      <3>2. Seg!Fold(v, 1, i + 1) = Seg!Merge(Seg!Fold(v, 1, i + 1 - 1), v[i + 1 - 1])
        BY <3>1, FoldSteps
      <3> QED
        BY <3>1, <3>2
    <2>3. CASE i = 1
      <3>1. Seg!Fold(v, 1, i) = Seg!Identity
        BY <2>3, FoldSteps
      <3>2. v[i] \in Seq(S)
        BY <1>1
      <3>3. Seg!Merge(Seg!Identity, v[i]) = v[i]
        BY <3>2, MergeLaws
      <3> HIDE DEF G
      <3> QED
        BY <2>1, <2>2, <2>3, <3>1, <3>3
    <2>4. CASE i # 1
      <3>1. i - 1 \in 1 .. Len(v) /\ i - 1 + 1 = i
        BY <1>1, <2>4
      <3>2. G[i - 1] = Seg!Fold(v, 1, i)
        BY <3>1
      <3> HIDE DEF G
      <3> QED
        BY <2>1, <2>2, <2>4, <3>2 DEF Seg!Merge
    <2> QED
      BY <2>3, <2>4
  <1>3. G = [i \in 1 .. Len(v) |-> IF i = 1 THEN v[i] ELSE G[i - 1] \o v[i]]
    BY <1>2
  <1> QED
    BY <1>3 DEF Flattens

LEMMA FlatIs ==
    ASSUME NEW S, NEW v \in Seq(Seq(S)), v # <<>>
    PROVE  Strs!FlattenSeq(v) = Seg!Fold(v, 1, Len(v) + 1)
  <1> DEFINE F == CHOOSE f : f = [i \in 1 .. Len(v) |-> IF i = 1 THEN v[i] ELSE f[i - 1] \o v[i]]
             G == [i \in 1 .. Len(v) |-> Seg!Fold(v, 1, i + 1)]
             D == {d \in Nat : d \in 1 .. Len(v) /\ F[d] # G[d]}
  <1>1. Len(v) \in Nat \ {0}
    BY EmptySeq
  <1>2. Strs!FlattenSeq(v) = IF Len(v) = 0 THEN v ELSE F[Len(v)]
    BY DEF Strs!FlattenSeq
  <1>3. Flattens(v, G)
    BY FoldFlattens
  <1>4. F = [i \in 1 .. Len(v) |-> IF i = 1 THEN v[i] ELSE F[i - 1] \o v[i]]
    BY <1>3 DEF Flattens
  <1>5. G = [i \in 1 .. Len(v) |-> IF i = 1 THEN v[i] ELSE G[i - 1] \o v[i]]
    BY <1>3 DEF Flattens
  <1>6. G[Len(v)] = Seg!Fold(v, 1, Len(v) + 1)
    BY <1>1
  <1> HIDE DEF F, G
  <1>7. ASSUME D # {} PROVE FALSE
    <2>1. PICK d \in D : \A n \in D : d <= n
      <3>1. D \subseteq Nat
        OBVIOUS
      <3> HIDE DEF D
      <3> QED
        BY <1>7, <3>1, LeastNatural
    <2>2. d \in 1 .. Len(v) /\ F[d] # G[d]
      OBVIOUS
    <2>3. F[d] = IF d = 1 THEN v[d] ELSE F[d - 1] \o v[d]
      BY <1>4, <2>2
    <2>4. G[d] = IF d = 1 THEN v[d] ELSE G[d - 1] \o v[d]
      BY <1>5, <2>2
    <2>5. d # 1 /\ F[d - 1] # G[d - 1]
      BY <2>2, <2>3, <2>4
    <2>6. d - 1 \in Nat /\ d - 1 \in 1 .. Len(v) /\ ~(d <= d - 1)
      BY <1>1, <2>2, <2>5
    <2> QED
      BY <2>1, <2>5, <2>6
  <1>8. Len(v) \in Nat /\ Len(v) \in 1 .. Len(v) /\ Len(v) # 0
    BY <1>1
  <1>9. F[Len(v)] = G[Len(v)]
    BY <1>7, <1>8
  <1> QED
    BY <1>2, <1>6, <1>8, <1>9

\* What sdsjoinlen copies of each part.
JoinedParts(q, t) == [i \in DOMAIN q |-> IF i < Len(q) THEN q[i] \o t ELSE q[i]]

LEMMA JoinedIs ==
    ASSUME NEW S, NEW q \in Seq(Seq(S)), q # <<>>, NEW t \in Seq(S)
    PROVE  /\ JoinedParts(q, t) \in Seq(Seq(S)) /\ Len(JoinedParts(q, t)) = Len(q)
           /\ JoinedParts(q, t) # <<>>
           /\ ValuesIn(S, JoinedParts(q, t), 1, Len(q) + 1)
           /\ Strs!Joined(q, t) = Seg!Fold(JoinedParts(q, t), 1, Len(q) + 1)
           /\ Strs!Joined(q, t) \in Seq(S)
  <1>1. Len(q) \in Nat \ {0} /\ DOMAIN q = 1 .. Len(q) /\ \A i \in 1 .. Len(q) : q[i] \in Seq(S)
    BY EmptySeq, LenProperties
  <1> DEFINE v == JoinedParts(q, t)
  <1>2. v \in [1 .. Len(q) -> Seq(S)]
    <2>1. \A i \in 1 .. Len(q) : q[i] \o t \in Seq(S)
      BY <1>1, ConcatProperties
    <2> QED
      BY <1>1, <2>1 DEF JoinedParts
  <1>3. Strs!Joined(q, t) = Strs!FlattenSeq(v)
    BY DEF Strs!Joined, JoinedParts
  <1> HIDE DEF v
  <1>4. v \in Seq(Seq(S)) /\ Len(v) = Len(q)
    BY <1>1, <1>2, SequenceOf
  <1>5. v # <<>>
    BY <1>1, <1>4, EmptySeq
  <1>6. ValuesIn(S, v, 1, Len(q) + 1)
    <2>1. Len(q) + 1 - 1 = Len(q)
      BY <1>1
    <2>2. \A i \in 1 .. Len(q) : v[i] \in Seq(S)
      BY <1>2
    <2> QED
      BY <2>1, <2>2 DEF ValuesIn
  <1>7. Strs!Joined(q, t) = Seg!Fold(v, 1, Len(q) + 1)
    BY <1>3, <1>4, <1>5, FlatIs
  <1>8. Seg!Fold(v, 1, Len(q) + 1) \in Seq(S)
    <2>1. Len(q) + 1 \in Int /\ 1 <= Len(q) + 1
      BY <1>1
    <2> QED
      BY <1>6, <2>1, FoldType
  <1> QED
    BY <1>4, <1>5, <1>6, <1>7, <1>8 DEF v

\* The lengths summed up by the first loop of sdsjoinlen.
TotalFn(q, t, f) ==
    f = [i \in 0 .. Len(q) |->
            IF i = 0 THEN 0
            ELSE f[i - 1] + Len(q[i]) + (IF i < Len(q) THEN Len(t) ELSE 0)]

LEMMA TotalFnIs ==
    ASSUME NEW S, NEW q \in Seq(Seq(S)), q # <<>>, NEW t \in Seq(S)
    PROVE  TotalFn(q, t, [i \in 0 .. Len(q) |-> Len(Seg!Fold(JoinedParts(q, t), 1, i + 1))])
  <1>1. PICK v : v = JoinedParts(q, t)
    OBVIOUS
  <1> DEFINE G == [i \in 0 .. Len(q) |-> Len(Seg!Fold(v, 1, i + 1))]
  <1>2. Len(q) \in Nat /\ DOMAIN q = 1 .. Len(q) /\ \A i \in 1 .. Len(q) : q[i] \in Seq(S)
    BY LenProperties
  <1>3. ValuesIn(S, v, 1, Len(q) + 1)
    BY <1>1, JoinedIs
  <1>4. ASSUME NEW i \in 0 .. Len(q)
        PROVE  G[i] = IF i = 0 THEN 0
                      ELSE G[i - 1] + Len(q[i]) + (IF i < Len(q) THEN Len(t) ELSE 0)
    <2>1. G[i] = Len(Seg!Fold(v, 1, i + 1))
      OBVIOUS
    <2>2. CASE i = 0
      <3>1. Seg!Fold(v, 1, 1) = <<>>
        BY FoldSteps DEF Seg!Identity
      <3>2. Len(<<>>) = 0 /\ i + 1 = 1
        BY <2>2
      <3> HIDE DEF G
      <3> QED
        BY <2>1, <2>2, <3>1, <3>2
    <2>3. CASE i # 0
      <3>1. i \in 1 .. Len(q) /\ i - 1 \in 0 .. Len(q) /\ i - 1 + 1 = i
        BY <1>2, <2>3
      <3>2. G[i - 1] = Len(Seg!Fold(v, 1, i))
        BY <3>1
      <3> HIDE DEF G
      <3>3. PICK a : a = Seg!Fold(v, 1, i)
        OBVIOUS
      <3>4. a \in Seq(S)
        <4>1. i \in Int /\ 1 <= i
          BY <3>1
        <4>2. ValuesIn(S, v, 1, i)
          <5>1. \A k \in 1 .. i - 1 : k \in 1 .. Len(q) + 1 - 1
            BY <1>2, <3>1
          <5> QED
            BY <1>3, <5>1 DEF ValuesIn
        <4> QED
          BY <3>3, <4>1, <4>2, FoldType
      <3>5. Seg!Fold(v, 1, i + 1) = a \o v[i]
        <4>1. i + 1 \in Int /\ 1 < i + 1 /\ 1 <= i + 1 /\ i + 1 - 1 = i
          BY <3>1
        <4>2. Seg!Fold(v, 1, i + 1) = Seg!Merge(Seg!Fold(v, 1, i + 1 - 1), v[i + 1 - 1])
          BY <4>1, FoldSteps
        <4> QED
          BY <3>3, <4>1, <4>2 DEF Seg!Merge
      <3>6. PICK w : w = v[i]
        OBVIOUS
      <3>y. PICK y : y = q[i]
        OBVIOUS
      <3>w. w = IF i < Len(q) THEN y \o t ELSE y
        BY <1>1, <1>2, <3>1, <3>6, <3>y DEF JoinedParts
      <3>z. PICK z \in Nat : z = IF i < Len(q) THEN Len(t) ELSE 0
        BY LenProperties
      <3>7. w \in Seq(S) /\ Len(w) = Len(y) + z
        <4>1. y \in Seq(S)
          BY <1>2, <3>1, <3>y
        <4>2. y \o t \in Seq(S) /\ Len(y \o t) = Len(y) + Len(t) /\ Len(y) \in Nat
          BY <4>1, ConcatProperties, LenProperties
        <4>3. CASE i < Len(q)
          BY <3>w, <3>z, <4>2, <4>3
        <4>4. CASE ~(i < Len(q))
          <5>1. w = y
            BY <3>w, <4>4
          <5>2. Len(y) + z = Len(y)
            BY <3>z, <4>2, <4>4
          <5> QED
            BY <4>1, <5>1, <5>2
        <4> QED
          BY <4>3, <4>4
      <3>8. Len(a \o w) = Len(a) + Len(w)
        BY <3>4, <3>7, ConcatProperties
      <3>9. Len(a) \in Nat /\ Len(y) \in Nat
        BY <1>2, <3>1, <3>4, <3>y, LenProperties
      <3>10. PICK g : g = G[i - 1]
        OBVIOUS
      <3>11. PICK n : n = Len(q[i])
        OBVIOUS
      <3>12. g = Len(a) /\ n = Len(y)
        BY <3>2, <3>3, <3>10, <3>11, <3>y
      <3>13. G[i] = Len(a \o w)
        BY <2>1, <3>5, <3>6
      <3>14. Len(a \o w) = g + n + z
        BY <3>7, <3>8, <3>9, <3>12
      <3>15. G[i] = g + n + z
        BY <3>13, <3>14
      <3> QED
        BY <2>3, <3>10, <3>11, <3>15, <3>z
    <2> QED
      BY <2>2, <2>3
  <1>5. G = [i \in 0 .. Len(q) |->
                IF i = 0 THEN 0
                ELSE G[i - 1] + Len(q[i]) + (IF i < Len(q) THEN Len(t) ELSE 0)]
    BY <1>4
  <1> QED
    BY <1>1, <1>5 DEF TotalFn

\* The length that sdsjoinlen reserves is that of what it writes.
LEMMA TotalIs ==
    ASSUME NEW S, NEW q \in Seq(Seq(S)), q # <<>>, NEW t \in Seq(S)
    PROVE  Strs!TotalLen(q, t) = Len(Strs!Joined(q, t))
  <1> DEFINE F == CHOOSE f : f = [i \in 0 .. Len(q) |->
                     IF i = 0 THEN 0
                     ELSE f[i - 1] + Len(q[i]) + (IF i < Len(q) THEN Len(t) ELSE 0)]
             G == [i \in 0 .. Len(q) |-> Len(Seg!Fold(JoinedParts(q, t), 1, i + 1))]
             D == {d \in Nat : d <= Len(q) /\ F[d] # G[d]}
  <1>1. Len(q) \in Nat /\ Len(q) \in 0 .. Len(q)
    BY LenProperties
  <1>2. Strs!TotalLen(q, t) = F[Len(q)]
    BY DEF Strs!TotalLen
  <1>3. TotalFn(q, t, G)
    BY TotalFnIs
  <1>4. TotalFn(q, t, F)
    BY <1>3 DEF TotalFn
  <1>5. G[Len(q)] = Len(Strs!Joined(q, t))
    <2>1. Strs!Joined(q, t) = Seg!Fold(JoinedParts(q, t), 1, Len(q) + 1)
      BY JoinedIs
    <2> QED
      BY <1>1, <2>1
  <1> HIDE DEF F, G
  <1>6. ASSUME D # {} PROVE FALSE
    <2>1. PICK d \in D : \A n \in D : d <= n
      <3>1. D \subseteq Nat
        OBVIOUS
      <3> HIDE DEF D
      <3> QED
        BY <1>6, <3>1, LeastNatural
    <2>2. d \in 0 .. Len(q) /\ F[d] # G[d]
      BY <1>1
    <2>3. F[d] = IF d = 0 THEN 0
                 ELSE F[d - 1] + Len(q[d]) + (IF d < Len(q) THEN Len(t) ELSE 0)
      BY <1>4, <2>2 DEF TotalFn
    <2>4. G[d] = IF d = 0 THEN 0
                 ELSE G[d - 1] + Len(q[d]) + (IF d < Len(q) THEN Len(t) ELSE 0)
      BY <1>3, <2>2 DEF TotalFn
    <2>5. d # 0 /\ F[d - 1] # G[d - 1]
      BY <2>2, <2>3, <2>4
    <2>6. PICK e : e = d - 1
      OBVIOUS
    <2>7. e \in Nat /\ e <= Len(q) /\ ~(d <= e) /\ F[e] # G[e]
      BY <1>1, <2>2, <2>5, <2>6
    <2>8. e \in D
      BY <2>7
    <2> QED
      BY <2>1, <2>7, <2>8
  <1>7. Len(q) \notin D
    BY <1>6
  <1>8. F[Len(q)] = G[Len(q)]
    <2>1. Len(q) \in Nat /\ Len(q) <= Len(q)
      BY <1>1
    <2> QED
      BY <1>7, <2>1
  <1> QED
    BY <1>2, <1>5, <1>8

\* One part alone is what is written; one before others is written, then t.
LEMMA JoinedOne ==
    ASSUME NEW S, NEW y \in Seq(S), NEW t \in Seq(S)
    PROVE  Strs!Joined(<<y>>, t) = y
  <1>1. PICK z : z = <<y>>
    OBVIOUS
  <1>2. z \in Seq(Seq(S)) /\ Len(z) = 1 /\ z # <<>> /\ z[1] = y /\ DOMAIN z = {1}
    BY <1>1
  <1>3. PICK v : v = JoinedParts(z, t)
    OBVIOUS
  <1>4. Strs!Joined(z, t) = Seg!Fold(v, 1, 2)
    <2>1. Strs!Joined(z, t) = Seg!Fold(v, 1, Len(z) + 1)
      BY <1>2, <1>3, JoinedIs
    <2> QED
      BY <1>2, <2>1
  <1>5. v[1] = y
    BY <1>2, <1>3 DEF JoinedParts
  <1>6. /\ Seg!Fold(v, 1, 2) = Seg!Merge(Seg!Fold(v, 1, 2 - 1), v[2 - 1])
        /\ Seg!Fold(v, 1, 1) = Seg!Identity
    BY FoldSteps
  <1>7. Seg!Fold(v, 1, 2) = Seg!Merge(Seg!Identity, y)
    BY <1>5, <1>6
  <1>8. Seg!Merge(Seg!Identity, y) = y
    BY MergeLaws
  <1> QED
    BY <1>1, <1>4, <1>7, <1>8

JoinsMore(y, q, t) == Strs!Joined(<<y>> \o q, t) = y \o t \o Strs!Joined(q, t)

LEMMA JoinedMore ==
    ASSUME NEW S, NEW y \in Seq(S), NEW q \in Seq(Seq(S)), q # <<>>, NEW t \in Seq(S)
    PROVE  JoinsMore(y, q, t)
  <1>1. PICK z : z = <<y>> \o q
    OBVIOUS
  <1>2. Len(q) \in Nat \ {0} /\ DOMAIN q = 1 .. Len(q) /\ \A i \in 1 .. Len(q) : q[i] \in Seq(S)
    BY EmptySeq, LenProperties
  <1>3. /\ z \in Seq(Seq(S)) /\ Len(z) = Len(q) + 1
        /\ \A i \in 1 .. Len(q) + 1 : z[i] = IF i <= 1 THEN <<y>>[i] ELSE q[i - 1]
    <2>1. <<y>> \in Seq(Seq(S)) /\ Len(<<y>>) = 1
      OBVIOUS
    <2>2. /\ <<y>> \o q \in Seq(Seq(S)) /\ Len(<<y>> \o q) = 1 + Len(q)
          /\ \A i \in 1 .. 1 + Len(q) :
                (<<y>> \o q)[i] = IF i <= 1 THEN <<y>>[i] ELSE q[i - 1]
      BY <2>1, ConcatProperties
    <2> QED
      BY <1>1, <1>2, <2>2
  <1>4. z[1] = y /\ DOMAIN z = 1 .. Len(q) + 1 /\ \A i \in 1 .. Len(q) : z[i + 1] = q[i]
    <2>1. DOMAIN z = 1 .. Len(z)
      BY <1>3, LenProperties
    <2>2. 1 \in 1 .. Len(q) + 1 /\ <<y>>[1] = y
      BY <1>2
    <2>3. \A i \in 1 .. Len(q) : i + 1 \in 1 .. Len(q) + 1 /\ ~(i + 1 <= 1) /\ i + 1 - 1 = i
      BY <1>2
    <2> QED
      BY <1>3, <2>1, <2>2, <2>3
  <1>5. z # <<>>
    BY <1>2, <1>3, EmptySeq
  <1>6. PICK u : u = JoinedParts(z, t)
    OBVIOUS
  <1>7. PICK v : v = JoinedParts(q, t)
    OBVIOUS
  <1>8. u[1] = y \o t
    <2>1. 1 \in DOMAIN z /\ 1 < Len(z)
      BY <1>2, <1>3, <1>4
    <2> QED
      BY <1>4, <1>6, <2>1 DEF JoinedParts
  <1>9. SameValues(u, 2, Len(q) + 2, v, 1, Len(q) + 1)
    <2>1. ASSUME NEW i \in 0 .. Len(q) + 2 - 2 - 1
          PROVE  u[2 + i] = v[1 + i]
      <3>1. /\ 2 + i \in DOMAIN z /\ 1 + i \in DOMAIN q /\ 1 + i \in 1 .. Len(q)
            /\ 1 + i + 1 = 2 + i /\ (2 + i < Len(z) <=> 1 + i < Len(q))
        BY <1>2, <1>3, <1>4
      <3>2. z[2 + i] = q[1 + i]
        BY <1>4, <3>1
      <3>3. u[2 + i] = IF 2 + i < Len(z) THEN z[2 + i] \o t ELSE z[2 + i]
        BY <1>6, <3>1 DEF JoinedParts
      <3>4. v[1 + i] = IF 1 + i < Len(q) THEN q[1 + i] \o t ELSE q[1 + i]
        BY <1>7, <3>1 DEF JoinedParts
      <3> QED
        BY <3>1, <3>2, <3>3, <3>4
    <2>2. Len(q) + 1 - 1 = Len(q) + 2 - 2
      BY <1>2
    <2> QED
      BY <2>1, <2>2 DEF SameValues
  <1>10. Strs!Joined(z, t) = Seg!Fold(u, 1, Len(q) + 2) /\ ValuesIn(S, u, 1, Len(q) + 2)
    <2>1. Strs!Joined(z, t) = Seg!Fold(u, 1, Len(z) + 1) /\ ValuesIn(S, u, 1, Len(z) + 1)
      BY <1>3, <1>5, <1>6, JoinedIs
    <2>2. Len(z) + 1 = Len(q) + 2
      BY <1>2, <1>3
    <2> QED
      BY <2>1, <2>2
  <1>11. Strs!Joined(q, t) = Seg!Fold(v, 1, Len(q) + 1)
    BY <1>7, JoinedIs
  <1>12. Seg!Fold(u, 1, Len(q) + 2) = Seg!Merge(u[1], Seg!Fold(u, 2, Len(q) + 2))
    <2>1. Len(q) + 2 \in Int /\ 1 < Len(q) + 2 /\ 1 + 1 = 2
      BY <1>2
    <2>2. Seg!Fold(u, 1, Len(q) + 2) = Seg!Merge(u[1], Seg!Fold(u, 1 + 1, Len(q) + 2))
      BY <1>10, <2>1, FoldHead
    <2> QED
      BY <2>1, <2>2
  <1>13. Seg!Fold(u, 2, Len(q) + 2) = Seg!Fold(v, 1, Len(q) + 1)
    <2>1. Len(q) + 2 \in Int /\ Len(q) + 1 \in Int /\ 2 <= Len(q) + 2
      BY <1>2
    <2> QED
      BY <1>9, <2>1, FoldSame
  <1> QED
    BY <1>1, <1>8, <1>10, <1>11, <1>12, <1>13 DEF Seg!Merge, JoinsMore

-----------------------------------------------------------------------------
(* The strings of sds.c: replacing, splitting and joining agree *)

\* The length sdsreplacelen computes before it writes.
LEMMA ReplacedLen ==
    ASSUME NEW S, NEW x \in Seq(S), NEW t \in Seq(S), t # <<>>, NEW with \in Seq(S),
           NEW c, CountFn(x, t, c), NEW r, ReplacedFn(x, t, with, r)
    PROVE  Len(r[1]) = Len(x) + (Len(with) - Len(t)) * c[1]
  <1>1. Len(x) \in Nat /\ Len(t) \in Nat /\ Len(with) \in Nat /\ Len(x) + 1 \in Nat
    BY LenProperties
  <1>2. /\ \A i \in 1 .. Len(x) + 1 : c[i] \in Nat
        /\ \A i \in 1 .. Len(x) + 1 : r[i] \in Seq(S)
    BY WalkTypes
  <1> DEFINE M == Len(x) + 1
             d == Len(with) - Len(t)
             P == {i \in 1 .. M : Len(r[i]) = Len(x) - i + 1 + d * c[i]}
  <1>3. ASSUME NEW i \in 1 .. M, \A k \in i + 1 .. M : k \in P
        PROVE  i \in P
    <2>1. PICK m : NextAt(x, t, i, m)
      BY DEF NextAt
    <2>2. (m = 0 \/ m \in i .. Len(x)) /\ (m # 0 => m + Len(t) \in i + 1 .. M)
      <3>1. NextPlace(x, t, i, m)
        BY <2>1, NextIs
      <3> QED
        BY <3>1 DEF NextPlace
    <2>3. c[i] = IF m = 0 THEN 0 ELSE 1 + c[m + Len(t)]
      BY <2>1, CountStep
    <2>4. r[i] = IF m = 0 THEN SubSeq(x, i, Len(x))
                 ELSE SubSeq(x, i, m - 1) \o with \o r[m + Len(t)]
      BY <2>1, ReplacedStep
    <2>5. CASE m = 0
      <3>1. Len(x) \in i - 1 .. Len(x)
        BY <1>1
      <3>2. Len(SubSeq(x, i, Len(x))) = Len(x) - i + 1
        BY <3>1, PartIs
      <3>3. d * 0 = 0
        BY <1>1
      <3> QED
        BY <1>1, <2>3, <2>4, <2>5, <3>2, <3>3
    <2>6. CASE m # 0
      <3>1. PICK n : n = m + Len(t)
        OBVIOUS
      <3>2. n \in i + 1 .. M /\ n \in 1 .. M /\ m - 1 \in i - 1 .. Len(x)
        BY <1>1, <2>2, <2>6, <3>1
      <3>3. SubSeq(x, i, m - 1) \in Seq(S) /\ Len(SubSeq(x, i, m - 1)) = m - 1 - i + 1
        BY <3>2, PartIs
      <3>4. r[n] \in Seq(S) /\ c[n] \in Nat
        BY <1>2, <3>2
      <3>5. Len(r[n]) = Len(x) - n + 1 + d * c[n]
        BY <1>3, <3>2
      <3>6. /\ SubSeq(x, i, m - 1) \o with \in Seq(S)
            /\ Len(SubSeq(x, i, m - 1) \o with) = m - 1 - i + 1 + Len(with)
        BY <3>3, ConcatProperties
      <3>7. Len(SubSeq(x, i, m - 1) \o with \o r[n]) = m - 1 - i + 1 + Len(with) + Len(r[n])
        BY <3>4, <3>6, ConcatProperties
      <3>8. d * (1 + c[n]) = d + d * c[n] /\ d * c[n] \in Int
        BY <1>1, <3>4
      <3>9. PICK e : e = d * c[n]
        OBVIOUS
      <3>10. Len(r[i]) = m - 1 - i + 1 + Len(with) + (Len(x) - n + 1 + e)
        BY <2>4, <2>6, <3>1, <3>5, <3>7, <3>9
      <3>11. d * c[i] = d + e
        <4>1. c[i] = 1 + c[n]
          BY <2>3, <2>6, <3>1
        <4> HIDE DEF d
        <4> QED
          BY <3>8, <3>9, <4>1
      <3>12. m - 1 - i + 1 + Len(with) + (Len(x) - n + 1 + e) = Len(x) - i + 1 + (d + e)
        <4>1. e \in Int /\ d \in Int
          BY <1>1, <3>8, <3>9
        <4>2. m \in Int /\ i \in Int /\ n = m + Len(t) /\ d = Len(with) - Len(t)
          BY <2>2, <2>6, <3>1
        <4> HIDE DEF d
        <4> QED
          BY ONLY <1>1, <4>1, <4>2
      <3> QED
        BY <3>10, <3>11, <3>12
    <2> QED
      BY <2>5, <2>6
  <1>4. 1 \in P
    <2>1. \A i \in 1 .. M : i \in P
      <3> HIDE DEF P, M
      <3>1. M \in Nat
        BY <1>1 DEF M
      <3> QED
        BY <1>3, <3>1, WalkDown
    <2>2. 1 \in 1 .. M
      BY <1>1
    <2> QED
      BY <2>1, <2>2
  <1>5. Len(x) - 1 + 1 = Len(x)
    BY <1>1
  <1> QED
    BY <1>4, <1>5

\* The parts that sdssplitlen counts before it makes them.
LEMMA PiecesCounted ==
    ASSUME NEW S, NEW x \in Seq(S), NEW t \in Seq(S), t # <<>>, NEW p, PiecesFn(x, t, p)
    PROVE  Len(p[1]) = 1 + Strs!Count(x, t)
  <1>1. PICK c : CountFn(x, t, c) /\ Strs!Count(x, t) = c[1]
    BY CountFnIs
  <1>2. Len(x) \in Nat /\ Len(x) + 1 \in Nat /\ 1 \in 1 .. Len(x) + 1
    BY LenProperties
  <1>3. /\ \A i \in 1 .. Len(x) + 1 : c[i] \in Nat
        /\ \A i \in 1 .. Len(x) + 1 : p[i] \in Seq(Seq(S))
    BY <1>1, WalkTypes
  <1> DEFINE M == Len(x) + 1
             P == {i \in 1 .. M : Len(p[i]) = 1 + c[i]}
  <1>4. ASSUME NEW i \in 1 .. M, \A k \in i + 1 .. M : k \in P
        PROVE  i \in P
    <2>1. PICK m : NextAt(x, t, i, m)
      BY DEF NextAt
    <2>2. (m = 0 \/ m \in i .. Len(x)) /\ (m # 0 => m + Len(t) \in i + 1 .. M)
      <3>1. NextPlace(x, t, i, m)
        BY <2>1, NextIs
      <3> QED
        BY <3>1 DEF NextPlace
    <2>3. c[i] = IF m = 0 THEN 0 ELSE 1 + c[m + Len(t)]
      BY <1>1, <2>1, CountStep
    <2>4. p[i] = IF m = 0 THEN <<SubSeq(x, i, Len(x))>>
                 ELSE <<SubSeq(x, i, m - 1)>> \o p[m + Len(t)]
      <3>1. PieceAt(x, t, p, i, m)
        BY <2>1, PiecesStep
      <3> QED
        BY <3>1 DEF PieceAt
    <2>5. CASE m = 0
      <3>1. PICK y : y = SubSeq(x, i, Len(x))
        OBVIOUS
      <3>2. PICK q : q = <<y>>
        OBVIOUS
      <3>3. Len(q) = 1
        BY <3>2
      <3>4. p[i] = q /\ c[i] = 0
        BY <2>3, <2>4, <2>5, <3>1, <3>2
      <3>5. Len(p[i]) = 1 + c[i]
        <4>1. Len(p[i]) = 1
          BY <3>3, <3>4
        <4> HIDE DEF P, M
        <4> QED
          BY <3>4, <4>1
      <3> QED
        BY <3>5
    <2>6. CASE m # 0
      <3>1. PICK n : n = m + Len(t)
        OBVIOUS
      <3>2. n \in i + 1 .. M /\ n \in 1 .. M /\ m \in i .. Len(x) + 1
        BY <1>2, <2>2, <2>6, <3>1
      <3>3. PICK y : y = SubSeq(x, i, m - 1)
        OBVIOUS
      <3>4. y \in Seq(S)
        BY <3>2, <3>3, BeforeNext
      <3>5. <<y>> \in Seq(Seq(S)) /\ Len(<<y>>) = 1
        BY <3>4
      <3>6. p[n] \in Seq(Seq(S)) /\ Len(p[n]) = 1 + c[n] /\ c[n] \in Nat
        BY <1>3, <1>4, <3>2
      <3>7. Len(<<y>> \o p[n]) = 1 + Len(p[n])
        BY <3>5, <3>6, ConcatProperties
      <3>8. p[i] = <<y>> \o p[n] /\ c[i] = 1 + c[n]
        BY <2>3, <2>4, <2>6, <3>1, <3>3
      <3> QED
        BY <3>6, <3>7, <3>8
    <2> QED
      BY <2>5, <2>6
  <1>5. \A i \in 1 .. M : i \in P
    <2> HIDE DEF P, M
    <2>1. M \in Nat
      BY <1>2 DEF M
    <2> QED
      BY <1>4, <2>1, WalkDown
  <1>6. 1 \in P
    BY <1>2, <1>5
  <1> QED
    BY <1>1, <1>6

LEMMA NoneReplaced ==
    ASSUME NEW S, NEW x \in Seq(S), NEW t \in Seq(S), t # <<>>, NEW with \in Seq(S),
           NEW c, CountFn(x, t, c), NEW r, ReplacedFn(x, t, with, r), c[1] = 0
    PROVE  r[1] = x
  <1>1. Len(x) \in Nat /\ 1 \in 1 .. Len(x) + 1
    BY LenProperties
  <1>2. \A i \in 1 .. Len(x) + 1 : c[i] \in Nat
    BY WalkTypes
  <1>3. PICK m : NextAt(x, t, 1, m)
    BY DEF NextAt
  <1>4. c[1] = IF m = 0 THEN 0 ELSE 1 + c[m + Len(t)]
    BY <1>1, <1>3, CountStep
  <1>5. m = 0
    <2>1. ASSUME m # 0 PROVE FALSE
      <3>1. m + Len(t) \in 1 + 1 .. Len(x) + 1
        BY <1>1, <1>3, <2>1, NextIs DEF NextPlace
      <3>2. m + Len(t) \in 1 .. Len(x) + 1
        BY <1>1, <3>1
      <3>3. c[m + Len(t)] \in Nat
        BY <1>2, <3>2
      <3> QED
        BY <1>4, <2>1, <3>3
    <2> QED
      BY <2>1
  <1>6. r[1] = SubSeq(x, 1, Len(x))
    <2>1. r[1] = IF m = 0 THEN SubSeq(x, 1, Len(x))
                 ELSE SubSeq(x, 1, m - 1) \o with \o r[m + Len(t)]
      BY <1>1, <1>3, ReplacedStep
    <2> QED
      BY <1>5, <2>1
  <1> QED
    BY <1>6, SubSeqFull

\* Joining the parts by another string is replacing the separator by it.
LEMMA PiecesJoined ==
    ASSUME NEW S, NEW x \in Seq(S), NEW t \in Seq(S), t # <<>>, NEW with \in Seq(S),
           NEW p, PiecesFn(x, t, p), NEW r, ReplacedFn(x, t, with, r)
    PROVE  Strs!Joined(p[1], with) = r[1]
  <1>1. Len(x) \in Nat /\ Len(x) + 1 \in Nat /\ 1 \in 1 .. Len(x) + 1
    BY LenProperties
  <1>2. /\ \A i \in 1 .. Len(x) + 1 : p[i] \in Seq(Seq(S)) /\ p[i] # <<>>
        /\ \A i \in 1 .. Len(x) + 1 : r[i] \in Seq(S)
    BY WalkTypes
  <1> DEFINE M == Len(x) + 1
             P == {i \in 1 .. M : Strs!Joined(p[i], with) = r[i]}
  <1>3. ASSUME NEW i \in 1 .. M, \A k \in i + 1 .. M : k \in P
        PROVE  i \in P
    <2>1. PICK m : NextAt(x, t, i, m)
      BY DEF NextAt
    <2>2. (m = 0 \/ m \in i .. Len(x)) /\ (m # 0 => m + Len(t) \in i + 1 .. M)
      <3>1. NextPlace(x, t, i, m)
        BY <2>1, NextIs
      <3> QED
        BY <3>1 DEF NextPlace
    <2>3. p[i] = IF m = 0 THEN <<SubSeq(x, i, Len(x))>>
                 ELSE <<SubSeq(x, i, m - 1)>> \o p[m + Len(t)]
      <3>1. PieceAt(x, t, p, i, m)
        BY <2>1, PiecesStep
      <3> QED
        BY <3>1 DEF PieceAt
    <2>4. r[i] = IF m = 0 THEN SubSeq(x, i, Len(x))
                 ELSE SubSeq(x, i, m - 1) \o with \o r[m + Len(t)]
      BY <2>1, ReplacedStep
    <2>5. CASE m = 0
      <3>1. SubSeq(x, i, Len(x)) \in Seq(S)
        BY RestType
      <3>2. Strs!Joined(<<SubSeq(x, i, Len(x))>>, with) = SubSeq(x, i, Len(x))
        BY <3>1, JoinedOne
      <3> QED
        BY <2>3, <2>4, <2>5, <3>2
    <2>6. CASE m # 0
      <3>1. PICK n : n = m + Len(t)
        OBVIOUS
      <3>2. n \in i + 1 .. M /\ n \in 1 .. M /\ m \in i .. Len(x) + 1
        BY <1>1, <2>2, <2>6, <3>1
      <3>3. PICK y : y = SubSeq(x, i, m - 1)
        OBVIOUS
      <3>4. y \in Seq(S)
        BY <3>2, <3>3, BeforeNext
      <3>5. PICK q : q = p[n]
        OBVIOUS
      <3>6. q \in Seq(Seq(S)) /\ q # <<>>
        BY <1>2, <3>2, <3>5
      <3>7. Strs!Joined(q, with) = r[n]
        BY <1>3, <3>2, <3>5
      <3>8. Strs!Joined(<<y>> \o q, with) = y \o with \o Strs!Joined(q, with)
        <4>1. JoinsMore(y, q, with)
          BY <3>4, <3>6, JoinedMore
        <4> QED
          BY <4>1 DEF JoinsMore
      <3>9. p[i] = <<y>> \o q /\ r[i] = y \o with \o r[n]
        BY <2>3, <2>4, <2>6, <3>1, <3>3, <3>5
      <3> QED
        BY <3>7, <3>8, <3>9
    <2> QED
      BY <2>5, <2>6
  <1>4. \A i \in 1 .. M : i \in P
    <2> HIDE DEF P, M
    <2>1. M \in Nat
      BY <1>1 DEF M
    <2> QED
      BY <1>3, <2>1, WalkDown
  <1> QED
    BY <1>1, <1>4

\* Replacing a string by itself leaves everything as it was.
LEMMA OwnReplaced ==
    ASSUME NEW S, NEW x \in Seq(S), NEW t \in Seq(S), t # <<>>
    PROVE  ReplacedFn(x, t, t, [i \in 1 .. Len(x) + 1 |-> SubSeq(x, i, Len(x))])
  <1> DEFINE r == [i \in 1 .. Len(x) + 1 |-> SubSeq(x, i, Len(x))]
  <1>1. Len(x) \in Nat /\ Len(t) \in Nat
    BY LenProperties
  <1>2. ASSUME NEW i \in 1 .. Len(x) + 1
        PROVE  SubSeq(x, i, Len(x))
                  = IF Strs!Find(x, t, i) = 0 THEN SubSeq(x, i, Len(x))
                    ELSE SubSeq(x, i, Strs!Find(x, t, i) - 1) \o t
                            \o r[Strs!Find(x, t, i) + Len(t)]
    <2>1. PICK m : m = Strs!Find(x, t, i)
      OBVIOUS
    <2>2. FirstPlace(x, t, i, m)
      BY <2>1, FirstIs
    <2>3. ASSUME m # 0
          PROVE  SubSeq(x, i, Len(x)) = SubSeq(x, i, m - 1) \o t \o r[m + Len(t)]
      <3>1. /\ m \in i .. Len(x) /\ m + Len(t) \in i + 1 .. Len(x) + 1
            /\ SubSeq(x, m, m + Len(t) - 1) = t
        BY <2>2, <2>3 DEF FirstPlace
      <3>2. PICK j : j = m - 1
        OBVIOUS
      <3>3. PICK k : k = m + Len(t) - 1
        OBVIOUS
      <3>4. /\ j \in i - 1 .. Len(x) /\ j + 1 = m /\ k \in i - 1 .. Len(x) /\ k \in j .. Len(x)
            /\ k + 1 = m + Len(t) /\ Len(x) \in k .. Len(x)
        BY <1>1, <3>1, <3>2, <3>3
      <3>5. SubSeq(x, i, j) \o SubSeq(x, j + 1, k) = SubSeq(x, i, k)
        BY <3>4, ConcatAdjacentSubSeq
      <3>6. SubSeq(x, i, k) \o SubSeq(x, k + 1, Len(x)) = SubSeq(x, i, Len(x))
        BY <3>4, ConcatAdjacentSubSeq
      <3>7. r[m + Len(t)] = SubSeq(x, k + 1, Len(x))
        <4>1. k + 1 \in 1 .. Len(x) + 1
          BY <1>1, <3>1, <3>4
        <4> QED
          BY <3>4, <4>1
      <3>8. SubSeq(x, j + 1, k) = t /\ SubSeq(x, i, m - 1) = SubSeq(x, i, j)
        BY <3>1, <3>2, <3>3, <3>4
      <3> HIDE DEF r
      <3> QED
        BY <3>5, <3>6, <3>7, <3>8
    <2> HIDE DEF r
    <2> QED
      BY <2>1, <2>3
  <1>3. r = [i \in 1 .. Len(x) + 1 |->
                IF Strs!Find(x, t, i) = 0 THEN SubSeq(x, i, Len(x))
                ELSE SubSeq(x, i, Strs!Find(x, t, i) - 1) \o t
                        \o r[Strs!Find(x, t, i) + Len(t)]]
    BY <1>2
  <1> QED
    BY <1>3 DEF ReplacedFn

\* Joining the parts by their separator gives the string back.
LEMMA PiecesGiveBack ==
    ASSUME NEW S, NEW x \in Seq(S), NEW t \in Seq(S), t # <<>>, NEW p, PiecesFn(x, t, p)
    PROVE  Strs!Joined(p[1], t) = x
  <1>1. PICK r : r = [i \in 1 .. Len(x) + 1 |-> SubSeq(x, i, Len(x))]
    OBVIOUS
  <1>2. ReplacedFn(x, t, t, r)
    BY <1>1, OwnReplaced
  <1>3. Strs!Joined(p[1], t) = r[1]
    BY <1>2, PiecesJoined
  <1>4. Len(x) \in Nat
    BY LenProperties
  <1>5. r[1] = SubSeq(x, 1, Len(x))
    BY <1>1, <1>4
  <1> QED
    BY <1>3, <1>5, SubSeqFull

\* No part holds the separator.
LEMMA PartFree ==
    ASSUME NEW S, NEW x \in Seq(S), NEW t \in Seq(S), t # <<>>,
           NEW i \in 1 .. Len(x) + 1, NEW j \in i - 1 .. Len(x),
           \A k \in i .. j - Len(t) + 1 : SubSeq(x, k, k + Len(t) - 1) # t
    PROVE  Strs!Find(SubSeq(x, i, j), t, 1) = 0
  <1>1. Len(x) \in Nat /\ Len(t) \in Nat \ {0}
    BY LenProperties, EmptySeq
  <1>2. PICK y : y = SubSeq(x, i, j)
    OBVIOUS
  <1>3. y \in Seq(S) /\ Len(y) = j - i + 1
    BY <1>2, PartIs
  <1>4. 1 \in 1 .. Len(y) + 1
    BY <1>1, <1>3
  <1>5. PICK m : m = Strs!Find(y, t, 1)
    OBVIOUS
  <1>6. FirstPlace(y, t, 1, m)
    BY <1>3, <1>4, <1>5, FirstIs
  <1>7. ASSUME m # 0 PROVE FALSE
    <2>1. m \in 1 .. Len(y) - Len(t) + 1 /\ SubSeq(y, m, m + Len(t) - 1) = t
      BY <1>6, <1>7 DEF FirstPlace
    <2>2. PICK n : n = m + Len(t) - 1
      OBVIOUS
    <2>3. /\ i \in 1 .. Len(x) /\ j \in 1 .. Len(x)
          /\ m \in 1 .. j - i + 1 /\ n \in 1 .. j - i + 1
      BY <1>1, <1>3, <2>1, <2>2
    <2>4. SubSeq(SubSeq(x, i, j), m, n) = SubSeq(x, i + m - 1, i + n - 1)
      BY <2>3, SubSeqOfSubSeq
    <2>5. i + m - 1 \in i .. j - Len(t) + 1 /\ i + n - 1 = i + m - 1 + Len(t) - 1
      BY <1>1, <1>3, <2>1, <2>2
    <2>6. SubSeq(x, i + m - 1, i + n - 1) = t
      BY <1>2, <2>1, <2>2, <2>4
    <2> QED
      BY <2>5, <2>6
  <1> QED
    BY <1>2, <1>5, <1>7

LEMMA PiecesFree ==
    ASSUME NEW S, NEW x \in Seq(S), NEW t \in Seq(S), t # <<>>, NEW p, PiecesFn(x, t, p)
    PROVE  \A n \in 1 .. Len(p[1]) : Strs!Find(p[1][n], t, 1) = 0
  <1>1. Len(x) \in Nat /\ Len(x) + 1 \in Nat /\ 1 \in 1 .. Len(x) + 1 /\ Len(t) \in Nat \ {0}
    BY LenProperties, EmptySeq
  <1>2. \A i \in 1 .. Len(x) + 1 : p[i] \in Seq(Seq(S)) /\ p[i] # <<>>
    BY WalkTypes
  <1> DEFINE M == Len(x) + 1
             P == {i \in 1 .. M : \A n \in 1 .. Len(p[i]) : Strs!Find(p[i][n], t, 1) = 0}
  <1>3. ASSUME NEW i \in 1 .. M, \A k \in i + 1 .. M : k \in P
        PROVE  i \in P
    <2>1. PICK m : NextAt(x, t, i, m)
      BY DEF NextAt
    <2>2. FirstPlace(x, t, i, m)
      BY <2>1, FirstIs DEF NextAt
    <2>3. p[i] = IF m = 0 THEN <<SubSeq(x, i, Len(x))>>
                 ELSE <<SubSeq(x, i, m - 1)>> \o p[m + Len(t)]
      <3>1. PieceAt(x, t, p, i, m)
        BY <2>1, PiecesStep
      <3> QED
        BY <3>1 DEF PieceAt
    <2>5. CASE m = 0
      <3>1. PICK y : y = SubSeq(x, i, Len(x))
        OBVIOUS
      <3>2. Len(x) \in i - 1 .. Len(x)
        BY <1>1
      <3>3. \A k \in i .. Len(x) - Len(t) + 1 : SubSeq(x, k, k + Len(t) - 1) # t
        BY <1>1, <2>2, <2>5 DEF FirstPlace
      <3>4. Strs!Find(y, t, 1) = 0
        BY <3>1, <3>2, <3>3, PartFree
      <3>5. p[i] = <<y>>
        BY <2>3, <2>5, <3>1
      <3>6. Len(p[i]) = 1 /\ p[i][1] = y
        BY <3>5
      <3> QED
        BY <3>4, <3>6
    <2>6. CASE m # 0
      <3>1. PICK n : n = m + Len(t)
        OBVIOUS
      <3>2. m \in i .. Len(x) /\ n \in i + 1 .. M
            /\ \A k \in i .. m - 1 : SubSeq(x, k, k + Len(t) - 1) # t
        BY <2>2, <2>6, <3>1 DEF FirstPlace
      <3>3. n \in 1 .. M /\ m - 1 \in i - 1 .. Len(x)
            /\ \A k \in i .. m - 1 - Len(t) + 1 : k \in i .. m - 1
        BY <1>1, <3>2
      <3>4. PICK y : y = SubSeq(x, i, m - 1)
        OBVIOUS
      <3>5. Strs!Find(y, t, 1) = 0 /\ y \in Seq(S)
        <4>1. \A k \in i .. m - 1 - Len(t) + 1 : SubSeq(x, k, k + Len(t) - 1) # t
          BY <3>2, <3>3
        <4>2. Strs!Find(y, t, 1) = 0
          BY <3>3, <3>4, <4>1, PartFree
        <4>3. y \in Seq(S)
          BY <3>3, <3>4, PartIs
        <4> QED
          BY <4>2, <4>3
      <3>6. p[n] \in Seq(Seq(S)) /\ \A k \in 1 .. Len(p[n]) : Strs!Find(p[n][k], t, 1) = 0
        BY <1>2, <1>3, <3>2, <3>3
      <3>7. <<y>> \in Seq(Seq(S)) /\ Len(<<y>>) = 1 /\ <<y>>[1] = y
        BY <3>5
      <3>8. p[i] = <<y>> \o p[n]
        BY <2>3, <2>6, <3>1, <3>4
      <3>9. /\ Len(p[i]) = 1 + Len(p[n])
            /\ \A k \in 1 .. 1 + Len(p[n]) : p[i][k] = IF k <= 1 THEN <<y>>[k] ELSE p[n][k - 1]
        BY <3>6, <3>7, <3>8, ConcatProperties
      <3>10. Len(p[n]) \in Nat
        BY <3>6, LenProperties
      <3>11. ASSUME NEW k \in 1 .. Len(p[i])
             PROVE  Strs!Find(p[i][k], t, 1) = 0
        <4>1. CASE k <= 1
          <5>1. k = 1 /\ p[i][k] = y
            BY <3>7, <3>9, <3>10, <4>1
          <5> QED
            BY <3>5, <5>1
        <4>2. CASE ~(k <= 1)
          <5>1. k - 1 \in 1 .. Len(p[n]) /\ p[i][k] = p[n][k - 1]
            BY <3>9, <3>10, <4>2
          <5> QED
            BY <3>6, <5>1
        <4> QED
          BY <4>1, <4>2
      <3> QED
        BY <3>11
    <2> QED
      BY <2>5, <2>6
  <1>4. \A i \in 1 .. M : i \in P
    <2> HIDE DEF P, M
    <2>1. M \in Nat
      BY <1>1 DEF M
    <2> QED
      BY <1>3, <2>1, WalkDown
  <1> QED
    BY <1>1, <1>4

-----------------------------------------------------------------------------
(* The strings of sds.c: blocks *)

\* The bytes of all strings, those never written included, and all blocks.
StrLetters == {NUL} \cup UNION {{t[i] : i \in DOMAIN t} : t \in Texts}
StrCells == StrLetters \cup {None}
StrBlocks == [len : Nat, alloc : Nat, buf : UNION {[0 .. n -> StrCells] : n \in Nat}]

\* What the theorem about strings assumes, as TLC cannot: NULL is no address.
NullIsNoBlock == None \notin StrBlocks

IsBlock(b) == b \in StrBlocks /\ b.buf \in [0 .. b.alloc -> StrCells]

Record(b, n, a, f) == b = [len |-> n, alloc |-> a, buf |-> f] /\ f \in [0 .. a -> StrCells]
Rewritten(e, b, n, f) == e = [b EXCEPT !.buf = f, !.len = n] /\ f \in [0 .. b.alloc -> StrCells]

LEMMA BlockIs ==
    ASSUME NEW n \in Nat, NEW a \in Nat, NEW f, NEW b, Record(b, n, a, f)
    PROVE  IsBlock(b) /\ b.len = n /\ b.alloc = a /\ b.buf = f
  <1>1. f \in UNION {[0 .. m -> StrCells] : m \in Nat}
    BY DEF Record
  <1>2. b \in StrBlocks
    BY <1>1 DEF StrBlocks, Record
  <1>3. b.len = n /\ b.alloc = a /\ b.buf = f
    BY DEF Record
  <1> QED
    BY <1>2, <1>3 DEF IsBlock, Record

LEMMA BlockWith ==
    ASSUME NEW b, IsBlock(b), NEW n \in Nat, NEW f, NEW e, Rewritten(e, b, n, f)
    PROVE  IsBlock(e) /\ e.len = n /\ e.alloc = b.alloc /\ e.buf = f
  <1>1. b \in StrBlocks
    BY DEF IsBlock
  <1>2. Record(e, n, b.alloc, f) /\ b.alloc \in Nat
    BY <1>1 DEF StrBlocks, Record, Rewritten
  <1> QED
    BY <1>2, BlockIs

LEMMA BytesAre ==
    ASSUME NEW b, IsBlock(b), NEW u \in Seq(StrLetters)
    PROVE  Strs!Holds(b, u) <=>
              /\ b.len = Len(u) /\ b.len <= b.alloc /\ b.buf[b.len] = NUL
              /\ \A i \in 1 .. Len(u) : b.buf[i - 1] = u[i]
  <1>1. b.buf \in [0 .. b.alloc -> StrCells] /\ DOMAIN b.buf = 0 .. b.alloc
    BY DEF IsBlock
  <1>2. Len(u) \in Nat /\ u \in [1 .. Len(u) -> StrLetters] /\ DOMAIN u = 1 .. Len(u)
    BY LenProperties
  <1>3. ASSUME b.len = Len(u)
        PROVE  Strs!Bytes(b) = u <=> \A i \in 1 .. Len(u) : b.buf[i - 1] = u[i]
    <2>1. PICK g : g = [i \in 1 .. Len(u) |-> b.buf[i - 1]]
      OBVIOUS
    <2>2. Strs!Bytes(b) = g
      BY <1>3, <2>1 DEF Strs!Bytes
    <2>3. ASSUME g = u
          PROVE  \A i \in 1 .. Len(u) : b.buf[i - 1] = u[i]
      BY <2>1, <2>3
    <2>4. ASSUME \A i \in 1 .. Len(u) : b.buf[i - 1] = u[i]
          PROVE  g = u
      <3>1. g = [i \in 1 .. Len(u) |-> u[i]]
        BY <2>1, <2>4
      <3> QED
        BY <1>2, <3>1
    <2> QED
      BY <2>2, <2>3, <2>4
  <1> QED
    BY <1>1, <1>3 DEF Strs!Holds

Puts(g, a, f, n, t) == f \in [0 .. a -> StrCells] /\ g = Strs!Put(f, n, t)

HasPut(g, a, f, n, t) ==
    /\ g \in [0 .. a -> StrCells]
    /\ \A i \in 1 .. Len(t) : g[n + i - 1] = t[i]
    /\ \A i \in 0 .. a : (i < n \/ i >= n + Len(t)) => g[i] = f[i]

\* The bytes of t are put into the block, which has room for them.
LEMMA PutIs ==
    ASSUME NEW a \in Nat, NEW f, NEW t \in Seq(StrCells),
           NEW n \in Nat, n + Len(t) <= a + 1, NEW g, Puts(g, a, f, n, t)
    PROVE  HasPut(g, a, f, n, t)
  <1>1. Len(t) \in Nat /\ \A i \in 1 .. Len(t) : t[i] \in StrCells
    BY LenProperties
  <1>2. DOMAIN f \cup (n .. n + Len(t) - 1) = 0 .. a
    <2>1. DOMAIN f = 0 .. a
      BY DEF Puts
    <2>2. \A i \in n .. n + Len(t) - 1 : i \in 0 .. a
      BY <1>1
    <2> QED
      BY <2>1, <2>2
  <1>3. g = [i \in 0 .. a |-> IF i \in n .. n + Len(t) - 1 THEN t[i - n + 1] ELSE f[i]]
    BY <1>2 DEF Strs!Put, Puts
  <1>4. \A i \in n .. n + Len(t) - 1 : i - n + 1 \in 1 .. Len(t) /\ t[i - n + 1] \in StrCells
    BY <1>1
  <1>5. g \in [0 .. a -> StrCells]
    BY <1>3, <1>4 DEF Puts
  <1>6. ASSUME NEW i \in 1 .. Len(t)
        PROVE  g[n + i - 1] = t[i]
    <2>1. n + i - 1 \in 0 .. a /\ n + i - 1 \in n .. n + Len(t) - 1 /\ n + i - 1 - n + 1 = i
      BY <1>1
    <2> QED
      BY <1>3, <2>1
  <1>7. ASSUME NEW i \in 0 .. a, i < n \/ i >= n + Len(t)
        PROVE  g[i] = f[i]
    <2>1. i \notin n .. n + Len(t) - 1
      BY <1>1, <1>7
    <2> QED
      BY <1>3, <2>1
  <1> QED
    BY <1>5, <1>6, <1>7 DEF HasPut

HeldBlock(b, u) == IsBlock(b) /\ Strs!Holds(b, u)

\* u is what the block has before the place where t is written.
LEMMA WrittenIs ==
    ASSUME NEW b, IsBlock(b), NEW u \in Seq(StrLetters), NEW t \in Seq(StrLetters),
           Len(u) + Len(t) <= b.alloc, \A i \in 1 .. Len(u) : b.buf[i - 1] = u[i]
    PROVE  HeldBlock(Strs!Written(b, Len(u), t), u \o t)
  <1>1. /\ Len(u) \in Nat /\ Len(t) \in Nat
        /\ \A i \in 1 .. Len(t) : t[i] \in StrLetters
    BY LenProperties
  <1>2. b.alloc \in Nat /\ b.buf \in [0 .. b.alloc -> StrCells]
    BY DEF IsBlock, StrBlocks
  <1>3. NUL \in StrLetters
    BY DEF StrLetters
  <1>4. PICK w : w = Append(t, NUL)
    OBVIOUS
  <1>5. /\ w \in Seq(StrCells) /\ Len(w) = Len(t) + 1 /\ w[Len(t) + 1] = NUL
        /\ \A i \in 1 .. Len(t) : w[i] = t[i]
    <2>1. StrLetters \subseteq StrCells
      BY DEF StrCells
    <2>2. t \in Seq(StrCells) /\ NUL \in StrCells
      BY <1>3, <2>1, SeqMonotonic
    <2> QED
      BY <1>4, <2>2, AppendProperties
  <1>6. PICK g : g = Strs!Put(b.buf, Len(u), w)
    OBVIOUS
  <1>7. /\ g \in [0 .. b.alloc -> StrCells]
        /\ \A i \in 1 .. Len(w) : g[Len(u) + i - 1] = w[i]
        /\ \A i \in 0 .. b.alloc : (i < Len(u) \/ i >= Len(u) + Len(w)) => g[i] = b.buf[i]
    <2>1. Len(u) + Len(w) <= b.alloc + 1
      BY <1>1, <1>2, <1>5
    <2>2. Puts(g, b.alloc, b.buf, Len(u), w)
      BY <1>2, <1>6 DEF Puts
    <2>3. HasPut(g, b.alloc, b.buf, Len(u), w)
      BY <1>1, <1>2, <1>5, <2>1, <2>2, PutIs
    <2> QED
      BY <2>3 DEF HasPut
  <1>8. PICK e : e = Strs!Written(b, Len(u), t)
    OBVIOUS
  <1>9. e = [b EXCEPT !.buf = g, !.len = Len(u) + Len(t)]
    BY <1>4, <1>6, <1>8 DEF Strs!Written
  <1>10. IsBlock(e) /\ e.len = Len(u) + Len(t) /\ e.alloc = b.alloc /\ e.buf = g
    <2>1. Len(u) + Len(t) \in Nat
      BY <1>1
    <2>2. Rewritten(e, b, Len(u) + Len(t), g)
      BY <1>7, <1>9 DEF Rewritten
    <2> QED
      BY <2>1, <2>2, BlockWith
  <1>11. PICK v : v = u \o t
    OBVIOUS
  <1>12. /\ v \in Seq(StrLetters) /\ Len(v) = Len(u) + Len(t)
         /\ \A i \in 1 .. Len(u) + Len(t) : v[i] = IF i <= Len(u) THEN u[i] ELSE t[i - Len(u)]
    BY <1>11, ConcatProperties
  <1>13. ASSUME NEW i \in 1 .. Len(v)
         PROVE  e.buf[i - 1] = v[i]
    <2>1. CASE i <= Len(u)
      <3>1. i \in 1 .. Len(u) /\ i - 1 \in 0 .. b.alloc /\ i - 1 < Len(u)
        BY <1>1, <1>2, <1>12, <2>1
      <3>2. v[i] = u[i]
        BY <1>12, <2>1
      <3> QED
        BY <1>7, <1>10, <3>1, <3>2
    <2>2. CASE ~(i <= Len(u))
      <3>1. i - Len(u) \in 1 .. Len(t) /\ i - Len(u) \in 1 .. Len(w)
            /\ Len(u) + (i - Len(u)) - 1 = i - 1
        BY <1>1, <1>5, <1>12, <2>2
      <3>2. v[i] = t[i - Len(u)]
        BY <1>12, <2>2
      <3>3. g[Len(u) + (i - Len(u)) - 1] = w[i - Len(u)]
        BY <1>7, <3>1
      <3> QED
        BY <1>5, <1>10, <3>1, <3>2, <3>3
    <2> QED
      BY <2>1, <2>2
  <1>14. e.buf[e.len] = NUL
    <2>1. Len(t) + 1 \in 1 .. Len(w) /\ Len(u) + (Len(t) + 1) - 1 = e.len
      BY <1>1, <1>5, <1>10
    <2>2. g[Len(u) + (Len(t) + 1) - 1] = w[Len(t) + 1]
      BY <1>7, <2>1
    <2> QED
      BY <1>5, <1>10, <2>1, <2>2
  <1>15. Strs!Holds(e, v)
    <2>1. e.len = Len(v) /\ e.len <= e.alloc
      BY <1>10, <1>12
    <2> QED
      BY <1>10, <1>12, <1>13, <1>14, <2>1, BytesAre
  <1> QED
    BY <1>8, <1>10, <1>11, <1>15 DEF HeldBlock

LEMMA WrittenFirst ==
    ASSUME NEW b, IsBlock(b), NEW t \in Seq(StrLetters), Len(t) <= b.alloc
    PROVE  HeldBlock(Strs!Written(b, 0, t), t)
  <1>1. PICK u : u = <<>>
    OBVIOUS
  <1>2. u \in Seq(StrLetters) /\ Len(u) = 0 /\ u \o t = t
    BY <1>1, ConcatEmptySeq
  <1>3. Len(u) + Len(t) <= b.alloc /\ \A i \in 1 .. Len(u) : b.buf[i - 1] = u[i]
    BY <1>2, LenProperties
  <1>4. HeldBlock(Strs!Written(b, Len(u), t), u \o t)
    BY <1>2, <1>3, WrittenIs
  <1> QED
    BY <1>2, <1>4

LEMMA MallocIs ==
    ASSUME NEW n \in Nat
    PROVE  Strs!Malloc(n) \in [0 .. n -> StrCells]
  BY DEF Strs!Malloc, StrCells

LEMMA NewIs ==
    ASSUME NEW t \in Seq(StrLetters)
    PROVE  HeldBlock(Strs!New(t), t) /\ Strs!New(t).alloc = Len(t)
  <1>1. Len(t) \in Nat
    BY LenProperties
  <1>2. PICK b : b = [len |-> 0, alloc |-> Len(t), buf |-> Strs!Malloc(Len(t))]
    OBVIOUS
  <1>3. IsBlock(b) /\ b.alloc = Len(t)
    <2>1. Record(b, 0, Len(t), Strs!Malloc(Len(t)))
      BY <1>1, <1>2, MallocIs DEF Record
    <2> QED
      BY <1>1, <2>1, BlockIs
  <1>4. Strs!New(t) = Strs!Written(b, 0, t)
    BY <1>2 DEF Strs!New
  <1>5. HeldBlock(Strs!Written(b, 0, t), t)
    BY <1>1, <1>3, WrittenFirst
  <1>6. Strs!Written(b, 0, t).alloc = b.alloc
    BY <1>2 DEF Strs!Written
  <1> QED
    BY <1>3, <1>4, <1>5, <1>6

LEMMA GrownIs ==
    ASSUME StrAssumption, NEW b, NEW u \in Seq(StrLetters), HeldBlock(b, u), NEW n \in Nat
    PROVE  /\ HeldBlock(Strs!Grown(b, n), u)
           /\ b.len + n <= Strs!Grown(b, n).alloc
  <1>1. /\ IsBlock(b) /\ b \in StrBlocks /\ b.len \in Nat /\ b.alloc \in Nat
        /\ b.buf \in [0 .. b.alloc -> StrCells]
    BY DEF HeldBlock, IsBlock, StrBlocks
  <1>2. CASE Strs!Fits(b, n)
    <2>1. Strs!Grown(b, n) = b
      BY <1>2 DEF Strs!Grown
    <2>2. b.len + n <= b.alloc
      BY <1>1, <1>2 DEF Strs!Fits
    <2> QED
      BY <2>1, <2>2
  <1>3. CASE ~Strs!Fits(b, n)
    <2>1. PICK more : more = IF b.len + n < MaxPrealloc THEN 2 * (b.len + n) ELSE b.len + n + MaxPrealloc
      OBVIOUS
    <2>2. PICK f : f = Strs!Realloc(b.buf, more)
      OBVIOUS
    <2>3. PICK e : e = Strs!Grown(b, n)
      OBVIOUS
    <2>4. e = [b EXCEPT !.alloc = more, !.buf = f]
      <3> DEFINE M == IF b.len + n < MaxPrealloc THEN 2 * (b.len + n) ELSE b.len + n + MaxPrealloc
      <3>1. Strs!Grown(b, n) = IF Strs!Fits(b, n) THEN b
                               ELSE [b EXCEPT !.alloc = M, !.buf = Strs!Realloc(b.buf, M)]
        BY DEF Strs!Grown
      <3>2. more = M
        BY <2>1
      <3> HIDE DEF M
      <3>3. PICK g : g = [b EXCEPT !.alloc = M, !.buf = Strs!Realloc(b.buf, M)]
        OBVIOUS
      <3>4. Strs!Grown(b, n) = g
        BY <1>3, <3>1, <3>3
      <3>5. e = g
        BY <2>3, <3>4
      <3> QED
        BY <2>2, <3>2, <3>3, <3>5
    <2>5. b.alloc - b.len < n
      BY <1>1, <1>3 DEF Strs!Fits
    <2>6. more \in Nat /\ b.len + n <= more /\ b.alloc <= more
      <3>1. PICK k : k = b.len + n
        OBVIOUS
      <3>2. k \in Nat /\ b.alloc <= k /\ MaxPrealloc \in Nat
        BY <1>1, <2>5, <3>1 DEF StrAssumption
      <3>3. more = IF k < MaxPrealloc THEN 2 * k ELSE k + MaxPrealloc
        BY <2>1, <3>1
      <3>4. more \in Nat /\ k <= more
        BY <3>2, <3>3
      <3> QED
        BY <1>1, <3>1, <3>2, <3>4
    <2>7. /\ f \in [0 .. more -> StrCells]
          /\ \A i \in 0 .. b.alloc : f[i] = b.buf[i]
      <3>1. f = [i \in 0 .. more |-> IF i \in 0 .. b.alloc THEN b.buf[i] ELSE None]
        BY <1>1, <2>2 DEF Strs!Realloc
      <3>2. \A i \in 0 .. b.alloc : i \in 0 .. more /\ b.buf[i] \in StrCells
        BY <1>1, <2>6
      <3>3. None \in StrCells
        BY DEF StrCells
      <3> QED
        BY <3>1, <3>2, <3>3
    <2>8. Record(e, b.len, more, f)
      BY <1>1, <2>4, <2>7 DEF StrBlocks, Record
    <2>9. IsBlock(e) /\ e.len = b.len /\ e.alloc = more /\ e.buf = f
      BY <1>1, <2>6, <2>8, BlockIs
    <2>10. /\ b.len = Len(u) /\ b.len <= b.alloc /\ b.buf[b.len] = NUL
           /\ \A i \in 1 .. Len(u) : b.buf[i - 1] = u[i]
      BY <1>1, BytesAre DEF HeldBlock
    <2>11. /\ e.len = Len(u) /\ e.len <= e.alloc /\ e.buf[e.len] = NUL
           /\ \A i \in 1 .. Len(u) : e.buf[i - 1] = u[i]
      <3>1. e.len = Len(u) /\ e.len <= e.alloc /\ b.len \in 0 .. b.alloc
        BY <1>1, <2>6, <2>9, <2>10
      <3>2. \A i \in 1 .. Len(u) : i - 1 \in 0 .. b.alloc
        BY <1>1, <2>10
      <3> QED
        BY <2>7, <2>9, <2>10, <3>1, <3>2
    <2>12. Strs!Holds(e, u)
      BY <2>9, <2>11, BytesAre
    <2> QED
      BY <2>3, <2>6, <2>9, <2>12 DEF HeldBlock
  <1> QED
    BY <1>2, <1>3

\* The loops of sdstrim keep what callers expect.
LEMMA TrimmedIs ==
    ASSUME NEW t \in Seq(StrLetters), NEW cset, NEW i \in 1 .. Len(t) + 1,
           NEW j \in i - 1 .. Len(t), Strs!Keeps(t, cset \cup {NUL}, i, j)
    PROVE  /\ SubSeq(t, i, j) \in Seq(StrLetters) /\ Len(SubSeq(t, i, j)) <= Len(t)
           /\ t # <<>> => Strs!Trimmed(t, cset) = SubSeq(t, i, j)
  <1>1. Len(t) \in Nat /\ DOMAIN t = 1 .. Len(t)
    BY LenProperties
  <1>2. SubSeq(t, i, j) \in Seq(StrLetters) /\ Len(SubSeq(t, i, j)) = j - i + 1
    BY PartIs
  <1>3. j - i + 1 <= Len(t)
    BY <1>1
  <1>4. ASSUME t # <<>>
        PROVE  Strs!Trimmed(t, cset) = SubSeq(t, i, j)
    <2>1. Len(t) \in 1 .. Len(t)
      BY <1>1, <1>4, EmptySeq
    <2>2. PICK trim : trim = cset \cup {NUL}
      OBVIOUS
    <2>3. PICK sp : sp = Strs!FirstKept(t, cset)
      OBVIOUS
    <2>4. PICK ep : ep = Strs!LastKept(t, cset)
      OBVIOUS
    <2> DEFINE First(k) == /\ k = Len(t) + 1 \/ t[k] \notin trim
                           /\ \A n \in 1 .. k - 1 : t[n] \in trim
               Last(k) == /\ k <= sp \/ t[k] \notin trim
                          /\ \A n \in k + 1 .. Len(t) : n > sp /\ t[n] \in trim
    <2>5. sp = CHOOSE k \in 1 .. Len(t) + 1 : First(k)
      BY <2>2, <2>3 DEF Strs!FirstKept
    <2>6. ep = CHOOSE k \in 1 .. Len(t) : Last(k)
      BY <2>2, <2>3, <2>4 DEF Strs!LastKept
    <2>7. /\ \A k \in 1 .. Len(t) : k < i \/ k > j => t[k] \in trim
          /\ i <= j => t[i] \notin trim /\ t[j] \notin trim
      <3>1. \A k \in 1 .. Len(t) : k < i \/ k > j => k \in DOMAIN t \ (i .. j)
        BY <1>1
      <3> QED
        BY <2>2, <3>1 DEF Strs!Keeps
    <2>8. Strs!Trimmed(t, cset) = SubSeq(t, sp, ep)
      BY <2>3, <2>4 DEF Strs!Trimmed
    <2>9. ASSUME NEW f \in 1 .. Len(t) + 1, First(f)
          PROVE  sp = f
      <3>1. sp \in 1 .. Len(t) + 1 /\ First(sp)
        <4> HIDE DEF First
        <4> QED
          BY <2>5, <2>9
      <3>2. ~(sp < f)
        <4>1. sp < f => sp \in 1 .. f - 1 /\ sp # Len(t) + 1
          BY <1>1, <3>1
        <4> QED
          BY <2>9, <3>1, <4>1
      <3>3. ~(f < sp)
        <4>1. f < sp => f \in 1 .. sp - 1 /\ f # Len(t) + 1
          BY <1>1, <3>1
        <4> QED
          BY <2>9, <3>1, <4>1
      <3>4. sp \in Int
        BY <3>1
      <3> QED
        BY <3>2, <3>3, <3>4
    <2>n. sp \in 1 .. Len(t) + 1
      <3>1. First(i) \/ First(Len(t) + 1)
        <4>1. CASE i <= j
          <5>1. \A n \in 1 .. i - 1 : n \in 1 .. Len(t) /\ n < i
            BY <1>1
          <5> QED
            BY <2>7, <4>1, <5>1
        <4>2. CASE ~(i <= j)
          <5>1. \A n \in 1 .. Len(t) + 1 - 1 : n \in 1 .. Len(t) /\ (n < i \/ n > j)
            BY <1>1, <4>2
          <5> QED
            BY <2>7, <5>1
        <4> QED
          BY <4>1, <4>2
      <3>2. Len(t) + 1 \in 1 .. Len(t) + 1
        BY <1>1
      <3> HIDE DEF First
      <3> QED
        BY <2>9, <3>1, <3>2
    <2>10. ASSUME NEW l \in 1 .. Len(t), Last(l)
           PROVE  ep = l
      <3>1. ep \in 1 .. Len(t) /\ Last(ep)
        <4> HIDE DEF Last
        <4> QED
          BY <2>6, <2>10
      <3>2. sp \in 1 .. Len(t) + 1
        BY <2>n
      <3>3. ~(ep < l)
        <4>1. ep < l => l \in ep + 1 .. Len(t)
          BY <1>1, <3>1
        <4>2. ep < l => l > sp /\ t[l] \in trim
          BY <3>1, <4>1
        <4>3. ~(l <= sp /\ l > sp)
          BY <3>2
        <4> QED
          BY <2>10, <4>2, <4>3
      <3>4. ~(l < ep)
        <4>1. l < ep => ep \in l + 1 .. Len(t)
          BY <1>1, <3>1
        <4>2. l < ep => ep > sp /\ t[ep] \in trim
          BY <2>10, <4>1
        <4>3. ~(ep <= sp /\ ep > sp)
          BY <3>1, <3>2
        <4> QED
          BY <3>1, <4>2, <4>3
      <3>5. ep \in Int
        BY <3>1
      <3> QED
        BY <3>3, <3>4, <3>5
    <2>11. CASE i <= j
      <3>1. /\ i \in 1 .. Len(t) /\ j \in 1 .. Len(t)
            /\ (\A n \in 1 .. i - 1 : n \in 1 .. Len(t) /\ n < i)
            /\ (\A n \in j + 1 .. Len(t) : n \in 1 .. Len(t) /\ n > j /\ n > i)
        BY <1>1, <2>11
      <3>2. First(i)
        BY <2>7, <2>11, <3>1
      <3>3. sp = i
        <4> HIDE DEF First
        <4> QED
          BY <2>9, <3>2
      <3>4. Last(j)
        BY <2>7, <2>11, <3>1, <3>3
      <3>5. ep = j
        <4> HIDE DEF Last
        <4> QED
          BY <2>10, <3>1, <3>4
      <3> QED
        BY <2>8, <3>3, <3>5
    <2>12. CASE ~(i <= j)
      <3>1. /\ \A n \in 1 .. Len(t) + 1 - 1 : n \in 1 .. Len(t) /\ (n < i \/ n > j)
            /\ Len(t) + 1 \in 1 .. Len(t) + 1
        BY <1>1, <2>12
      <3>2. First(Len(t) + 1)
        BY <2>7, <3>1
      <3>3. sp = Len(t) + 1
        <4> HIDE DEF First
        <4> QED
          BY <2>9, <3>1, <3>2
      <3>4. Last(Len(t))
        <4>1. Len(t) <= sp /\ Len(t) + 1 .. Len(t) = {}
          BY <1>1, <3>3
        <4> QED
          BY <4>1
      <3>5. ep = Len(t)
        <4> HIDE DEF Last
        <4> QED
          BY <2>1, <2>10, <3>4
      <3>6. SubSeq(t, sp, ep) = <<>>
        <4>1. Len(t) + 1 \in 1 .. Len(t) + 1 /\ Len(t) \in Len(t) + 1 - 1 .. Len(t)
          BY <1>1
        <4>2. /\ SubSeq(t, Len(t) + 1, Len(t)) \in Seq(StrLetters)
              /\ Len(SubSeq(t, Len(t) + 1, Len(t))) = Len(t) - (Len(t) + 1) + 1
          BY <4>1, PartIs
        <4>3. Len(t) - (Len(t) + 1) + 1 = 0
          BY <1>1
        <4> QED
          BY <3>3, <3>5, <4>2, <4>3, EmptySeq
      <3>7. SubSeq(t, i, j) = <<>>
        <4>1. j - i + 1 = 0
          BY <1>1, <2>12
        <4> QED
          BY <1>2, <4>1, EmptySeq
      <3> QED
        BY <2>8, <3>6, <3>7
    <2> QED
      BY <2>11, <2>12
  <1> QED
    BY <1>2, <1>3, <1>4

-----------------------------------------------------------------------------
(* The strings of sds.c: the calls *)

LEMMA TextIs ==
    ASSUME StrAssumption, NEW t \in Texts
    PROVE  t \in Seq(StrLetters)
  <1>1. t \in Seq({t[i] : i \in DOMAIN t})
    BY DEF StrAssumption
  <1>2. {t[i] : i \in DOMAIN t} \subseteq StrLetters
    BY DEF StrLetters
  <1> QED
    BY <1>1, <1>2, SeqMonotonic

LEMMA HeldIs ==
    ASSUME NEW b, NEW u, HeldBlock(b, u)
    PROVE  IsBlock(b) /\ Strs!Bytes(b) = u /\ b.len = Len(u) /\ b.len <= b.alloc
           /\ b \in StrBlocks /\ b.len \in Nat /\ b.alloc \in Nat
  BY DEF HeldBlock, IsBlock, StrBlocks, Strs!Holds

\* The block that sdsreplacelen fills.
Refilled(n, u) ==
    [len |-> n, alloc |-> n, buf |-> Strs!Put(Strs!Put(Strs!Malloc(n), 0, u), n, <<NUL>>)]

LEMMA RefilledIs ==
    ASSUME NEW u \in Seq(StrLetters), NEW n, n = Len(u)
    PROVE  HeldBlock(Refilled(n, u), u)
  <1>1. n \in Nat /\ Len(u) \in Nat /\ NUL \in StrLetters
    BY LenProperties DEF StrLetters
  <1>2. u \in Seq(StrCells) /\ <<NUL>> \in Seq(StrCells) /\ Len(<<NUL>>) = 1 /\ <<NUL>>[1] = NUL
    <2>1. StrLetters \subseteq StrCells
      BY DEF StrCells
    <2>2. u \in Seq(StrCells)
      BY <2>1, SeqMonotonic
    <2> QED
      BY <1>1, <2>1, <2>2
  <1>3. PICK f : f = Strs!Malloc(n)
    OBVIOUS
  <1>4. PICK g : g = Strs!Put(f, 0, u)
    OBVIOUS
  <1>5. PICK h : h = Strs!Put(g, n, <<NUL>>)
    OBVIOUS
  <1>6. f \in [0 .. n -> StrCells]
    BY <1>1, <1>3, MallocIs
  <1>7. HasPut(g, n, f, 0, u)
    <2>1. 0 + Len(u) <= n + 1 /\ Puts(g, n, f, 0, u)
      BY <1>1, <1>4, <1>6 DEF Puts
    <2> QED
      BY <1>1, <1>2, <2>1, PutIs
  <1>8. HasPut(h, n, g, n, <<NUL>>)
    <2>1. n + Len(<<NUL>>) <= n + 1 /\ Puts(h, n, g, n, <<NUL>>)
      BY <1>1, <1>2, <1>5, <1>7 DEF Puts, HasPut
    <2> QED
      BY <1>1, <1>2, <2>1, PutIs
  <1>9. PICK b : b = Refilled(n, u)
    OBVIOUS
  <1>10. IsBlock(b) /\ b.len = n /\ b.alloc = n /\ b.buf = h
    <2>1. Record(b, n, n, h)
      BY <1>3, <1>4, <1>5, <1>8, <1>9 DEF Record, Refilled, HasPut
    <2> QED
      BY <1>1, <2>1, BlockIs
  <1>11. b.buf[b.len] = NUL
    <2>1. h[n + 1 - 1] = <<NUL>>[1]
      BY <1>2, <1>8 DEF HasPut
    <2>2. n + 1 - 1 = n
      BY <1>1
    <2> QED
      BY <1>2, <1>10, <2>1, <2>2
  <1>12. ASSUME NEW i \in 1 .. Len(u)
         PROVE  b.buf[i - 1] = u[i]
    <2>1. i - 1 \in 0 .. n /\ i - 1 < n /\ 0 + i - 1 = i - 1
      BY <1>1
    <2>2. h[i - 1] = g[i - 1]
      BY <1>8, <2>1 DEF HasPut
    <2>3. g[0 + i - 1] = u[i]
      BY <1>7 DEF HasPut
    <2> QED
      BY <1>10, <2>1, <2>2, <2>3
  <1>13. Strs!Holds(b, u)
    <2>1. b.len = Len(u) /\ b.len <= b.alloc
      BY <1>1, <1>10
    <2> QED
      BY <1>10, <1>11, <1>12, <2>1, BytesAre
  <1> QED
    BY <1>9, <1>10, <1>13 DEF HeldBlock

\* What replacing makes is what joining the parts makes, in a block as long.
LEMMA ReplaceIs ==
    ASSUME NEW x \in Seq(StrLetters), NEW t \in Seq(StrLetters), t # <<>>,
           NEW with \in Seq(StrLetters)
    PROVE  /\ Strs!Joined(Strs!Pieces(x, t), with) = Strs!Replaced(x, t, with)
           /\ Strs!Replaced(x, t, with) \in Seq(StrLetters)
           /\ Len(Strs!Replaced(x, t, with)) = Len(x) + (Len(with) - Len(t)) * Strs!Count(x, t)
           /\ Strs!Count(x, t) = 0 => Strs!Replaced(x, t, with) = x
  <1>1. PICK c : CountFn(x, t, c) /\ Strs!Count(x, t) = c[1]
    BY CountFnIs
  <1>2. PICK r : ReplacedFn(x, t, with, r) /\ Strs!Replaced(x, t, with) = r[1]
    BY ReplacedFnIs
  <1>3. PICK p : PiecesFn(x, t, p) /\ Strs!Pieces(x, t) = p[1]
    BY PiecesFnIs
  <1>4. Strs!Joined(p[1], with) = r[1]
    BY <1>2, <1>3, PiecesJoined
  <1>5. Len(r[1]) = Len(x) + (Len(with) - Len(t)) * c[1]
    BY <1>1, <1>2, ReplacedLen
  <1>6. c[1] = 0 => r[1] = x
    BY <1>1, <1>2, NoneReplaced
  <1>7. r[1] \in Seq(StrLetters)
    <2>1. \A i \in 1 .. Len(x) + 1 : r[i] \in Seq(StrLetters)
      BY <1>2, WalkTypes
    <2>2. 1 \in 1 .. Len(x) + 1
      BY LenProperties
    <2> QED
      BY <2>1, <2>2
  <1> QED
    BY <1>1, <1>2, <1>3, <1>4, <1>5, <1>6, <1>7

PartsBytes(ps) == [i \in DOMAIN ps |-> Strs!Bytes(ps[i])]

PartsHeld(ps) ==
    /\ ps \in Seq(StrBlocks)
    /\ \A i \in 1 .. Len(ps) :
          Strs!Bytes(ps[i]) \in Seq(StrLetters) /\ HeldBlock(ps[i], Strs!Bytes(ps[i]))

SplitWords(x, t) == x \in Seq(StrLetters) /\ t \in Seq(StrLetters) /\ t # <<>>

\* The parts so far, before those that are still to be cut off.
SplitAt(ps, x, t, n) ==
    /\ SplitWords(x, t) /\ n \in 1 .. Len(x) + 1
    /\ \E p : PiecesFn(x, t, p) /\ PartsBytes(ps) \o p[n] = p[1]

SplitDone(ps, x, t) ==
    /\ SplitWords(x, t)
    /\ \E p : PiecesFn(x, t, p) /\ PartsBytes(ps) = p[1]

LEMMA PartsBytesAre ==
    ASSUME NEW ps, PartsHeld(ps)
    PROVE  /\ PartsBytes(ps) \in Seq(Seq(StrLetters)) /\ Len(PartsBytes(ps)) = Len(ps)
           /\ Len(ps) \in Nat /\ DOMAIN ps = 1 .. Len(ps)
           /\ \A i \in 1 .. Len(ps) : PartsBytes(ps)[i] = Strs!Bytes(ps[i])
  <1>1. Len(ps) \in Nat /\ DOMAIN ps = 1 .. Len(ps)
    BY LenProperties DEF PartsHeld
  <1>2. PICK g : g = PartsBytes(ps)
    OBVIOUS
  <1>3. g = [i \in 1 .. Len(ps) |-> Strs!Bytes(ps[i])]
    BY <1>1, <1>2 DEF PartsBytes
  <1>4. \A i \in 1 .. Len(ps) : Strs!Bytes(ps[i]) \in Seq(StrLetters)
    BY DEF PartsHeld
  <1>5. g \in [1 .. Len(ps) -> Seq(StrLetters)]
    BY <1>3, <1>4
  <1>6. g \in Seq(Seq(StrLetters)) /\ Len(g) = Len(ps)
    BY <1>1, <1>5, SequenceOf
  <1> QED
    BY <1>1, <1>2, <1>3, <1>6

LEMMA PartsBytesMore ==
    ASSUME NEW ps, PartsHeld(ps), NEW y \in Seq(StrLetters), NEW b, HeldBlock(b, y)
    PROVE  /\ PartsHeld(Append(ps, b)) /\ Len(Append(ps, b)) = Len(ps) + 1
           /\ PartsBytes(Append(ps, b)) = PartsBytes(ps) \o <<y>>
  <1>1. b \in StrBlocks /\ Strs!Bytes(b) = y
    BY HeldIs
  <1>2. ps \in Seq(StrBlocks) /\ Len(ps) \in Nat
    BY PartsBytesAre DEF PartsHeld
  <1>3. PICK q : q = Append(ps, b)
    OBVIOUS
  <1>4. /\ q \in Seq(StrBlocks) /\ Len(q) = Len(ps) + 1 /\ q[Len(ps) + 1] = b
        /\ \A i \in 1 .. Len(ps) : q[i] = ps[i]
    BY <1>1, <1>2, <1>3, AppendProperties
  <1>5. ASSUME NEW i \in 1 .. Len(q)
        PROVE  Strs!Bytes(q[i]) \in Seq(StrLetters) /\ HeldBlock(q[i], Strs!Bytes(q[i]))
    <2>1. i = Len(ps) + 1 \/ i \in 1 .. Len(ps)
      BY <1>2, <1>4
    <2>2. CASE i = Len(ps) + 1
      BY <1>1, <1>4, <2>2
    <2>3. CASE i \in 1 .. Len(ps)
      BY <1>4, <2>3 DEF PartsHeld
    <2> QED
      BY <2>1, <2>2, <2>3
  <1>6. PartsHeld(q)
    BY <1>4, <1>5 DEF PartsHeld
  <1>7. PICK v : v = PartsBytes(q)
    OBVIOUS
  <1>8. PICK a : a = PartsBytes(ps)
    OBVIOUS
  <1>9. /\ v \in Seq(Seq(StrLetters)) /\ Len(v) = Len(ps) + 1
        /\ \A i \in 1 .. Len(ps) + 1 : v[i] = Strs!Bytes(q[i])
    <2>1. /\ v \in Seq(Seq(StrLetters)) /\ Len(v) = Len(q)
          /\ \A i \in 1 .. Len(q) : v[i] = Strs!Bytes(q[i])
      BY <1>6, <1>7, PartsBytesAre
    <2> QED
      BY <1>4, <2>1
  <1>10. /\ a \in Seq(Seq(StrLetters)) /\ Len(a) = Len(ps)
         /\ \A i \in 1 .. Len(ps) : a[i] = Strs!Bytes(ps[i])
    BY <1>8, PartsBytesAre
  <1>11. <<y>> \in Seq(Seq(StrLetters)) /\ Len(<<y>>) = 1 /\ <<y>>[1] = y
    OBVIOUS
  <1>12. PICK e : e = a \o <<y>>
    OBVIOUS
  <1>13. /\ e \in Seq(Seq(StrLetters)) /\ Len(e) = Len(ps) + 1
         /\ \A i \in 1 .. Len(ps) + 1 : e[i] = IF i <= Len(ps) THEN a[i] ELSE <<y>>[i - Len(ps)]
    BY <1>10, <1>11, <1>12, ConcatProperties
  <1>14. ASSUME NEW i \in 1 .. Len(v)
         PROVE  v[i] = e[i]
    <2>1. i \in 1 .. Len(ps) + 1 /\ (i = Len(ps) + 1 \/ i \in 1 .. Len(ps))
      BY <1>2, <1>9
    <2>2. CASE i = Len(ps) + 1
      <3>1. ~(i <= Len(ps)) /\ i - Len(ps) = 1
        BY <1>2, <2>2
      <3>2. e[i] = <<y>>[1]
        BY <1>13, <2>1, <3>1
      <3>3. v[i] = Strs!Bytes(b)
        BY <1>4, <1>9, <2>1, <2>2
      <3> QED
        BY <1>1, <1>11, <3>2, <3>3
    <2>3. CASE i \in 1 .. Len(ps)
      <3>1. i <= Len(ps)
        BY <2>3
      <3>2. e[i] = a[i]
        BY <1>13, <2>1, <3>1
      <3> QED
        BY <1>4, <1>9, <1>10, <2>1, <2>3, <3>2
    <2> QED
      BY <2>1, <2>2, <2>3
  <1>15. v = e
    BY <1>9, <1>13, <1>14, SeqEqual
  <1> QED
    BY <1>3, <1>4, <1>6, <1>7, <1>8, <1>12, <1>15

\* q is ps and one part more, up to m or to the end.
OnePartMore(q, ps, x, t, m) ==
    /\ PartsHeld(q) /\ Len(q) = Len(ps) + 1
    /\ m = 0 => SplitDone(q, x, t)
    /\ m # 0 => SplitAt(q, x, t, m + Len(t))

\* One more part is cut off, up to m or to the end.
LEMMA SplitPartIs ==
    ASSUME NEW ps, PartsHeld(ps), NEW x, NEW t, NEW n, SplitAt(ps, x, t, n),
           NEW m, NextAt(x, t, n, m), NEW y, y = SubSeq(x, n, IF m = 0 THEN Len(x) ELSE m - 1),
           NEW q, q = Append(ps, Strs!New(y))
    PROVE  OnePartMore(q, ps, x, t, m)
  <1>1. /\ x \in Seq(StrLetters) /\ t \in Seq(StrLetters) /\ t # <<>> /\ n \in 1 .. Len(x) + 1
        /\ SplitWords(x, t)
    BY DEF SplitAt, SplitWords
  <1>2. PICK p : PiecesFn(x, t, p) /\ PartsBytes(ps) \o p[n] = p[1]
    BY DEF SplitAt
  <1>3. NextPlace(x, t, n, m)
    BY <1>1, NextIs
  <1>4. PieceAt(x, t, p, n, m)
    BY <1>1, <1>2, PiecesStep
  <1>5. Len(x) \in Nat
    BY <1>1, LenProperties
  <1>6. y \in Seq(StrLetters)
    <2>1. CASE m = 0
      BY <1>1, <2>1, RestType
    <2>2. CASE m # 0
      <3>1. m \in n .. Len(x) + 1
        BY <1>3, <1>5, <2>2 DEF NextPlace
      <3> QED
        BY <1>1, <2>2, <3>1, BeforeNext
    <2> QED
      BY <2>1, <2>2
  <1>7. HeldBlock(Strs!New(y), y)
    BY <1>6, NewIs
  <1>8. PICK a : a = PartsBytes(ps)
    OBVIOUS
  <1>9. PartsHeld(q) /\ Len(q) = Len(ps) + 1 /\ PartsBytes(q) = a \o <<y>>
    BY <1>6, <1>7, <1>8, PartsBytesMore
  <1>10. ASSUME m = 0 PROVE SplitDone(q, x, t)
    <2>1. p[n] = <<y>>
      BY <1>4, <1>10 DEF PieceAt
    <2> QED
      BY <1>1, <1>2, <1>8, <1>9, <2>1 DEF SplitDone
  <1>11. ASSUME m # 0 PROVE SplitAt(q, x, t, m + Len(t))
    <2>1. PICK k : k = m + Len(t)
      OBVIOUS
    <2>2. k \in 1 .. Len(x) + 1
      BY <1>1, <1>3, <1>5, <1>11, <2>1 DEF NextPlace
    <2>3. p[n] = <<y>> \o p[k]
      BY <1>4, <1>11, <2>1 DEF PieceAt
    <2>4. p[k] \in Seq(Seq(StrLetters))
      BY <1>1, <1>2, <2>2, WalkTypes
    <2>5. a \in Seq(Seq(StrLetters)) /\ <<y>> \in Seq(Seq(StrLetters))
      BY <1>6, <1>8, PartsBytesAre
    <2>6. (a \o <<y>>) \o p[k] = a \o (<<y>> \o p[k])
      <3>1. PICK z : z = <<y>>
        OBVIOUS
      <3>2. PICK w : w = p[k]
        OBVIOUS
      <3>3. z \in Seq(Seq(StrLetters)) /\ w \in Seq(Seq(StrLetters))
        BY <2>4, <2>5, <3>1, <3>2
      <3>4. PICK T : T = Seq(StrLetters)
        OBVIOUS
      <3>5. a \in Seq(T) /\ z \in Seq(T) /\ w \in Seq(T)
        BY <2>5, <3>3, <3>4
      <3>6. (a \o z) \o w = a \o (z \o w)
        BY ONLY <3>5, ConcatAssociative
      <3> QED
        BY <3>1, <3>2, <3>6
    <2>7. PartsBytes(q) \o p[k] = p[1]
      BY <1>2, <1>8, <1>9, <2>3, <2>6
    <2> QED
      BY <1>1, <1>2, <2>1, <2>2, <2>7 DEF SplitAt
  <1> QED
    BY <1>9, <1>10, <1>11 DEF OnePartMore

LEMMA SplitStart ==
    ASSUME NEW x, NEW t, SplitWords(x, t)
    PROVE  SplitAt(<<>>, x, t, 1)
  <1>1. x \in Seq(StrLetters) /\ t \in Seq(StrLetters) /\ t # <<>>
    BY DEF SplitWords
  <1>2. PICK p : PiecesFn(x, t, p)
    BY <1>1, PiecesFnIs
  <1>3. 1 \in 1 .. Len(x) + 1
    BY <1>1, LenProperties
  <1>4. p[1] \in Seq(Seq(StrLetters))
    BY <1>1, <1>2, <1>3, WalkTypes
  <1>5. PartsBytes(<<>>) = <<>>
    BY DEF PartsBytes
  <1>6. <<>> \o p[1] = p[1]
    BY <1>4, ConcatEmptySeq
  <1> QED
    BY <1>2, <1>3, <1>5, <1>6 DEF SplitAt

\* The parts give the string back, and hold no separator; and joined by
\* another text they are what replacing makes.
LEMMA SplitMeans ==
    ASSUME NEW ps, PartsHeld(ps), NEW x, NEW t, SplitDone(ps, x, t)
    PROVE  /\ Strs!Joined(PartsBytes(ps), t) = x
           /\ \A i \in 1 .. Len(ps) : Strs!Find(Strs!Bytes(ps[i]), t, 1) = 0
           /\ \A with \in Seq(StrLetters) :
                 /\ Strs!Joined(PartsBytes(ps), with) = Strs!Replaced(x, t, with)
                 /\ Strs!Replaced(x, t, with) \in Seq(StrLetters)
  <1>1. x \in Seq(StrLetters) /\ t \in Seq(StrLetters) /\ t # <<>>
    BY DEF SplitDone, SplitWords
  <1>2. PICK p : PiecesFn(x, t, p) /\ PartsBytes(ps) = p[1]
    BY DEF SplitDone
  <1>3. Strs!Joined(p[1], t) = x
    BY <1>1, <1>2, PiecesGiveBack
  <1>4. \A i \in 1 .. Len(ps) : Strs!Find(Strs!Bytes(ps[i]), t, 1) = 0
    <2>1. \A i \in 1 .. Len(p[1]) : Strs!Find(p[1][i], t, 1) = 0
      BY <1>1, <1>2, PiecesFree
    <2>2. Len(p[1]) = Len(ps) /\ \A i \in 1 .. Len(ps) : p[1][i] = Strs!Bytes(ps[i])
      BY <1>2, PartsBytesAre
    <2> QED
      BY <2>1, <2>2
  <1>5. ASSUME NEW with \in Seq(StrLetters)
        PROVE  /\ Strs!Joined(p[1], with) = Strs!Replaced(x, t, with)
               /\ Strs!Replaced(x, t, with) \in Seq(StrLetters)
    <2>1. PICK r : ReplacedFn(x, t, with, r) /\ Strs!Replaced(x, t, with) = r[1]
      BY <1>1, ReplacedFnIs
    <2>2. Strs!Joined(p[1], with) = r[1]
      BY <1>1, <1>2, <2>1, PiecesJoined
    <2>3. Strs!Replaced(x, t, with) \in Seq(StrLetters)
      BY <1>1, ReplaceIs
    <2> QED
      BY <2>1, <2>2, <2>3
  <1> QED
    BY <1>2, <1>3, <1>4, <1>5

\* While parts are to be cut off, there is room for them; then there is none.
LEMMA SplitRoom ==
    ASSUME NEW ps, PartsHeld(ps), NEW x, NEW t, NEW n, SplitAt(ps, x, t, n)
    PROVE  Len(ps) < 1 + Strs!Count(x, t)
  <1>1. x \in Seq(StrLetters) /\ t \in Seq(StrLetters) /\ t # <<>> /\ n \in 1 .. Len(x) + 1
    BY DEF SplitAt, SplitWords
  <1>2. PICK p : PiecesFn(x, t, p) /\ PartsBytes(ps) \o p[n] = p[1]
    BY DEF SplitAt
  <1>3. PICK a : a = PartsBytes(ps)
    OBVIOUS
  <1>4. PICK q : q = p[n]
    OBVIOUS
  <1>5. a \in Seq(Seq(StrLetters)) /\ Len(a) = Len(ps) /\ Len(ps) \in Nat
    BY <1>3, PartsBytesAre
  <1>6. q \in Seq(Seq(StrLetters)) /\ q # <<>>
    BY <1>1, <1>2, <1>4, WalkTypes
  <1>7. Len(q) \in Nat /\ Len(q) # 0
    BY <1>6, EmptySeq, LenProperties
  <1>8. Len(a \o q) = Len(a) + Len(q)
    BY <1>5, <1>6, ConcatProperties
  <1>9. Len(p[1]) = 1 + Strs!Count(x, t)
    BY <1>1, <1>2, PiecesCounted
  <1>10. Len(ps) < Len(p[1])
    BY <1>2, <1>3, <1>4, <1>5, <1>7, <1>8
  <1> QED
    BY <1>9, <1>10

LEMMA SplitFull ==
    ASSUME NEW ps, PartsHeld(ps), NEW x, NEW t, SplitDone(ps, x, t)
    PROVE  Len(ps) = 1 + Strs!Count(x, t)
  <1>1. x \in Seq(StrLetters) /\ t \in Seq(StrLetters) /\ t # <<>>
    BY DEF SplitDone, SplitWords
  <1>2. PICK p : PiecesFn(x, t, p) /\ PartsBytes(ps) = p[1]
    BY DEF SplitDone
  <1>3. Len(p[1]) = 1 + Strs!Count(x, t)
    BY <1>1, <1>2, PiecesCounted
  <1> QED
    BY <1>2, <1>3, PartsBytesAre

-----------------------------------------------------------------------------
(* The strings of sds.c: the invariant *)

\* The array of sdssplitlen is as large as counted.
SlotsRight ==
    /\ sdsPc = "split" \/ parts # <<>> => slots = 1 + Strs!Count(whole, sep)
    /\ sdsPc = "idle" /\ parts = <<>> => slots = 0

StrInv ==
    /\ SlotsRight
    /\ sdsPc \in {"idle", "split"} /\ blocks \in Int
    /\ content \in Seq(StrLetters) /\ (sds # None => HeldBlock(sds, content))
    /\ PartsHeld(parts)
    /\ blocks = (IF sds = None THEN 0 ELSE 1) + Len(parts)
    /\ sdsPc = "split" => sds # None /\ whole = content /\ SplitAt(parts, whole, sep, sdsAt)
    /\ sdsPc = "idle" /\ parts # <<>> => SplitDone(parts, whole, sep)

LEMMA HeldNotNone ==
    ASSUME NullIsNoBlock, NEW b, NEW u, HeldBlock(b, u)
    PROVE  b # None
  BY HeldIs DEF NullIsNoBlock

LEMMA StrBecomes ==
    ASSUME StrAssumption, NullIsNoBlock, StrInv, NEW b, NEW n, NEW t \in Seq(StrLetters), Strs!Becomes(b, n, t),
           b = None \/ HeldBlock(b, t),
           n = (IF b = None THEN 0 ELSE 1) - (IF sds = None THEN 0 ELSE 1)
    PROVE  StrInv'
  <1>1. /\ sdsPc = "idle" /\ sds' = b /\ blocks' = blocks + n /\ content' = t
        /\ parts' = parts /\ slots' = slots
        /\ sdsPc' = sdsPc /\ sdsAt' = sdsAt /\ whole' = whole /\ sep' = sep
    BY DEF Strs!Becomes, Strs!split
  <1>2. PartsHeld(parts) /\ Len(parts) \in Nat
    BY PartsBytesAre DEF StrInv
  <1>3. blocks' \in Int /\ blocks' = (IF sds' = None THEN 0 ELSE 1) + Len(parts)
    <2>1. PICK k \in Int : k = IF sds = None THEN 0 ELSE 1
      OBVIOUS
    <2>2. PICK l \in Int : l = IF b = None THEN 0 ELSE 1
      OBVIOUS
    <2>3. blocks = k + Len(parts) /\ n = l - k
      BY <2>1, <2>2 DEF StrInv
    <2>4. blocks' = l + Len(parts)
      BY <1>1, <1>2, <2>3
    <2> QED
      BY <1>1, <1>2, <2>2, <2>4
  <1>4. sds' # None => HeldBlock(sds', content')
    BY <1>1
  <1>5. parts' # <<>> => SplitDone(parts', whole', sep')
    BY <1>1 DEF StrInv
  <1>6. sdsPc' = "idle" /\ sdsPc' # "split"
    BY <1>1
  <1>7. SlotsRight'
    BY <1>1 DEF StrInv, SlotsRight
  <1> QED
    BY <1>1, <1>2, <1>3, <1>4, <1>5, <1>6, <1>7 DEF StrInv

LEMMA StrKeeps ==
    ASSUME StrInv, UNCHANGED <<sds, blocks, content, parts, slots, sdsPc, sdsAt, whole, sep>>
    PROVE  StrInv'
  BY DEF StrInv, SlotsRight

\* The calls that make, change or free the string.
LEMMA StrCreate ==
    ASSUME StrAssumption, NullIsNoBlock, StrInv, NEW t \in Texts,
           Strs!Create(t) \/ \E f \in {0, 1} : Strs!CreateFormatted(f, t)
    PROVE  StrInv'
  <1>1. t \in Seq(StrLetters) /\ Len(t) \in Nat
    BY TextIs, LenProperties
  <1>2. PICK e : e = <<>>
    OBVIOUS
  <1>3. e \in Seq(StrLetters) /\ Len(e) = 0
    BY <1>2, EmptySeq
  <1>4. PICK n : n = 1
    OBVIOUS
  <1>5. ASSUME NEW b, HeldBlock(b, t), sds = None, Strs!Becomes(b, n, t)
        PROVE  StrInv'
    <2>1. b # None
      BY <1>5, HeldNotNone
    <2>2. n = (IF b = None THEN 0 ELSE 1) - (IF sds = None THEN 0 ELSE 1)
      BY <1>4, <1>5, <2>1
    <2> QED
      BY <1>1, <1>5, <2>2, StrBecomes
  <1>6. CASE Strs!Create(t)
    <2>1. sds = None /\ Strs!Becomes(Strs!New(t), n, t)
      BY <1>4, <1>6 DEF Strs!Create
    <2>2. HeldBlock(Strs!New(t), t)
      BY <1>1, NewIs
    <2> QED
      BY <1>5, <2>1, <2>2
  <1>7. ASSUME NEW f \in {0, 1}, Strs!CreateFormatted(f, t)
        PROVE  StrInv'
    <2>1. PICK first : first = Strs!Grown(Strs!New(e), 2 * f)
      OBVIOUS
    <2>2. PICK b : b = IF Len(t) < 2 * f THEN first ELSE Strs!Grown(first, Len(t) + 1)
      OBVIOUS
    <2>3. sds = None /\ Strs!Becomes(Strs!Written(b, 0, t), n, t)
      BY <1>2, <1>4, <1>7, <2>1, <2>2 DEF Strs!CreateFormatted
    <2>4. HeldBlock(Strs!New(e), e)
      BY <1>3, NewIs
    <2>5. 2 * f \in Nat /\ Len(t) + 1 \in Nat
      BY <1>1
    <2>6. HeldBlock(first, e) /\ Strs!New(e).len + 2 * f <= first.alloc
      BY <1>3, <2>1, <2>4, <2>5, GrownIs
    <2>7. Strs!New(e).len = 0 /\ first.len = 0 /\ first.alloc \in Nat
      BY <1>3, <2>4, <2>6, HeldIs
    <2>8. /\ HeldBlock(Strs!Grown(first, Len(t) + 1), e)
          /\ first.len + (Len(t) + 1) <= Strs!Grown(first, Len(t) + 1).alloc
      BY <1>3, <2>5, <2>6, GrownIs
    <2>9. HeldBlock(b, e)
      BY <2>2, <2>6, <2>8
    <2>10. b.alloc \in Nat /\ IsBlock(b)
      BY <2>9, HeldIs
    <2>11. Len(t) <= b.alloc
      <3>1. CASE Len(t) < 2 * f
        BY <1>1, <2>2, <2>5, <2>6, <2>7, <3>1
      <3>2. CASE ~(Len(t) < 2 * f)
        <4>1. b = Strs!Grown(first, Len(t) + 1)
          BY <2>2, <3>2
        <4>2. 0 + (Len(t) + 1) <= b.alloc
          BY <2>7, <2>8, <4>1
        <4> QED
          BY <1>1, <2>10, <4>2
      <3> QED
        BY <3>1, <3>2
    <2>12. HeldBlock(Strs!Written(b, 0, t), t)
      BY <1>1, <2>10, <2>11, WrittenFirst
    <2> QED
      BY <1>5, <2>3, <2>12
  <1> QED
    BY <1>6, <1>7

\* A call that leaves a block where there was one.
LEMMA StrChanges ==
    ASSUME StrAssumption, NullIsNoBlock, StrInv, NEW b, NEW u \in Seq(StrLetters), sds # None,
           HeldBlock(b, u), Strs!Becomes(b, 0, u)
    PROVE  StrInv'
  <1>1. PICK n : n = 0
    OBVIOUS
  <1>2. b # None
    BY HeldNotNone
  <1>3. n = (IF b = None THEN 0 ELSE 1) - (IF sds = None THEN 0 ELSE 1)
    BY <1>1, <1>2
  <1>4. Strs!Becomes(b, n, u)
    BY <1>1
  <1> QED
    BY <1>3, <1>4, StrBecomes

LEMMA StrDupFree ==
    ASSUME StrAssumption, NullIsNoBlock, StrInv, Strs!Dup \/ Strs!Free
    PROVE  StrInv'
  <1>1. CASE Strs!Dup
    <2>1. sds # None /\ Strs!Becomes(Strs!New(Strs!Bytes(sds)), 0, content)
      BY <1>1 DEF Strs!Dup
    <2>2. content \in Seq(StrLetters) /\ HeldBlock(sds, content)
      BY <2>1 DEF StrInv
    <2>3. Strs!Bytes(sds) = content
      BY <2>2, HeldIs
    <2>4. HeldBlock(Strs!New(content), content)
      BY <2>2, NewIs
    <2> QED
      BY <2>1, <2>2, <2>3, <2>4, StrChanges
  <1>2. CASE Strs!Free
    <2>1. PICK n : n = -1
      OBVIOUS
    <2>2. PICK e : e = <<>>
      OBVIOUS
    <2>3. sds # None /\ Strs!Becomes(None, n, e)
      BY <1>2, <2>1, <2>2 DEF Strs!Free
    <2>4. e \in Seq(StrLetters) /\ n = (IF None = None THEN 0 ELSE 1) - (IF sds = None THEN 0 ELSE 1)
      BY <2>1, <2>2, <2>3, EmptySeq
    <2> QED
      BY <2>3, <2>4, StrBecomes
  <1> QED
    BY <1>1, <1>2

LEMMA StrCat ==
    ASSUME StrAssumption, NullIsNoBlock, StrInv, NEW t \in Texts, Strs!Cat(t)
    PROVE  StrInv'
  <1>1. t \in Seq(StrLetters) /\ Len(t) \in Nat
    BY TextIs, LenProperties
  <1>2. PICK b : b = Strs!Grown(sds, Len(t))
    OBVIOUS
  <1>3. sds # None /\ Strs!Becomes(Strs!Written(b, sds.len, t), 0, content \o t)
    BY <1>2 DEF Strs!Cat
  <1>4. content \in Seq(StrLetters) /\ HeldBlock(sds, content)
    BY <1>3 DEF StrInv
  <1>5. HeldBlock(b, content) /\ sds.len + Len(t) <= b.alloc
    BY <1>1, <1>2, <1>4, GrownIs
  <1>6. sds.len = Len(content)
    BY <1>4, HeldIs
  <1>7. IsBlock(b) /\ \A i \in 1 .. Len(content) : b.buf[i - 1] = content[i]
    BY <1>4, <1>5, BytesAre DEF HeldBlock
  <1>8. HeldBlock(Strs!Written(b, Len(content), t), content \o t)
    BY <1>1, <1>4, <1>5, <1>6, <1>7, WrittenIs
  <1>9. content \o t \in Seq(StrLetters)
    BY <1>1, <1>4, ConcatProperties
  <1> QED
    BY <1>3, <1>6, <1>8, <1>9, StrChanges

LEMMA StrReserve ==
    ASSUME StrAssumption, NullIsNoBlock, StrInv, NEW n \in Reserves, Strs!Reserve(n)
    PROVE  StrInv'
  <1>1. PICK b : b = IF n <= sds.alloc THEN sds ELSE Strs!Grown(sds, n - sds.len)
    OBVIOUS
  <1>2. sds # None /\ Strs!Becomes(b, 0, content)
    BY <1>1 DEF Strs!Reserve
  <1>3. content \in Seq(StrLetters) /\ HeldBlock(sds, content)
    BY <1>2 DEF StrInv
  <1>4. sds.len \in Nat /\ sds.alloc \in Nat /\ sds.len <= sds.alloc
    BY <1>3, HeldIs
  <1>5. n \in Nat
    BY DEF StrAssumption
  <1>6. HeldBlock(b, content)
    <2>1. CASE n <= sds.alloc
      BY <1>1, <1>3, <2>1
    <2>2. CASE ~(n <= sds.alloc)
      <3>1. n - sds.len \in Nat
        BY <1>4, <1>5, <2>2
      <3>2. HeldBlock(Strs!Grown(sds, n - sds.len), content)
        BY <1>3, <3>1, GrownIs
      <3> QED
        BY <1>1, <2>2, <3>2
    <2> QED
      BY <2>1, <2>2
  <1> QED
    BY <1>2, <1>3, <1>6, StrChanges

LEMMA StrClear ==
    ASSUME StrAssumption, NullIsNoBlock, StrInv, Strs!Clear
    PROVE  StrInv'
  <1>1. PICK e : e = <<>>
    OBVIOUS
  <1>2. e \in Seq(StrLetters) /\ Len(e) = 0
    BY <1>1, EmptySeq
  <1>3. sds # None /\ Strs!Becomes(Strs!Written(sds, 0, e), 0, e)
    BY <1>1 DEF Strs!Clear
  <1>4. HeldBlock(sds, content)
    BY <1>3 DEF StrInv
  <1>5. IsBlock(sds) /\ Len(e) <= sds.alloc
    BY <1>2, <1>4, HeldIs
  <1>6. HeldBlock(Strs!Written(sds, 0, e), e)
    BY <1>2, <1>5, WrittenFirst
  <1> QED
    BY <1>2, <1>3, <1>6, StrChanges

LEMMA StrTrim ==
    ASSUME StrAssumption, NullIsNoBlock, StrInv, NEW cset, Strs!Trim(cset)
    PROVE  StrInv'
  <1>1. sds # None
    BY DEF Strs!Trim
  <1>2. PICK b : b = IF sds.len = 0 THEN sds
                     ELSE Strs!Written(sds, 0, Strs!Trimmed(Strs!Bytes(sds), cset))
    OBVIOUS
  <1>p. PICK i \in 1 .. Len(content) + 1 : \E j \in i - 1 .. Len(content) :
           /\ Strs!Keeps(content, cset \cup {NUL}, i, j)
           /\ Strs!Becomes(b, 0, SubSeq(content, i, j))
    BY <1>2 DEF Strs!Trim
  <1>3. PICK j \in i - 1 .. Len(content) :
           /\ Strs!Keeps(content, cset \cup {NUL}, i, j)
           /\ Strs!Becomes(b, 0, SubSeq(content, i, j))
    BY <1>p
  <1>4. content \in Seq(StrLetters) /\ HeldBlock(sds, content)
    BY <1>1 DEF StrInv
  <1>5. /\ Strs!Bytes(sds) = content /\ sds.len = Len(content) /\ sds.len <= sds.alloc
        /\ sds.len \in Nat /\ sds.alloc \in Nat /\ IsBlock(sds)
    BY <1>4, HeldIs
  <1>6. PICK u : u = SubSeq(content, i, j)
    OBVIOUS
  <1>7. /\ u \in Seq(StrLetters) /\ Len(u) <= Len(content)
        /\ content # <<>> => Strs!Trimmed(content, cset) = u
    BY <1>3, <1>4, <1>6, TrimmedIs
  <1>8. Len(u) \in Nat
    BY <1>7, LenProperties
  <1>9. HeldBlock(b, u)
    <2>1. CASE sds.len = 0
      <3>1. Len(u) = 0 /\ Len(content) = 0
        BY <1>5, <1>7, <1>8, <2>1
      <3>2. u = <<>> /\ content = <<>>
        BY <1>4, <1>7, <3>1, EmptySeq
      <3> QED
        BY <1>2, <1>4, <2>1, <3>2
    <2>2. CASE sds.len # 0
      <3>1. content # <<>>
        BY <1>5, <2>2, EmptySeq
      <3>2. b = Strs!Written(sds, 0, u)
        BY <1>2, <1>5, <1>7, <2>2, <3>1
      <3>3. Len(u) <= sds.alloc
        BY <1>5, <1>7, <1>8
      <3> QED
        BY <1>5, <1>7, <3>2, <3>3, WrittenFirst
    <2> QED
      BY <2>1, <2>2
  <1> QED
    BY <1>1, <1>3, <1>6, <1>7, <1>9, StrChanges

LEMMA StrReplace ==
    ASSUME StrAssumption, NullIsNoBlock, StrInv, NEW t \in Texts, NEW with \in Texts, Strs!Replace(t, with)
    PROVE  StrInv'
  <1>1. t \in Seq(StrLetters) /\ with \in Seq(StrLetters)
    BY TextIs
  <1>2. sds # None
    BY DEF Strs!Replace
  <1>3. content \in Seq(StrLetters) /\ HeldBlock(sds, content)
    BY <1>2 DEF StrInv
  <1>4. Strs!Bytes(sds) = content /\ sds.len = Len(content)
    BY <1>3, HeldIs
  <1>5. PICK n : n = sds.len + (Len(with) - Len(t)) * Strs!Count(content, t)
    OBVIOUS
  <1>6. PICK u : u = Strs!Replaced(content, t, with)
    OBVIOUS
  <1>7. Strs!Becomes(IF t = <<>> \/ Strs!Count(content, t) = 0 THEN sds ELSE Refilled(n, u), 0,
                     IF t = <<>> THEN content ELSE Strs!Joined(Strs!Pieces(content, t), with))
    BY <1>4, <1>5, <1>6 DEF Strs!Replace, Refilled
  <1>8. CASE t = <<>>
    <2>1. Strs!Becomes(sds, 0, content)
      BY <1>7, <1>8
    <2> QED
      BY <1>2, <1>3, <2>1, StrChanges
  <1>9. CASE t # <<>>
    <2>1. /\ Strs!Joined(Strs!Pieces(content, t), with) = u /\ u \in Seq(StrLetters)
          /\ Len(u) = Len(content) + (Len(with) - Len(t)) * Strs!Count(content, t)
          /\ Strs!Count(content, t) = 0 => u = content
      BY <1>1, <1>3, <1>6, <1>9, ReplaceIs
    <2>2. CASE Strs!Count(content, t) = 0
      <3>1. Strs!Becomes(sds, 0, u) /\ u = content
        BY <1>7, <1>9, <2>1, <2>2
      <3> QED
        BY <1>2, <1>3, <3>1, StrChanges
    <2>3. CASE Strs!Count(content, t) # 0
      <3>1. Strs!Becomes(Refilled(n, u), 0, u)
        BY <1>7, <1>9, <2>1, <2>3
      <3>2. n = Len(u)
        BY <1>4, <1>5, <2>1
      <3>3. HeldBlock(Refilled(n, u), u)
        BY <2>1, <3>2, RefilledIs
      <3> QED
        BY <1>2, <2>1, <3>1, <3>3, StrChanges
    <2> QED
      BY <2>2, <2>3
  <1> QED
    BY <1>8, <1>9

\* The calls that split the string and join its parts.
LEMMA StrSplitBegin ==
    ASSUME StrAssumption, NullIsNoBlock, StrInv, NEW t \in Texts, Strs!SplitBegin(t)
    PROVE  StrInv'
  <1>1. /\ sdsPc = "idle" /\ sds # None /\ parts = <<>> /\ t # <<>>
        /\ sdsPc' = "split" /\ sdsAt' = 1 /\ whole' = content /\ sep' = t
        /\ sds' = sds /\ blocks' = blocks /\ content' = content /\ parts' = parts
        /\ slots' = 1 + Strs!Count(Strs!Bytes(sds), t)
    BY DEF Strs!SplitBegin, Strs!string
  <1>2. t \in Seq(StrLetters) /\ content \in Seq(StrLetters)
    BY TextIs DEF StrInv
  <1>3. SplitAt(<<>>, content, t, 1)
    BY <1>1, <1>2, SplitStart DEF SplitWords
  <1>4. SplitAt(parts', whole', sep', sdsAt')
    BY <1>1, <1>3
  <1>5. sdsPc' # "idle"
    BY <1>1
  <1>6. Strs!Bytes(sds) = content
    BY <1>1, HeldIs DEF StrInv
  <1>7. SlotsRight'
    BY <1>1, <1>5, <1>6 DEF SlotsRight
  <1> QED
    BY <1>1, <1>4, <1>5, <1>7 DEF StrInv

LEMMA StrSplitPart ==
    ASSUME StrAssumption, NullIsNoBlock, StrInv, Strs!SplitPart
    PROVE  StrInv'
  <1>1. sdsPc = "split" /\ sds # None /\ whole = content /\ SplitAt(parts, whole, sep, sdsAt)
        /\ HeldBlock(sds, content) /\ PartsHeld(parts)
    BY DEF Strs!SplitPart, StrInv
  <1>2. Strs!Bytes(sds) = whole /\ sds.len = Len(whole)
    BY <1>1, HeldIs
  <1>3. PICK m : m = Strs!Find(whole, sep, sdsAt)
    OBVIOUS
  <1>4. PICK y : y = SubSeq(whole, sdsAt, IF m = 0 THEN Len(whole) ELSE m - 1)
    OBVIOUS
  <1>5. PICK q : q = Append(parts, Strs!New(y))
    OBVIOUS
  <1>6. /\ parts' = q
        /\ IF m = 0 THEN sdsPc' = "idle" ELSE sdsAt' = m + Len(sep) /\ sdsPc' = sdsPc
        /\ blocks' = blocks + 1
        /\ sds' = sds /\ content' = content /\ slots' = slots /\ whole' = whole /\ sep' = sep
    BY <1>2, <1>3, <1>4, <1>5 DEF Strs!SplitPart
  <1>7. NextAt(whole, sep, sdsAt, m)
    BY <1>3 DEF NextAt
  <1>8. /\ PartsHeld(q) /\ Len(q) = Len(parts) + 1
        /\ m = 0 => SplitDone(q, whole, sep)
        /\ m # 0 => SplitAt(q, whole, sep, m + Len(sep))
    <2>1. OnePartMore(q, parts, whole, sep, m)
      BY <1>1, <1>4, <1>5, <1>7, SplitPartIs
    <2> QED
      BY <2>1 DEF OnePartMore
  <1>9. Len(parts) \in Nat
    BY <1>1, PartsBytesAre
  <1>10. blocks' \in Int /\ blocks' = (IF sds' = None THEN 0 ELSE 1) + Len(parts')
    BY <1>1, <1>6, <1>8, <1>9 DEF StrInv
  <1>11. SlotsRight'
    <2>1. Len(q) # 0 /\ q # <<>>
      BY <1>8, <1>9
    <2>2. slots' = 1 + Strs!Count(whole', sep')
      BY <1>1, <1>6 DEF StrInv, SlotsRight
    <2> QED
      BY <1>6, <2>1, <2>2 DEF SlotsRight
  <1>12. CASE m = 0
    <2>1. sdsPc' = "idle" /\ sdsPc' # "split" /\ SplitDone(parts', whole', sep')
      BY <1>6, <1>8, <1>12
    <2> QED
      BY <1>6, <1>8, <1>10, <1>11, <2>1 DEF StrInv
  <1>13. CASE m # 0
    <2>1. sdsPc' = "split" /\ sdsPc' # "idle" /\ SplitAt(parts', whole', sep', sdsAt')
      BY <1>1, <1>6, <1>8, <1>13
    <2> QED
      BY <1>1, <1>6, <1>8, <1>10, <1>11, <2>1 DEF StrInv
  <1> QED
    BY <1>12, <1>13

LEMMA StrSplitEnds ==
    ASSUME StrInv, Strs!SplitFails \/ Strs!SplitFree
    PROVE  StrInv'
  <1>1. /\ blocks' = blocks - Len(parts) /\ parts' = <<>> /\ sdsPc' = "idle"
        /\ sds' = sds /\ content' = content /\ slots' = 0
    BY DEF Strs!SplitFails, Strs!SplitFree
  <1>2. Len(parts) \in Nat
    BY PartsBytesAre DEF StrInv
  <1>3. PartsHeld(<<>>) /\ Len(<<>>) = 0
    BY EmptySeq DEF PartsHeld
  <1>4. blocks' \in Int /\ blocks' = (IF sds' = None THEN 0 ELSE 1) + Len(parts')
    BY <1>1, <1>2, <1>3 DEF StrInv
  <1>5. PartsHeld(parts') /\ sdsPc' # "split"
    BY <1>1, <1>3
  <1>6. SlotsRight'
    BY <1>1, <1>5 DEF SlotsRight
  <1> QED
    BY <1>1, <1>4, <1>5, <1>6 DEF StrInv

LEMMA StrJoin ==
    ASSUME StrAssumption, NullIsNoBlock, StrInv, NEW t \in Texts, Strs!Join(t)
    PROVE  StrInv'
  <1>1. PICK e : e = <<>>
    OBVIOUS
  <1>2. PICK u : u = Strs!Joined(PartsBytes(parts), t)
    OBVIOUS
  <1>3. PICK total : total = Strs!TotalLen(PartsBytes(parts), t)
    OBVIOUS
  <1>4. PICK b : b = Strs!Grown(Strs!New(e), total)
    OBVIOUS
  <1>5. PICK n : n = 1
    OBVIOUS
  <1>6. PICK w : w = [b EXCEPT !.buf = Strs!Put(b.buf, 0, Append(u, NUL)), !.len = total]
    OBVIOUS
  <1>7. sds = None /\ parts # <<>> /\ Strs!Becomes(w, n, Strs!Replaced(whole, sep, t))
    BY <1>1, <1>2, <1>3, <1>4, <1>5, <1>6 DEF Strs!Join, PartsBytes
  <1>8. sdsPc = "idle"
    BY <1>7 DEF Strs!Becomes
  <1>9. t \in Seq(StrLetters)
    BY TextIs
  <1>10. PartsHeld(parts) /\ SplitDone(parts, whole, sep)
    BY <1>7, <1>8 DEF StrInv
  <1>11. Strs!Replaced(whole, sep, t) = u /\ u \in Seq(StrLetters)
    BY <1>2, <1>9, <1>10, SplitMeans
  <1>12. Len(u) \in Nat
    BY <1>11, LenProperties
  <1>13. total = Len(u)
    <2>1. PICK q : q = PartsBytes(parts)
      OBVIOUS
    <2>2. q \in Seq(Seq(StrLetters)) /\ Len(q) = Len(parts) /\ Len(parts) \in Nat
      BY <1>10, <2>1, PartsBytesAre
    <2>3. q # <<>>
      <3>1. Len(parts) # 0
        BY <1>7, <1>10, EmptySeq DEF PartsHeld
      <3> QED
        BY <2>2, <3>1, EmptySeq
    <2> QED
      BY <1>2, <1>3, <1>9, <2>1, <2>2, <2>3, TotalIs
  <1>14. e \in Seq(StrLetters) /\ Len(e) = 0
    BY <1>1, EmptySeq
  <1>15. HeldBlock(Strs!New(e), e)
    BY <1>14, NewIs
  <1>16. Strs!New(e).len = 0
    BY <1>14, <1>15, HeldIs
  <1>17. HeldBlock(b, e) /\ 0 + Len(u) <= b.alloc
    BY <1>4, <1>12, <1>13, <1>14, <1>15, <1>16, GrownIs
  <1>18. IsBlock(b) /\ Len(u) <= b.alloc
    BY <1>12, <1>17, HeldIs
  <1>19. w = Strs!Written(b, 0, u)
    <2>1. 0 + Len(u) = total
      BY <1>12, <1>13
    <2> QED
      BY <1>6, <2>1 DEF Strs!Written
  <1>20. HeldBlock(w, u)
    BY <1>11, <1>18, <1>19, WrittenFirst
  <1>21. w # None
    BY <1>20, HeldNotNone
  <1>22. n = (IF w = None THEN 0 ELSE 1) - (IF sds = None THEN 0 ELSE 1)
    BY <1>5, <1>7, <1>21
  <1> QED
    BY <1>7, <1>11, <1>20, <1>22, StrBecomes

LEMMA InitStr ==
    ASSUME Strs!Init
    PROVE  StrInv
  <1>1. /\ sds = None /\ blocks = 0 /\ content = <<>> /\ parts = <<>> /\ slots = 0
        /\ sdsPc = "idle"
    BY DEF Strs!Init
  <1>2. PartsHeld(<<>>) /\ Len(<<>>) = 0 /\ <<>> \in Seq(StrLetters)
    BY EmptySeq DEF PartsHeld
  <1> QED
    BY <1>1, <1>2 DEF StrInv, SlotsRight

LEMMA NextStr ==
    ASSUME StrAssumption, NullIsNoBlock, StrInv, [Strs!Next]_(Strs!vars)
    PROVE  StrInv'
  <1>1. CASE Strs!vars' = Strs!vars
    <2>1. UNCHANGED <<sds, blocks, content, parts, slots, sdsPc, sdsAt, whole, sep>>
      BY <1>1 DEF Strs!vars, Strs!string, Strs!split
    <2> QED
      BY <2>1, StrKeeps
  <1>2. ASSUME NEW t \in Texts,
               Strs!Create(t) \/ \E f \in {0, 1} : Strs!CreateFormatted(f, t)
        PROVE  StrInv'
    BY <1>2, StrCreate
  <1>3. ASSUME NEW t \in Texts, Strs!Cat(t)
        PROVE  StrInv'
    BY <1>3, StrCat
  <1>4. ASSUME NEW t \in Texts, Strs!SplitBegin(t)
        PROVE  StrInv'
    BY <1>4, StrSplitBegin
  <1>5. ASSUME NEW t \in Texts, Strs!Join(t)
        PROVE  StrInv'
    BY <1>5, StrJoin
  <1>6. ASSUME NEW t \in Texts, NEW with \in Texts, Strs!Replace(t, with)
        PROVE  StrInv'
    BY <1>6, StrReplace
  <1>7. ASSUME NEW n \in Reserves, Strs!Reserve(n)
        PROVE  StrInv'
    BY <1>7, StrReserve
  <1>8. ASSUME NEW cset \in CharSets, Strs!Trim(cset)
        PROVE  StrInv'
    BY <1>8, StrTrim
  <1>9. CASE Strs!Dup \/ Strs!Free
    BY <1>9, StrDupFree
  <1>10. CASE Strs!Clear
    BY <1>10, StrClear
  <1>11. CASE Strs!Fails
    <2>1. UNCHANGED <<sds, blocks, content, parts, slots, sdsPc, sdsAt, whole, sep>>
      BY <1>11 DEF Strs!Fails, Strs!string, Strs!split
    <2> QED
      BY <2>1, StrKeeps
  <1>12. CASE Strs!SplitPart
    BY <1>12, StrSplitPart
  <1>13. CASE Strs!SplitFails \/ Strs!SplitFree
    BY <1>13, StrSplitEnds
  <1> QED
    BY <1>1, <1>2, <1>3, <1>4, <1>5, <1>6, <1>7, <1>8, <1>9, <1>10, <1>11, <1>12, <1>13
       DEF Strs!Next

LEMMA StrInvShows ==
    ASSUME StrInv
    PROVE  Strs!StringExact
  <1>1. sds # None => Strs!Holds(sds, content)
    BY DEF StrInv, HeldBlock
  <1>2. blocks = (IF sds = None THEN 0 ELSE 1) + Len(parts)
    BY DEF StrInv
  <1>3. PartsHeld(parts) /\ DOMAIN parts = 1 .. Len(parts)
    BY PartsBytesAre DEF StrInv
  <1>4. ASSUME sdsPc = "idle", parts # <<>>
        PROVE  /\ Strs!Joined(PartsBytes(parts), sep) = whole
               /\ \A i \in 1 .. Len(parts) :
                     /\ Strs!Holds(parts[i], Strs!Bytes(parts[i]))
                     /\ Strs!Find(Strs!Bytes(parts[i]), sep, 1) = 0
    <2>1. SplitDone(parts, whole, sep)
      BY <1>4 DEF StrInv
    <2>2. /\ Strs!Joined(PartsBytes(parts), sep) = whole
          /\ \A i \in 1 .. Len(parts) : Strs!Find(Strs!Bytes(parts[i]), sep, 1) = 0
      BY <1>3, <2>1, SplitMeans
    <2>3. \A i \in 1 .. Len(parts) : Strs!Holds(parts[i], Strs!Bytes(parts[i]))
      BY <1>3 DEF PartsHeld, HeldBlock
    <2> QED
      BY <2>2, <2>3
  <1>5. sdsPc = "split" => Len(parts) < slots
    <2>1. sdsPc = "split" => SplitAt(parts, whole, sep, sdsAt)
                             /\ slots = 1 + Strs!Count(whole, sep)
      BY DEF StrInv, SlotsRight
    <2> QED
      BY <1>3, <2>1, SplitRoom
  <1>6. sdsPc = "idle" => Len(parts) = slots
    <2>1. CASE parts = <<>>
      <3>1. Len(parts) = 0
        BY <2>1, EmptySeq
      <3> QED
        BY <2>1, <3>1 DEF StrInv, SlotsRight
    <2>2. CASE parts # <<>>
      <3>1. sdsPc = "idle" => SplitDone(parts, whole, sep)
                              /\ slots = 1 + Strs!Count(whole, sep)
        BY <2>2 DEF StrInv, SlotsRight
      <3> QED
        BY <1>3, <3>1, SplitFull
    <2> QED
      BY <2>1, <2>2
  <1> QED
    BY <1>1, <1>2, <1>3, <1>4, <1>5, <1>6 DEF Strs!StringExact, PartsBytes

-----------------------------------------------------------------------------
(* The containers side by side *)

\* A step of the sum is a step of each of its parts, or leaves it alone.
LEMMA EachStep ==
    [NextEach]_varsEach => /\ [Heaps!Next]_(Heaps!vars) /\ [Legacy!Next]_(Legacy!vars)
                           /\ [Bits!Next]_(Bits!vars) /\ [Sums!Next]_(Sums!vars)
                           /\ [Seg!Next]_(Seg!vars) /\ [Strs!Next]_(Strs!vars)
  BY DEF NextEach, varsEach, heapVars, legacyVars, bitVars, biVars, segVars, sdsVars,
         Heaps!vars, Legacy!vars, Bits!vars, Bits!bitset, Sums!vars, Sums!bitree, Seg!vars,
         Seg!segtree, Strs!vars, Strs!string, Strs!split

\* Both heaps are in order for every capacity, every size and every set of
\* elements, in every step of a push and a pop too, and the slot that a pop of
\* heap_typed.h borrows behind the end is part of its array.
THEOREM HeapsOrdered == SpecEach => []HeapOrder
  <1>1. InitEach => HP!Inv /\ LegacyInv
    BY HeapsAssumed, HeapInit, HP!InitInv, LegacyInit DEF InitEach
  <1>2. HP!Inv /\ [NextEach]_varsEach => HP!Inv'
    BY EachStep, HeapStep, HP!NextInv
  <1>3. LegacyInv /\ [NextEach]_varsEach => LegacyInv'
    BY EachStep, LegacyStep
  <1>4. HP!Inv /\ LegacyInv => HeapOrder
    BY HeapOrderIs, LegacyOrderIs
       DEF HeapOrder, HP!Inv, LP!Inv, LegacyInv, LegacyShape, Legacy!HeapMatches
  <1> QED
    BY <1>1, <1>2, <1>3, <1>4, PTL DEF SpecEach

\* heap.c shows callers a bag whose pops remove a greatest element, and every
\* step of the macros of heap_typed.h is one of heap.c.
THEOREM HeapsImplementBags == SpecEach => ImplementsBag
  <1>1. InitEach => HP!Inv /\ Heaps!Bag!Init /\ LegacyInv /\ Legacy!H!Init
    BY HeapsAssumed, HeapInit, HP!InitInv, HP!BagStart, BagInit,
       LegacyInit, LegacyInitIs DEF InitEach
  <1>2. HP!Inv /\ [NextEach]_varsEach
        => HP!Inv' /\ [Heaps!Bag!Next]_(Heaps!Bag!bagVars)
    BY EachStep, HeapStep, HP!NextInv, HP!NextStep, BagNext
  <1>3. LegacyInv /\ [NextEach]_varsEach
        => LegacyInv' /\ [Legacy!H!Next]_(Legacy!H!vars)
    BY EachStep, LegacyStep, LegacyNextIs
  <1>4. SpecEach => Heaps!Bag!Spec /\ Legacy!H!Spec
    BY <1>1, <1>2, <1>3, PTL DEF SpecEach, Heaps!Bag!Spec, Legacy!H!Spec
  <1> QED
    BY <1>4 DEF ImplementsBag, Heaps!ImplementsBag, Legacy!ImplementsHeap

\* The bytes of a bitset of any size, in bytes of any width, are those of the
\* positions that are on, and every question is answered from them as from
\* the set: no operation leaves a bit on beyond the size.
THEOREM BitsMatchHold == SpecEach => []BitsMatch
  <1>1. InitEach => BitInv
    BY InitBits DEF InitEach
  <1>2. BitInv /\ [NextEach]_varsEach => BitInv'
    BY EachStep, NextBits
  <1>3. BitInv => BitsMatch
    BY BitsMean DEF BitsMatch
  <1> QED
    BY <1>1, <1>2, <1>3, PTL DEF SpecEach

\* In a Fenwick tree of any size, the sum of every range is that of the values
\* stored there: an update reaches just the nodes that count the index, and a
\* query adds up nodes that count every index once.
THEOREM SumsExactHold == SpecEach => []SumsExact
  <1>1. InitEach => SumInv
    BY DEF InitEach, Sums!Init, SumInv
  <1>2. SumInv /\ [NextEach]_varsEach => SumInv'
    BY EachStep, SumInvHolds
  <1>3. SumInv => SumsExact
    BY SumsFollow DEF SumsExact
  <1> QED
    BY <1>1, <1>2, <1>3, PTL DEF SpecEach

\* In a segment tree of any size, over elements of any kind, a query that meets
\* no node that a failed merge has left behind answers with the values of its
\* range, merged in their order, and every other node is the merge of its
\* children: what a failed merge spoils are the nodes above it, and no others.
THEOREM QueriesFoldHold == SpecEach => []QueriesFold
  <1>1. InitEach => SegInv
    BY InitSeg DEF InitEach
  <1>2. SegInv /\ [NextEach]_varsEach => SegInv'
    BY EachStep, NextKeeps
  <1>3. SegInv => QueriesFold
    BY SegInvShows DEF QueriesFold
  <1> QED
    BY <1>1, <1>2, <1>3, PTL DEF SpecEach

\* The strings of any length, of any bytes, are what the calls made of them,
\* through growth and failures: the lengths that replacing and joining compute
\* before they write are those of what they write, and splitting loses nothing
\* and fills just the array it has counted.
THEOREM StringExactHold ==
    ASSUME NullIsNoBlock
    PROVE  SpecEach => []StringExact
  <1>1. InitEach => StrInv
    BY InitStr DEF InitEach
  <1>2. StrInv /\ [NextEach]_varsEach => StrInv'
    BY EachStep, NextStr, StrAssumption
  <1>3. StrInv => StringExact
    BY StrInvShows DEF StringExact
  <1> QED
    BY <1>1, <1>2, <1>3, PTL DEF SpecEach
=============================================================================
