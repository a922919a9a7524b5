-------------------------- MODULE ContainerLemmas --------------------------
(* What the proofs about containers keep needing: how the number of slots   *)
(* that hold an element changes when one slot does, when the slots move, or *)
(* when a sequence takes in one more element; and which sequence one gets   *)
(* by such a change.                                                        *)
EXTENDS Integers, Sequences, FiniteSets, FiniteSetTheorems, SequenceTheorems,
        WellFoundedInduction, TLAPS

-----------------------------------------------------------------------------
(* Counting *)

\* Two sets that agree but for b differ in size by whether they hold it.
LEMMA CountOneChange ==
    ASSUME NEW S, NEW T, NEW b, IsFiniteSet(S), S \ {b} = T \ {b}
    PROVE  /\ IsFiniteSet(T)
           /\ Cardinality(S) \in Nat /\ Cardinality(T) \in Nat
           /\ Cardinality(T) = Cardinality(S) - (IF b \in S THEN 1 ELSE 0)
                                              + (IF b \in T THEN 1 ELSE 0)
  <1> DEFINE R == S \ {b}
  <1>1. IsFiniteSet(R) /\ Cardinality(R) \in Nat
    BY FS_Subset, FS_CardinalityType
  <1>2. Cardinality(S) = Cardinality(R) + (IF b \in S THEN 1 ELSE 0)
    <2>1. CASE b \in S
      <3>1. S = R \cup {b} /\ b \notin R
        BY <2>1
      <3> HIDE DEF R
      <3> QED
        BY <1>1, <2>1, <3>1, FS_AddElement
    <2>2. CASE b \notin S
      BY <1>1, <2>2
    <2> QED
      BY <2>1, <2>2
  <1>3. IsFiniteSet(T) /\ Cardinality(T) = Cardinality(R) + (IF b \in T THEN 1 ELSE 0)
    <2>1. CASE b \in T
      <3>1. T = R \cup {b} /\ b \notin R
        BY <2>1
      <3> HIDE DEF R
      <3> QED
        BY <1>1, <2>1, <3>1, FS_AddElement
    <2>2. CASE b \notin T
      <3>1. T = R
        BY <2>2
      <3> HIDE DEF R
      <3> QED
        BY <1>1, <2>2, <3>1
    <2> QED
      BY <2>1, <2>2
  <1> HIDE DEF R
  <1> QED
    BY <1>1, <1>2, <1>3

\* A set whose members moved one to one is as large as before.
LEMMA CountMoved ==
    ASSUME NEW S, NEW T, IsFiniteSet(S), NEW f \in [S -> T],
           \A x, y \in S : f[x] = f[y] => x = y,
           \A t \in T : \E x \in S : f[x] = t
    PROVE  /\ IsFiniteSet(T)
           /\ Cardinality(S) \in Nat
           /\ Cardinality(T) = Cardinality(S)
  <1>1. f \in Bijection(S, T)
    BY DEF Bijection, Injection, Surjection, IsInjective
  <1>2. ExistsBijection(S, T)
    BY <1>1 DEF ExistsBijection
  <1> QED
    BY <1>2, FS_Bijection, FS_CardinalityType

\* The positions of a sequence of m elements, and those that hold e.
LEMMA PositionsFinite ==
    ASSUME NEW m \in Nat, NEW s, NEW e
    PROVE  /\ IsFiniteSet({n \in 1 .. m : s[n] = e})
           /\ Cardinality({n \in 1 .. m : s[n] = e}) \in Nat
  <1>1. IsFiniteSet(1 .. m)
    BY FS_Interval
  <1>2. {n \in 1 .. m : s[n] = e} \subseteq 1 .. m
    OBVIOUS
  <1> QED
    BY <1>1, <1>2, FS_Subset, FS_CardinalityType

\* How often e occurs among the first m elements of s.
Occurrences(m, s, e) == Cardinality({n \in 1 .. m : s[n] = e})

\* t is s, of m elements, with one more at j; with another one at j; in
\* another order.
OneMore(m, s, t, j) == \A n \in 1 .. m : t[IF n < j THEN n ELSE n + 1] = s[n]
OneOther(m, s, t, j) == \A n \in 1 .. m : n # j => t[n] = s[n]
Permuted(m, s, t, p) ==
    /\ p \in [1 .. m -> 1 .. m]
    /\ \A x, y \in 1 .. m : p[x] = p[y] => x = y
    /\ \A n \in 1 .. m : t[n] = s[p[n]]

\* One more element counts once.
LEMMA CountInsert ==
    ASSUME NEW m \in Nat, NEW s, NEW t, NEW j \in 1 .. m + 1, NEW e,
           OneMore(m, s, t, j)
    PROVE  /\ Occurrences(m, s, e) \in Nat
           /\ Occurrences(m + 1, t, e)
                = Occurrences(m, s, e) + (IF t[j] = e THEN 1 ELSE 0)
  <1> DEFINE S == {n \in 1 .. m : s[n] = e}
             T == {n \in 1 .. m + 1 : t[n] = e}
             R == T \ {j}
             g(n) == IF n < j THEN n ELSE n + 1
             f == [n \in S |-> g(n)]
  <1>1. IsFiniteSet(S) /\ Cardinality(S) \in Nat
    BY PositionsFinite
  <1>2. f \in [S -> R]
    <2>1. ASSUME NEW n \in S PROVE g(n) \in R
      <3>1. n \in 1 .. m /\ s[n] = e
        OBVIOUS
      <3>2. g(n) \in 1 .. m + 1 /\ g(n) # j
        BY <3>1
      <3>3. t[g(n)] = e
        BY <3>1 DEF OneMore
      <3> QED
        BY <3>2, <3>3
    <2> QED
      BY <2>1
  <1>3. \A x, y \in S : f[x] = f[y] => x = y
    OBVIOUS
  <1>4. ASSUME NEW r \in R PROVE \E n \in S : f[n] = r
    <2>1. r \in 1 .. m + 1 /\ r # j /\ t[r] = e
      OBVIOUS
    <2> DEFINE n == IF r < j THEN r ELSE r - 1
    <2>2. n \in 1 .. m /\ g(n) = r
      BY <2>1
    <2>3. n \in S
      BY <2>1, <2>2 DEF OneMore
    <2> QED
      BY <2>2, <2>3
  <1> HIDE DEF f
  <1>5. IsFiniteSet(R) /\ Cardinality(R) = Cardinality(S)
    BY <1>1, <1>2, <1>3, <1>4, CountMoved
  <1>6. R \ {j} = T \ {j} /\ j \notin R
    OBVIOUS
  <1>7. j \in T <=> t[j] = e
    OBVIOUS
  <1> HIDE DEF S, T, R
  <1>8. Cardinality(T) = Cardinality(R) + (IF j \in T THEN 1 ELSE 0)
    BY <1>5, <1>6, CountOneChange
  <1>9. Cardinality(T) = Cardinality(S) + (IF t[j] = e THEN 1 ELSE 0)
    BY <1>5, <1>7, <1>8
  <1> QED
    BY <1>1, <1>9 DEF S, T, Occurrences

\* Another element at j may change the count by one.
LEMMA CountReplace ==
    ASSUME NEW m \in Nat, NEW s, NEW t, NEW j \in 1 .. m, NEW e,
           OneOther(m, s, t, j)
    PROVE  /\ Occurrences(m, s, e) \in Nat
           /\ Occurrences(m, t, e)
                = Occurrences(m, s, e)
                    - (IF s[j] = e THEN 1 ELSE 0) + (IF t[j] = e THEN 1 ELSE 0)
  <1> DEFINE S == {n \in 1 .. m : s[n] = e}
             T == {n \in 1 .. m : t[n] = e}
  <1>1. IsFiniteSet(S) /\ Cardinality(S) \in Nat
    BY PositionsFinite
  <1>2. S \ {j} = T \ {j}
    BY DEF OneOther
  <1>3. (j \in S <=> s[j] = e) /\ (j \in T <=> t[j] = e)
    OBVIOUS
  <1> HIDE DEF S, T
  <1>4. Cardinality(T) = Cardinality(S) - (IF j \in S THEN 1 ELSE 0)
                                        + (IF j \in T THEN 1 ELSE 0)
    BY <1>1, <1>2, CountOneChange
  <1>5. Cardinality(T) = Cardinality(S) - (IF s[j] = e THEN 1 ELSE 0)
                                        + (IF t[j] = e THEN 1 ELSE 0)
    BY <1>3, <1>4
  <1> QED
    BY <1>1, <1>5 DEF S, T, Occurrences

\* Another order does not.
LEMMA CountPermuted ==
    ASSUME NEW m \in Nat, NEW s, NEW t, NEW e, NEW p, Permuted(m, s, t, p)
    PROVE  Occurrences(m, t, e) = Occurrences(m, s, e)
  <1> DEFINE S == {n \in 1 .. m : s[n] = e}
             T == {n \in 1 .. m : t[n] = e}
             f == [n \in T |-> p[n]]
  <1>0. /\ p \in [1 .. m -> 1 .. m]
        /\ \A x, y \in 1 .. m : p[x] = p[y] => x = y
        /\ \A n \in 1 .. m : t[n] = s[p[n]]
    BY DEF Permuted
  <1>1. IsFiniteSet(T) /\ IsFiniteSet(1 .. m)
    <2>1. IsFiniteSet(1 .. m)
      BY FS_Interval
    <2>2. T \in SUBSET (1 .. m)
      OBVIOUS
    <2> HIDE DEF T
    <2>3. IsFiniteSet(T)
      BY <2>1, <2>2, FS_Subset
    <2> QED
      BY <2>1, <2>3
  <1>2. \A n \in 1 .. m : \E x \in 1 .. m : p[x] = n
    <2>1. p \in Injection(1 .. m, 1 .. m)
      BY <1>0 DEF Injection, IsInjective
    <2>2. p \in Surjection(1 .. m, 1 .. m)
      BY <1>1, <2>1, FS_Injection
    <2> QED
      BY <2>2 DEF Surjection
  <1>3. f \in [T -> S]
    BY <1>0
  <1>4. \A x, y \in T : f[x] = f[y] => x = y
    BY <1>0
  <1>5. ASSUME NEW n \in S PROVE \E x \in T : f[x] = n
    <2>1. n \in 1 .. m /\ s[n] = e
      OBVIOUS
    <2>2. PICK x \in 1 .. m : p[x] = n
      BY <1>2, <2>1
    <2>3. x \in T
      BY <1>0, <2>1, <2>2
    <2> QED
      BY <2>2, <2>3
  <1> HIDE DEF f
  <1>6. \A n \in S : \E x \in T : f[x] = n
    BY <1>5
  <1> HIDE DEF S, T
  <1>7. Cardinality(S) = Cardinality(T)
    BY <1>1, <1>3, <1>4, <1>6, CountMoved
  <1> QED
    BY <1>7 DEF S, T, Occurrences

\* How often e occurs in the slots U of an array.
OccurrencesIn(U, s, e) == Cardinality({i \in U : s[i] = e})

\* Array t uses the slots V, which are those that s uses, U, and b.
OneSlotMore(U, V, s, t, b) ==
    /\ b \notin U /\ V = U \cup {b}
    /\ \A i \in U : t[i] = s[i]

\* One more slot counts once.
LEMMA CountOneMore ==
    ASSUME NEW U, NEW V, IsFiniteSet(U), NEW b, NEW s, NEW t, NEW e,
           OneSlotMore(U, V, s, t, b)
    PROVE  /\ OccurrencesIn(U, s, e) \in Nat
           /\ OccurrencesIn(V, t, e)
                = OccurrencesIn(U, s, e) + (IF t[b] = e THEN 1 ELSE 0)
  <1> DEFINE S == {i \in U : s[i] = e}
             T == {i \in V : t[i] = e}
  <1>1. IsFiniteSet(S)
    BY FS_Subset, S \subseteq U
  <1>2. S \ {b} = T \ {b} /\ b \notin S /\ (b \in T <=> t[b] = e)
    BY DEF OneSlotMore
  <1>3. OccurrencesIn(U, s, e) = Cardinality(S)
        /\ OccurrencesIn(V, t, e) = Cardinality(T)
    BY DEF OccurrencesIn
  <1> HIDE DEF S, T
  <1>4. /\ Cardinality(S) \in Nat
        /\ Cardinality(T) = Cardinality(S) - 0 + (IF b \in T THEN 1 ELSE 0)
    BY <1>1, <1>2, CountOneChange
  <1> QED  BY <1>2, <1>3, <1>4

\* Slots that moved one to one hold the same.
LEMMA CountRearranged ==
    ASSUME NEW U, NEW V, IsFiniteSet(U), IsFiniteSet(V), NEW s, NEW t, NEW e,
           NEW p \in [V -> U],
           \A x, y \in V : p[x] = p[y] => x = y,
           \A x \in U : \E y \in V : p[y] = x,
           \A y \in V : t[y] = s[p[y]]
    PROVE  OccurrencesIn(V, t, e) = OccurrencesIn(U, s, e)
  <1> DEFINE S == {i \in U : s[i] = e}
             T == {i \in V : t[i] = e}
             f == [i \in T |-> p[i]]
  <1>1. IsFiniteSet(T)
    BY FS_Subset, T \subseteq V
  <1>2. /\ f \in [T -> S]
        /\ \A x, y \in T : f[x] = f[y] => x = y
        /\ \A x \in S : \E y \in T : f[y] = x
    OBVIOUS
  <1>3. OccurrencesIn(U, s, e) = Cardinality(S)
        /\ OccurrencesIn(V, t, e) = Cardinality(T)
    BY DEF OccurrencesIn
  <1> HIDE DEF S, T, f
  <1>4. Cardinality(S) = Cardinality(T)
    BY <1>1, <1>2, CountMoved
  <1> QED  BY <1>3, <1>4

\* In particular when two of them exchange what they hold.
LEMMA CountSwapped ==
    ASSUME NEW U, IsFiniteSet(U), NEW a \in U, NEW b \in U, NEW s, NEW t, NEW e,
           t[a] = s[b], t[b] = s[a],
           \A i \in U \ {a, b} : t[i] = s[i]
    PROVE  OccurrencesIn(U, t, e) = OccurrencesIn(U, s, e)
  <1> DEFINE p == [i \in U |-> IF i = a THEN b ELSE IF i = b THEN a ELSE i]
  <1>1. /\ p \in [U -> U]
        /\ \A x, y \in U : p[x] = p[y] => x = y
        /\ \A y \in U : t[y] = s[p[y]]
    OBVIOUS
  <1>2. \A x \in U : \E y \in U : p[y] = x
    <2>1. \A x \in U : p[x] \in U /\ p[p[x]] = x
      OBVIOUS
    <2> QED  BY <2>1
  <1> HIDE DEF p
  <1> QED  BY <1>1, <1>2, CountRearranged

-----------------------------------------------------------------------------
(* Least and greatest members, for what would be proved by induction *)

\* A finite set of integers, unless empty, has a least member.
LEMMA LeastMember ==
    ASSUME NEW T, T \subseteq Int, T # {}, IsFiniteSet(T)
    PROVE  \E m \in T : \A n \in T : m <= n
  <1> DEFINE D(n) == {k \in T : k < n}
             DD == {D(n) : n \in T}
  <1>1. DD \subseteq FiniteSubsetsOf(T) /\ DD # {}
    <2>1. ASSUME NEW n \in T
          PROVE  D(n) \in FiniteSubsetsOf(T)
      BY FS_Subset, D(n) \subseteq T DEF FiniteSubsetsOf
    <2> QED  BY <2>1
  <1>2. IsWellFoundedOn(StrictSubsetOrdering(T), FiniteSubsetsOf(T))
    BY FS_StrictSubsetOrderingWellFounded
  <1>3. PICK d \in DD : \A c \in DD : <<c, d>> \notin StrictSubsetOrdering(T)
    <2> HIDE DEF DD
    <2> QED  BY <1>1, <1>2, WFMin
  <1>4. PICK m \in T : d = D(m)
    OBVIOUS
  <1>5. ASSUME NEW n \in T, n < m
        PROVE  FALSE
    <2>1. D(n) \subseteq D(m) /\ D(n) # D(m)
      <3>1. n \in D(m) /\ n \notin D(n)
        BY <1>5
      <3>2. \A k \in T : k < n => k < m
        BY <1>5
      <3> QED  BY <3>1, <3>2
    <2>2. <<D(n), D(m)>> \in StrictSubsetOrdering(T)
      BY <2>1 DEF StrictSubsetOrdering
    <2> QED  BY <2>2, <1>3, <1>4
  <1> QED  BY <1>5

\* So has every set of natural numbers: what fails somewhere first fails
\* somewhere.
LEMMA LeastNatural ==
    ASSUME NEW T, T \subseteq Nat, T # {}
    PROVE  \E m \in T : \A n \in T : m <= n
  <1>1. PICK x \in T : TRUE
    OBVIOUS
  <1> DEFINE B == {k \in T : k <= x}
  <1>2. IsFiniteSet(B) /\ B \subseteq Int /\ x \in B
    <2>1. x \in Nat
      BY <1>1
    <2>2. x <= x
      BY <2>1
    <2>3. ASSUME NEW k \in B
          PROVE  k \in 0 .. x
      <3>1. k \in Nat /\ k <= x
        OBVIOUS
      <3> QED  BY <3>1, <2>1
    <2>4. IsFiniteSet(0 .. x)
      BY <2>1, FS_Interval
    <2>5. IsFiniteSet(B)
      <3> HIDE DEF B
      <3> QED  BY <2>3, <2>4, FS_Subset, B \subseteq 0 .. x
    <2>6. ASSUME NEW k \in B
          PROVE  k \in Int
      <3>1. k \in Nat
        OBVIOUS
      <3> QED  BY <3>1
    <2>7. x \in B
      BY <2>2
    <2> HIDE DEF B
    <2> QED  BY <2>5, <2>6, <2>7
  <1>3. PICK m \in B : \A n \in B : m <= n
    <2> HIDE DEF B
    <2> QED  BY <1>2, LeastMember
  <1>4. ASSUME NEW n \in T
        PROVE  m <= n
    <2>1. m \in Nat /\ n \in Nat /\ x \in Nat /\ m <= x
      BY <1>1
    <2> QED  BY <2>1, <1>3
  <1> QED  BY <1>4

\* And a finite set of integers has a greatest member.
LEMMA GreatestMember ==
    ASSUME NEW T, T \subseteq Int, T # {}, IsFiniteSet(T)
    PROVE  \E m \in T : \A n \in T : n <= m
  <1> DEFINE D(n) == {k \in T : n < k}
             DD == {D(n) : n \in T}
  <1>1. DD \subseteq FiniteSubsetsOf(T) /\ DD # {}
    <2>1. ASSUME NEW n \in T
          PROVE  D(n) \in FiniteSubsetsOf(T)
      BY FS_Subset, D(n) \subseteq T DEF FiniteSubsetsOf
    <2> QED  BY <2>1
  <1>2. IsWellFoundedOn(StrictSubsetOrdering(T), FiniteSubsetsOf(T))
    BY FS_StrictSubsetOrderingWellFounded
  <1>3. PICK d \in DD : \A c \in DD : <<c, d>> \notin StrictSubsetOrdering(T)
    <2> HIDE DEF DD
    <2> QED  BY <1>1, <1>2, WFMin
  <1>4. PICK m \in T : d = D(m)
    OBVIOUS
  <1>5. ASSUME NEW n \in T, m < n
        PROVE  FALSE
    <2>1. D(n) \subseteq D(m) /\ D(n) # D(m)
      <3>1. n \in D(m) /\ n \notin D(n)
        BY <1>5
      <3>2. \A k \in T : n < k => m < k
        BY <1>5
      <3> QED  BY <3>1, <3>2
    <2>2. <<D(n), D(m)>> \in StrictSubsetOrdering(T)
      BY <2>1 DEF StrictSubsetOrdering
    <2> QED  BY <2>2, <1>3, <1>4
  <1> QED  BY <1>5

-----------------------------------------------------------------------------
(* Sequences given by their elements *)

\* A function on 1 .. m is a sequence.
LEMMA SequenceOf ==
    ASSUME NEW S, NEW m \in Nat, NEW s \in [1 .. m -> S]
    PROVE  s \in Seq(S) /\ Len(s) = m
  <1>1. s \in Seq(S)
    BY SeqDef
  <1>2. Len(s) \in Nat /\ DOMAIN s = 1 .. Len(s)
    BY <1>1, LenProperties
  <1>3. 1 .. m = 1 .. Len(s)
    BY <1>2
  <1>4. \A x, y \in Nat : 1 .. x = 1 .. y => x = y
    <2> SUFFICES ASSUME NEW x \in Nat, NEW y \in Nat, 1 .. x = 1 .. y, x < y
                 PROVE  FALSE
      OBVIOUS
    <2>1. y \in 1 .. y
      OBVIOUS
    <2> QED
      BY <2>1
  <1> QED
    BY <1>1, <1>2, <1>3, <1>4

\* A sequence without elements.
LEMMA EmptyIs ==
    ASSUME NEW S, NEW s \in [1 .. 0 -> S]
    PROVE  s = <<>>
  OBVIOUS

\* t is s with one more element at its end; s is then t without its last.
LEMMA AppendIs ==
    ASSUME NEW S, NEW m \in Nat, NEW s \in [1 .. m -> S],
           NEW t \in [1 .. m + 1 -> S], \A n \in 1 .. m : t[n] = s[n]
    PROVE  /\ t = Append(s, t[m + 1])
           /\ s = SubSeq(t, 1, Len(t) - 1)
  <1>1. s \in Seq(S) /\ Len(s) = m /\ t \in Seq(S) /\ Len(t) = m + 1
    BY SequenceOf
  <1>2. t[m + 1] \in S
    OBVIOUS
  <1>3. t = Append(s, t[m + 1])
    <2> DEFINE u == Append(s, t[m + 1])
    <2>1. /\ u \in Seq(S) /\ Len(u) = m + 1
          /\ \A n \in 1 .. m : u[n] = s[n]
          /\ u[m + 1] = t[m + 1]
      BY <1>1, <1>2, AppendProperties
    <2> HIDE DEF u
    <2>2. \A n \in 1 .. m + 1 : u[n] = t[n]
      BY <2>1
    <2>3. u = t
      BY <1>1, <2>1, <2>2, SeqEqual
    <2> QED
      BY <2>3 DEF u
  <1>4. s = SubSeq(t, 1, m)
    <2> DEFINE u == SubSeq(t, 1, m)
    <2>1. \A n \in 1 .. m : t[n] \in S
      OBVIOUS
    <2>2. /\ u \in Seq(S) /\ Len(u) = m
          /\ \A n \in 1 .. m : u[n] = t[n]
      BY <2>1, SubSeqProperties
    <2> HIDE DEF u
    <2>3. u = s
      BY <1>1, <2>2, SeqEqual
    <2> QED
      BY <2>3 DEF u
  <1> QED
    BY <1>1, <1>3, <1>4

\* t is s with one more element at its front; s is then the tail of t.
LEMMA ConsIs ==
    ASSUME NEW S, NEW m \in Nat, NEW s \in [1 .. m -> S],
           NEW t \in [1 .. m + 1 -> S], \A n \in 1 .. m : t[n + 1] = s[n]
    PROVE  t = <<t[1]>> \o s /\ s = Tail(t)
  <1>1. s \in Seq(S) /\ Len(s) = m /\ t \in Seq(S) /\ Len(t) = m + 1
    BY SequenceOf
  <1>2. t[1] \in S /\ <<t[1]>> \in Seq(S) /\ Len(<<t[1]>>) = 1 /\ <<t[1]>>[1] = t[1]
    OBVIOUS
  <1>3. t = <<t[1]>> \o s
    <2> DEFINE u == <<t[1]>> \o s
    <2>1. /\ u \in Seq(S) /\ Len(u) = 1 + m
          /\ \A n \in 1 .. 1 + m :
                u[n] = IF n <= 1 THEN <<t[1]>>[n] ELSE s[n - 1]
      BY <1>1, <1>2, ConcatProperties
    <2> HIDE DEF u
    <2>2. \A n \in 1 .. m + 1 : u[n] = t[n]
      <3> TAKE n \in 1 .. m + 1
      <3>1. CASE n = 1
        BY <1>2, <2>1, <3>1
      <3>2. CASE n # 1
        <4>1. n - 1 \in 1 .. m /\ ~ (n <= 1)
          BY <3>2
        <4> QED
          BY <2>1, <4>1
      <3> QED
        BY <3>1, <3>2
    <2>3. u = t
      BY <1>1, <2>1, <2>2, SeqEqual
    <2> QED
      BY <2>3 DEF u
  <1>4. t # <<>>
    BY <1>1
  <1>5. s = Tail(t)
    <2>1. /\ Tail(t) \in Seq(S) /\ Len(Tail(t)) = m
          /\ \A n \in 1 .. m : Tail(t)[n] = t[n + 1]
      BY <1>1, <1>4, HeadTailProperties
    <2> QED
      BY <1>1, <2>1, SeqEqual
  <1> QED
    BY <1>3, <1>5

\* s is the beginning of t, or all of it.
LEMMA PrefixIs ==
    ASSUME NEW S, NEW m \in Nat, NEW s \in [1 .. m -> S], NEW t \in Seq(S),
           m <= Len(t), \A n \in 1 .. m : s[n] = t[n]
    PROVE  /\ Len(s) <= Len(t)
           /\ SubSeq(s, 1, Len(s)) = SubSeq(t, 1, Len(s))
           /\ s = t <=> m = Len(t)
  <1>1. s \in Seq(S) /\ Len(s) = m /\ Len(t) \in Nat
    BY SequenceOf, LenProperties
  <1>2. SubSeq(s, 1, m) = SubSeq(t, 1, m)
    <2> DEFINE u == SubSeq(s, 1, m)
               v == SubSeq(t, 1, m)
    <2>1. \A n \in 1 .. m : s[n] \in S /\ t[n] \in S
      OBVIOUS
    <2>2. /\ u \in Seq(S) /\ Len(u) = m
          /\ \A n \in 1 .. m : u[n] = s[n]
      BY <2>1, SubSeqProperties
    <2>3. /\ v \in Seq(S) /\ Len(v) = m
          /\ \A n \in 1 .. m : v[n] = t[n]
      BY <2>1, SubSeqProperties
    <2> HIDE DEF u, v
    <2>4. u = v
      BY <2>2, <2>3, SeqEqual
    <2> QED
      BY <2>4 DEF u, v
  <1>3. ASSUME m = Len(t) PROVE s = t
    BY <1>1, <1>3, SeqEqual
  <1>4. s = t => m = Len(t)
    BY <1>1
  <1> QED
    BY <1>1, <1>2, <1>3, <1>4

\* t is s with one more element at j; s is then t without it.
LEMMA InsertIs ==
    ASSUME NEW S, NEW m \in Nat, NEW s \in [1 .. m -> S],
           NEW t \in [1 .. m + 1 -> S], NEW j \in 1 .. m + 1, OneMore(m, s, t, j)
    PROVE  /\ t = SubSeq(s, 1, j - 1) \o <<t[j]>> \o SubSeq(s, j, Len(s))
           /\ s = SubSeq(t, 1, j - 1) \o SubSeq(t, j + 1, Len(t))
  <1>1. s \in Seq(S) /\ Len(s) = m /\ t \in Seq(S) /\ Len(t) = m + 1
    BY SequenceOf
  <1>2. t[j] \in S /\ j - 1 \in Nat /\ j - 1 <= m /\ j \in Nat /\ j # 0
    OBVIOUS
  <1>3. \A n \in 1 .. m : t[IF n < j THEN n ELSE n + 1] = s[n]
    BY DEF OneMore
  <1> DEFINE a == SubSeq(s, 1, j - 1)
             b == SubSeq(s, j, m)
             c == SubSeq(t, 1, j - 1)
             d == SubSeq(t, j + 1, m + 1)
             e == <<t[j]>>
             u == a \o e
  <1>4. /\ a \in Seq(S) /\ Len(a) = j - 1
        /\ \A n \in 1 .. j - 1 : a[n] = s[n]
    <2>1. \A n \in 1 .. j - 1 : s[n] \in S
      OBVIOUS
    <2> QED
      BY <1>2, <2>1, SubSeqProperties
  <1>5. /\ b \in Seq(S) /\ Len(b) = m - j + 1
        /\ \A n \in 1 .. m - j + 1 : b[n] = s[j + n - 1]
    <2>1. \A n \in j .. m : s[n] \in S
      OBVIOUS
    <2>2. /\ b \in Seq(S) /\ Len(b) = IF j <= m THEN m - j + 1 ELSE 0
          /\ \A n \in 1 .. m - j + 1 : b[n] = s[j + n - 1]
      BY <1>2, <2>1, SubSeqProperties
    <2> QED
      BY <1>2, <2>2
  <1>6. /\ c \in Seq(S) /\ Len(c) = j - 1
        /\ \A n \in 1 .. j - 1 : c[n] = t[n]
    <2>1. \A n \in 1 .. j - 1 : t[n] \in S
      OBVIOUS
    <2> QED
      BY <1>2, <2>1, SubSeqProperties
  <1>7. /\ d \in Seq(S) /\ Len(d) = m - j + 1
        /\ \A n \in 1 .. m - j + 1 : d[n] = t[j + n]
    <2>1. \A n \in j + 1 .. m + 1 : t[n] \in S
      OBVIOUS
    <2>2. /\ d \in Seq(S) /\ Len(d) = IF j + 1 <= m + 1 THEN m + 1 - (j + 1) + 1 ELSE 0
          /\ \A n \in 1 .. m + 1 - (j + 1) + 1 : d[n] = t[j + 1 + n - 1]
      BY <1>2, <2>1, SubSeqProperties
    <2>3. m + 1 - (j + 1) + 1 = m - j + 1 /\ \A n \in Int : j + 1 + n - 1 = j + n
      BY <1>2
    <2> QED
      BY <1>2, <2>2, <2>3
  <1>8. e \in Seq(S) /\ Len(e) = 1 /\ e[1] = t[j]
    BY <1>2
  <1> HIDE DEF a, b, c, d, e
  <1>9. /\ u \in Seq(S) /\ Len(u) = j
        /\ \A n \in 1 .. j : u[n] = IF n < j THEN s[n] ELSE t[j]
    <2>1. /\ u \in Seq(S) /\ Len(u) = (j - 1) + 1
          /\ \A n \in 1 .. (j - 1) + 1 :
                u[n] = IF n <= j - 1 THEN a[n] ELSE e[n - (j - 1)]
      <3>1. /\ u \in Seq(S) /\ Len(u) = Len(a) + Len(e)
            /\ \A n \in 1 .. Len(a) + Len(e) :
                  u[n] = IF n <= Len(a) THEN a[n] ELSE e[n - Len(a)]
        <4>1. a \in Seq(S) /\ e \in Seq(S)
          BY <1>4, <1>8
        <4> QED
          BY <4>1, ConcatProperties
      <3> HIDE DEF u
      <3>2. Len(a) = j - 1 /\ Len(e) = 1
        BY <1>4, <1>8
      <3> QED
        BY <3>1, <3>2
    <2> HIDE DEF u
    <2>2. ASSUME NEW n \in 1 .. j PROVE u[n] = IF n < j THEN s[n] ELSE t[j]
      <3>1. n \in 1 .. (j - 1) + 1
        OBVIOUS
      <3>2. CASE n < j
        BY <1>4, <2>1, <3>1, <3>2
      <3>3. CASE ~ (n < j)
        <4>1. n = j /\ n - (j - 1) = 1 /\ ~ (n <= j - 1)
          BY <3>3
        <4> QED
          BY <1>8, <2>1, <3>1, <4>1
      <3> QED
        BY <3>2, <3>3
    <2>3. (j - 1) + 1 = j
      BY <1>2
    <2> QED
      BY <2>1, <2>2, <2>3
  <1> HIDE DEF u
  <1>10. t = u \o b
    <2> DEFINE w == u \o b
    <2>1. /\ w \in Seq(S) /\ Len(w) = j + (m - j + 1)
          /\ \A n \in 1 .. j + (m - j + 1) : w[n] = IF n <= j THEN u[n] ELSE b[n - j]
      <3>1. /\ w \in Seq(S) /\ Len(w) = Len(u) + Len(b)
            /\ \A n \in 1 .. Len(u) + Len(b) :
                  w[n] = IF n <= Len(u) THEN u[n] ELSE b[n - Len(u)]
        <4>1. u \in Seq(S) /\ b \in Seq(S)
          BY <1>5, <1>9
        <4> QED
          BY <4>1, ConcatProperties
      <3> HIDE DEF w
      <3>2. Len(u) = j /\ Len(b) = m - j + 1
        BY <1>5, <1>9
      <3> QED
        BY <3>1, <3>2
    <2>2. j + (m - j + 1) = m + 1
      BY <1>2
    <2> HIDE DEF w
    <2>3. ASSUME NEW n \in 1 .. m + 1 PROVE w[n] = t[n]
      <3>1. CASE n < j
        <4>1. n \in 1 .. m /\ n \in 1 .. j /\ n <= j
          BY <3>1
        <4> QED
          BY <1>3, <1>9, <2>1, <2>2, <3>1, <4>1
      <3>2. CASE n = j
        <4>1. n \in 1 .. j /\ n <= j /\ ~ (n < j)
          BY <3>2
        <4> QED
          BY <1>9, <2>1, <2>2, <3>2, <4>1
      <3>3. CASE n > j
        <4>1. /\ n - 1 \in 1 .. m /\ ~ (n - 1 < j) /\ (n - 1) + 1 = n /\ ~ (n <= j)
              /\ n - j \in 1 .. m - j + 1 /\ j + (n - j) - 1 = n - 1
          BY <1>2, <3>3
        <4>2. w[n] = s[n - 1]
          BY <1>5, <2>1, <2>2, <4>1
        <4> QED
          BY <1>3, <4>1, <4>2
      <3> QED
        BY <1>2, <3>1, <3>2, <3>3
    <2>4. w = t
      BY <1>1, <2>1, <2>2, <2>3, SeqEqual
    <2> QED
      BY <2>4 DEF w
  <1>11. s = c \o d
    <2> DEFINE w == c \o d
    <2>1. /\ w \in Seq(S) /\ Len(w) = (j - 1) + (m - j + 1)
          /\ \A n \in 1 .. (j - 1) + (m - j + 1) :
                w[n] = IF n <= j - 1 THEN c[n] ELSE d[n - (j - 1)]
      <3>1. /\ w \in Seq(S) /\ Len(w) = Len(c) + Len(d)
            /\ \A n \in 1 .. Len(c) + Len(d) :
                  w[n] = IF n <= Len(c) THEN c[n] ELSE d[n - Len(c)]
        <4>1. c \in Seq(S) /\ d \in Seq(S)
          BY <1>6, <1>7
        <4> QED
          BY <4>1, ConcatProperties
      <3> HIDE DEF w
      <3>2. Len(c) = j - 1 /\ Len(d) = m - j + 1
        BY <1>6, <1>7
      <3> QED
        BY <3>1, <3>2
    <2>2. (j - 1) + (m - j + 1) = m
      BY <1>2
    <2> HIDE DEF w
    <2>3. ASSUME NEW n \in 1 .. m PROVE w[n] = s[n]
      <3>1. CASE n < j
        <4>1. n \in 1 .. j - 1 /\ n <= j - 1
          BY <3>1
        <4> QED
          BY <1>3, <1>6, <2>1, <2>2, <3>1, <4>1
      <3>2. CASE ~ (n < j)
        <4>1. /\ n - (j - 1) \in 1 .. m - j + 1 /\ j + (n - (j - 1)) = n + 1
              /\ ~ (n <= j - 1)
          BY <1>2, <3>2
        <4>2. w[n] = t[n + 1]
          BY <1>7, <2>1, <2>2, <4>1
        <4> QED
          BY <1>3, <3>2, <4>2
      <3> QED
        BY <3>1, <3>2
    <2>4. w = s
      BY <1>1, <2>1, <2>2, <2>3, SeqEqual
    <2> QED
      BY <2>4 DEF w
  <1> QED
    BY <1>1, <1>10, <1>11 DEF a, b, c, d, e, u
=============================================================================
