--------------------------- MODULE TreeMapProofs ---------------------------
EXTENDS TreeMapAndLegacy, ContainerLemmas

-----------------------------------------------------------------------------
(* What the helpers write *)

KeyOrNone == Keys \cup {None}

LEMMA NoneApart == None \notin Keys /\ Keys \subseteq KeyOrNone /\ None \in KeyOrNone
  BY TreeMapAssumption DEF KeyOrNone, TreeMapAssumption

\* The two sides are each other's opposite.
LEMMA SidesTwo ==
    ASSUME NEW s \in Sides
    PROVE  /\ Opposite(s) \in Sides /\ Opposite(s) # s
           /\ Opposite(Opposite(s)) = s
           /\ \A q \in Sides : q = s \/ q = Opposite(s)
  BY DEF Sides, Opposite

\* What the links of a tree lead to.
LEMMA LinkTypes ==
    ASSUME NEW t \in Trees
    PROVE  /\ t.root \in KeyOrNone
           /\ \A q \in Sides, x \in Keys : t.child[q][x] \in KeyOrNone
           /\ \A x \in Keys : t.parent[x] \in KeyOrNone
           /\ \A x \in Keys : t.color[x] \in {RED, BLACK, None}
           /\ t.parent \in [Keys -> KeyOrNone]
           /\ \A q \in Sides : t.child[q] \in [Keys -> KeyOrNone]
  BY DEF Trees, KeyOrNone

\* What each write of a link or a color changes, field by field.
LEMMA SetParentFields ==
    ASSUME NEW t \in Trees, NEW n \in KeyOrNone, NEW p \in KeyOrNone
    PROVE  LET r == SetParent(t, n, p)
           IN  /\ r \in Trees /\ r.root = t.root /\ r.child = t.child
               /\ r.color = t.color
               /\ \A x \in Keys : r.parent[x] = IF x = n THEN p ELSE t.parent[x]
  BY TreeMapAssumption DEF SetParent, Trees, KeyOrNone, TreeMapAssumption

LEMMA SetChildFields ==
    ASSUME NEW t \in Trees, NEW p \in Keys, NEW s \in Sides, NEW n \in KeyOrNone
    PROVE  LET r == SetChild(t, p, s, n)
           IN  /\ r \in Trees /\ r.root = t.root /\ r.parent = t.parent
               /\ r.color = t.color
               /\ \A q \in Sides, x \in Keys :
                     r.child[q][x] = IF x = p /\ q = s THEN n ELSE t.child[q][x]
  BY DEF SetChild, Trees, KeyOrNone

LEMMA AttachFields ==
    ASSUME NEW t \in Trees, NEW p \in KeyOrNone, NEW s \in Sides, NEW n \in KeyOrNone
    PROVE  LET r == Attach(t, p, s, n)
           IN  /\ r \in Trees /\ r.root = (IF p = None THEN n ELSE t.root)
               /\ r.parent = t.parent /\ r.color = t.color
               /\ \A q \in Sides, x \in Keys :
                     r.child[q][x] = IF x = p /\ q = s THEN n ELSE t.child[q][x]
  <1>1. CASE p = None
    BY <1>1, TreeMapAssumption DEF Attach, Trees, KeyOrNone, TreeMapAssumption
  <1>2. CASE p # None
    <2>1. p \in Keys
      BY <1>2 DEF KeyOrNone
    <2> QED
      BY <1>2, <2>1, TreeMapAssumption, SetChildFields DEF Attach, TreeMapAssumption
  <1> QED
    BY <1>1, <1>2

LEMMA PaintFields ==
    ASSUME NEW t \in Trees, NEW S, NEW c \in {RED, BLACK}
    PROVE  LET r == Paint(t, S, c)
           IN  /\ r \in Trees /\ r.root = t.root /\ r.parent = t.parent
               /\ r.child = t.child
               /\ \A x \in Keys : r.color[x] = IF x \in S THEN c ELSE t.color[x]
  BY DEF Paint, Trees

LEMMA LinkFields ==
    ASSUME NEW t \in Trees, NEW p \in Keys, NEW s \in Sides, NEW n \in KeyOrNone
    PROVE  LET r == Link(t, p, s, n)
           IN  /\ r \in Trees /\ r.root = t.root /\ r.color = t.color
               /\ \A q \in Sides, x \in Keys :
                     r.child[q][x] = IF x = p /\ q = s THEN n ELSE t.child[q][x]
               /\ \A x \in Keys : r.parent[x] = IF x = n THEN p ELSE t.parent[x]
  <1> DEFINE a == SetChild(t, p, s, n)
  <1>1. /\ a \in Trees /\ a.root = t.root /\ a.parent = t.parent
        /\ a.color = t.color
        /\ \A q \in Sides, x \in Keys :
              a.child[q][x] = IF x = p /\ q = s THEN n ELSE t.child[q][x]
    BY SetChildFields
  <1>2. Link(t, p, s, n) = SetParent(a, n, p) /\ p \in KeyOrNone
    BY DEF Link, KeyOrNone
  <1> HIDE DEF a
  <1>3. LET r == SetParent(a, n, p)
        IN  /\ r \in Trees /\ r.root = a.root /\ r.child = a.child
            /\ r.color = a.color
            /\ \A x \in Keys : r.parent[x] = IF x = n THEN p ELSE a.parent[x]
    BY ONLY <1>1, <1>2, SetParentFields, n \in KeyOrNone
  <1> QED
    BY <1>1, <1>2, <1>3

LEMMA TransplantFields ==
    ASSUME NEW t \in Trees, NEW old \in Keys, NEW new \in KeyOrNone
    PROVE  LET r == Transplant(t, old, new)
               p == t.parent[old]
           IN  /\ r \in Trees /\ r.color = t.color
               /\ r.root = (IF p = None THEN new ELSE t.root)
               /\ \A q \in Sides, x \in Keys :
                     r.child[q][x] = IF x = p /\ q = SideOf(t, old, p) THEN new
                                     ELSE t.child[q][x]
               /\ \A x \in Keys : r.parent[x] = IF x = new THEN p ELSE t.parent[x]
  <1> DEFINE p == t.parent[old]
             side == IF p = None THEN "left" ELSE SideOf(t, old, p)
             a == Attach(t, p, side, new)
  <1>1. p \in KeyOrNone /\ None \notin Keys
    BY LinkTypes, NoneApart
  <1>2. side \in Sides /\ (p # None => side = SideOf(t, old, p))
    BY DEF SideOf, Sides
  <1>3. Transplant(t, old, new) = SetParent(a, new, p)
    BY DEF Transplant
  <1> HIDE DEF p, side
  <1>4. /\ a \in Trees /\ a.root = (IF p = None THEN new ELSE t.root)
        /\ a.parent = t.parent /\ a.color = t.color
        /\ \A q \in Sides, x \in Keys :
              a.child[q][x] = IF x = p /\ q = side THEN new ELSE t.child[q][x]
    BY ONLY <1>1, <1>2, AttachFields, t \in Trees, new \in KeyOrNone
  <1> HIDE DEF a
  <1>5. LET r == SetParent(a, new, p)
        IN  /\ r \in Trees /\ r.root = a.root /\ r.child = a.child
            /\ r.color = a.color
            /\ \A x \in Keys : r.parent[x] = IF x = new THEN p ELSE a.parent[x]
    BY ONLY <1>1, <1>4, SetParentFields, new \in KeyOrNone
  <1> QED
    BY <1>1, <1>2, <1>3, <1>4, <1>5 DEF p

\* What a rotation makes of the links.
Turned(t, r, n, s) ==
    LET up == t.child[Opposite(s)][n]
        inner == t.child[s][up]
        p == t.parent[n]
    IN  /\ r.root = (IF p = None THEN up ELSE t.root)
        /\ \A q \in Sides, x \in Keys :
              r.child[q][x] = IF x = n /\ q = Opposite(s) THEN inner
                              ELSE IF x = up /\ q = s THEN n
                              ELSE IF x = p /\ q = SideOf(t, n, p) THEN up
                              ELSE t.child[q][x]
        /\ \A x \in Keys :
              r.parent[x] = IF x = n THEN up ELSE IF x = up THEN p
                            ELSE IF x = inner THEN n ELSE t.parent[x]

Rotated(t, r, n, s) == r \in Trees /\ r.color = t.color /\ Turned(t, r, n, s)

\* What treemap_left_rotate and treemap_right_rotate write, in one step.
LEMMA RotateFields ==
    ASSUME NEW t \in Trees, NEW n \in Keys, NEW s \in Sides,
           t.child[Opposite(s)][n] \in Keys \ {n},
           t.child[s][t.child[Opposite(s)][n]] # n,
           t.child[s][t.child[Opposite(s)][n]] # t.child[Opposite(s)][n],
           t.parent[n] # n, t.parent[n] # t.child[Opposite(s)][n]
    PROVE  Rotated(t, Rotate(t, n, s), n, s)
  <1> DEFINE o == Opposite(s)
             up == t.child[o][n]
             inner == t.child[s][up]
             p == t.parent[n]
             t1 == Link(t, n, o, inner)
             t2 == Transplant(t1, n, up)
             r == Link(t2, up, s, n)
  <1>0. r = Rotate(t, n, s)
    BY DEF Rotate
  <1>1. /\ o \in Sides /\ o # s
        /\ up \in Keys /\ n \in Keys /\ n # up /\ None \notin Keys
        /\ inner \in KeyOrNone /\ inner # n /\ inner # up
        /\ p \in KeyOrNone /\ p # n /\ p # up
    BY LinkTypes, NoneApart, SidesTwo
  <1>2. up \in KeyOrNone /\ n \in KeyOrNone /\ up \in Keys /\ n \in Keys /\ s \in Sides
    BY <1>1 DEF KeyOrNone
  <1> HIDE DEF up, inner, p, o
  <1>3. /\ t1 \in Trees /\ t1.root = t.root /\ t1.color = t.color
        /\ \A q \in Sides, x \in Keys :
              t1.child[q][x] = IF x = n /\ q = o THEN inner ELSE t.child[q][x]
        /\ \A x \in Keys : t1.parent[x] = IF x = inner THEN n ELSE t.parent[x]
    BY ONLY <1>1, LinkFields, t \in Trees
  <1> HIDE DEF t1
  <1>4. t1.parent[n] = p /\ (p # None => SideOf(t1, n, p) = SideOf(t, n, p))
    BY <1>1, <1>3 DEF SideOf, Sides, KeyOrNone, p
  <1>5. /\ t2 \in Trees /\ t2.color = t1.color
        /\ t2.root = (IF p = None THEN up ELSE t1.root)
        /\ \A q \in Sides, x \in Keys :
              t2.child[q][x] = IF x = p /\ q = SideOf(t1, n, p) THEN up
                               ELSE t1.child[q][x]
        /\ \A x \in Keys : t2.parent[x] = IF x = up THEN p ELSE t1.parent[x]
    <2>1. /\ t2 \in Trees /\ t2.color = t1.color
          /\ t2.root = (IF t1.parent[n] = None THEN up ELSE t1.root)
          /\ \A q \in Sides, x \in Keys :
                t2.child[q][x] = IF x = t1.parent[n] /\ q = SideOf(t1, n, t1.parent[n])
                                   THEN up ELSE t1.child[q][x]
          /\ \A x \in Keys :
                t2.parent[x] = IF x = up THEN t1.parent[n] ELSE t1.parent[x]
      BY ONLY <1>2, <1>3, TransplantFields
    <2> QED
      BY ONLY <1>4, <2>1
  <1> HIDE DEF t2
  <1>6. /\ r \in Trees /\ r.root = t2.root /\ r.color = t2.color
        /\ \A q \in Sides, x \in Keys :
              r.child[q][x] = IF x = up /\ q = s THEN n ELSE t2.child[q][x]
        /\ \A x \in Keys : r.parent[x] = IF x = n THEN up ELSE t2.parent[x]
    <2>1. t2 \in Trees
      BY <1>5
    <2> QED
      BY ONLY <1>2, <2>1, LinkFields
  <1> HIDE DEF r
  <1>10. ASSUME NEW q \in Sides, NEW x \in Keys
         PROVE  r.child[q][x] = IF x = n /\ q = o THEN inner
                                ELSE IF x = up /\ q = s THEN n
                                ELSE IF x = p /\ q = SideOf(t, n, p) THEN up
                                ELSE t.child[q][x]
    BY <1>1, <1>3, <1>4, <1>5, <1>6
  <1>11. ASSUME NEW x \in Keys
         PROVE  r.parent[x] = IF x = n THEN up ELSE IF x = up THEN p
                              ELSE IF x = inner THEN n ELSE t.parent[x]
    BY <1>1, <1>3, <1>5, <1>6
  <1>12. /\ r \in Trees /\ r.color = t.color
         /\ r.root = (IF p = None THEN up ELSE t.root)
    BY <1>3, <1>5, <1>6
  <1>13. Rotated(t, r, n, s)
    BY <1>10, <1>11, <1>12 DEF Rotated, Turned, o, up, inner, p
  <1> QED
    BY <1>0, <1>13

-----------------------------------------------------------------------------
(* The order of the tree *)

\* a lies on the side s of b; the nodes of S that do.
Before(s, a, b) == IF s = "left" THEN a < b ELSE b < a
Part(s, S, n) == {k \in S : Before(s, k, n)}

\* "Before on the side s" is a total order, and its reverse on the other side.
LEMMA BeforeOrder ==
    ASSUME NEW s \in Sides
    PROVE  /\ \A a, b \in Keys : Before(Opposite(s), a, b) <=> Before(s, b, a)
           /\ \A a, b \in Keys : a = b \/ Before(s, a, b) \/ Before(s, b, a)
           /\ \A a, b \in Keys : ~(Before(s, a, b) /\ Before(s, b, a))
           /\ \A a \in Keys : ~Before(s, a, a)
           /\ \A a, b, c \in Keys : Before(s, a, b) /\ Before(s, b, c) => Before(s, a, c)
  <1>1. Keys \subseteq Int
    BY TreeMapAssumption DEF TreeMapAssumption
  <1> QED
    BY <1>1 DEF Before, Opposite, Sides

\* sub[n] are the nodes of the subtree of n: those of ns at the root, and
\* below a child those on its side of the parent.
Ordered(t, ns, sub) ==
    /\ t \in Trees /\ ns \subseteq Keys /\ sub \in [Keys -> SUBSET Keys]
    /\ IF t.root = None THEN ns = {}
       ELSE t.root \in ns /\ t.parent[t.root] = None /\ sub[t.root] = ns
    /\ \A n \in ns : n \in sub[n] /\ sub[n] \subseteq ns
    /\ \A n \in ns, s \in Sides :
          LET c == t.child[s][n]
          IN  IF c = None THEN Part(s, sub[n], n) = {}
              ELSE c \in ns /\ t.parent[c] = n /\ sub[c] = Part(s, sub[n], n)
    /\ \A n \in ns \ {t.root} :
          t.parent[n] \in ns /\ \E s \in Sides : t.child[s][t.parent[n]] = n
    /\ \A n \in Keys \ ns :
          /\ \A s \in Sides : t.child[s][n] = None
          /\ t.parent[n] = None /\ t.color[n] = None
    /\ \A n \in ns : t.color[n] \in {RED, BLACK}

\* What is known of a child.
LEMMA ChildFacts ==
    ASSUME NEW t, NEW ns, NEW sub, Ordered(t, ns, sub),
           NEW n \in ns, NEW s \in Sides, t.child[s][n] # None
    PROVE  LET c == t.child[s][n]
           IN  /\ c \in ns /\ c \in Keys /\ c # n /\ Before(s, c, n) /\ c # t.root
               /\ t.parent[c] = n /\ sub[c] = Part(s, sub[n], n)
               /\ c # t.child[Opposite(s)][n] /\ c # None
               /\ n \notin sub[c] /\ sub[c] \subseteq sub[n]
  <1> DEFINE c == t.child[s][n]
  <1>1. /\ c \in ns /\ t.parent[c] = n /\ sub[c] = Part(s, sub[n], n)
        /\ c \in sub[c] /\ ns \subseteq Keys /\ n \in Keys
    BY DEF Ordered
  <1>2. Before(s, c, n) /\ ~Before(s, n, n) /\ c \in Keys /\ n \in Keys
    BY <1>1, BeforeOrder DEF Part
  <1>3. c # n /\ n \notin sub[c] /\ sub[c] \subseteq sub[n]
    BY <1>1, <1>2 DEF Part
  <1>4. n # None /\ c # None
    BY <1>1, NoneApart
  <1>5. c # t.root
    BY <1>1, <1>4 DEF Ordered
  <1>6. c # t.child[Opposite(s)][n]
    <2>1. SUFFICES ASSUME c = t.child[Opposite(s)][n] PROVE FALSE
      OBVIOUS
    <2>2. Opposite(s) \in Sides
      BY SidesTwo
    <2>3. sub[c] = Part(Opposite(s), sub[n], n)
      BY <2>1, <2>2, <1>4 DEF Ordered
    <2>4. Before(Opposite(s), c, n)
      BY <2>3, <1>1 DEF Part
    <2> QED
      BY <2>4, <1>2, BeforeOrder
  <1> QED
    BY <1>1, <1>2, <1>3, <1>4, <1>5, <1>6

\* What is known of a parent; only the root has none.
LEMMA ParentFacts ==
    ASSUME NEW t, NEW ns, NEW sub, Ordered(t, ns, sub), NEW n \in ns
    PROVE  LET p == t.parent[n]
           IN  /\ p = None <=> n = t.root
               /\ p # n /\ p \in KeyOrNone /\ n # None
               /\ p # None => /\ p \in ns /\ p \in Keys /\ SideOf(t, n, p) \in Sides
                              /\ t.child[SideOf(t, n, p)][p] = n
               /\ \A q \in Sides, x \in ns :
                     t.child[q][x] = n => x = p /\ q = SideOf(t, n, p)
  <1> DEFINE p == t.parent[n]
  <1>1. t \in Trees /\ ns \subseteq Keys /\ n \in Keys /\ n # None
    BY NoneApart DEF Ordered
  <1>2. p = None <=> n = t.root
    BY <1>1, NoneApart DEF Ordered
  <1>3. ASSUME p # None
        PROVE  p \in ns /\ SideOf(t, n, p) \in Sides /\ t.child[SideOf(t, n, p)][p] = n
    <2>1. PICK s \in Sides : t.child[s][p] = n
      BY <1>2, <1>3 DEF Ordered
    <2>2. p \in ns
      BY <1>2, <1>3 DEF Ordered
    <2> QED
      BY <2>1, <2>2 DEF SideOf, Sides
  <1>4. ASSUME NEW q \in Sides, NEW x \in ns, t.child[q][x] = n
        PROVE  x = p /\ q = SideOf(t, n, p)
    <2>1. t.parent[n] = x /\ n # t.child[Opposite(q)][x]
      BY <1>1, <1>4, ChildFacts
    <2> QED
      BY <1>4, <2>1 DEF SideOf, Sides, Opposite
  <1>5. p # n
    <2>1. CASE p = None
      BY <2>1, <1>1
    <2>2. CASE p # None
      BY <2>2, <1>1, <1>3, ChildFacts
    <2> QED
      BY <2>1, <2>2
  <1> QED
    BY <1>1, <1>2, <1>3, <1>4, <1>5, LinkTypes

\* No child is the parent of its parent.
LEMMA ParentNoChild ==
    ASSUME NEW t, NEW ns, NEW sub, Ordered(t, ns, sub),
           NEW n \in ns, NEW s \in Sides, t.child[s][n] # None
    PROVE  t.parent[n] # t.child[s][n]
  <1> DEFINE c == t.child[s][n]
  <1>1. SUFFICES ASSUME t.parent[n] = c PROVE FALSE
    OBVIOUS
  <1>2. c \in ns /\ n \notin sub[c] /\ n \in sub[n]
    BY ChildFacts DEF Ordered
  <1>3. SideOf(t, n, c) \in Sides /\ t.child[SideOf(t, n, c)][c] = n /\ n # None
    BY <1>1, ParentFacts
  <1> HIDE DEF c
  <1>4. sub[n] \subseteq sub[c]
    BY <1>2, <1>3, ChildFacts
  <1> QED
    BY <1>2, <1>4

\* The subtrees after a rotation that raises up, the child of n.
Raised(sub, n, up, s) ==
    [sub EXCEPT ![n] = Part(s, sub[n], up), ![up] = sub[n]]

\* A rotation keeps a search tree one, with the subtrees of two nodes changed.
LEMMA RotateOrdered ==
    ASSUME NEW t, NEW ns, NEW sub, Ordered(t, ns, sub),
           NEW n \in ns, NEW s \in Sides, t.child[Opposite(s)][n] # None
    PROVE  /\ Rotated(t, Rotate(t, n, s), n, s)
           /\ Ordered(Rotate(t, n, s), ns,
                      Raised(sub, n, t.child[Opposite(s)][n], s))
  <1> DEFINE o == Opposite(s)
             up == t.child[o][n]
             inner == t.child[s][up]
             p == t.parent[n]
             side == SideOf(t, n, p)
             r == Rotate(t, n, s)
             sub2 == Raised(sub, n, up, s)
  <1>1. /\ t \in Trees /\ ns \subseteq Keys /\ sub \in [Keys -> SUBSET Keys]
        /\ n \in Keys /\ o \in Sides /\ o # s /\ Opposite(o) = s
        /\ \A q \in Sides : q = s \/ q = o
    BY SidesTwo DEF Ordered
  <1>2. /\ up \in ns /\ up \in Keys /\ up # n /\ Before(o, up, n) /\ up # t.root
        /\ t.parent[up] = n /\ sub[up] = Part(o, sub[n], n) /\ up # t.child[s][n]
    BY <1>1, ChildFacts
  <1>3. /\ p = None <=> n = t.root
        /\ p # n /\ p \in KeyOrNone
        /\ p # None => p \in ns /\ p \in Keys /\ side \in Sides /\ t.child[side][p] = n
        /\ \A q \in Sides, x \in ns : t.child[q][x] = n => x = p /\ q = side
    BY ParentFacts
  <1>4. p # up
    BY <1>1, ParentNoChild
  <1>5. inner # None =>
            /\ inner \in ns /\ inner \in Keys /\ inner # up /\ inner # n
            /\ t.parent[inner] = up /\ sub[inner] = Part(s, sub[up], up)
            /\ inner # t.child[o][up] /\ inner # t.root
    <2>1. SUFFICES ASSUME inner # None
                   PROVE  /\ inner \in ns /\ inner \in Keys /\ inner # up /\ inner # n
                          /\ t.parent[inner] = up /\ sub[inner] = Part(s, sub[up], up)
                          /\ inner # t.child[o][up] /\ inner # t.root
      OBVIOUS
    <2>2. /\ inner \in ns /\ inner \in Keys /\ inner # up
          /\ t.parent[inner] = up /\ sub[inner] = Part(s, sub[up], up)
          /\ inner # t.child[o][up] /\ inner # t.root
      BY <1>2, <2>1, ChildFacts
    <2>3. inner # n
      BY <2>2, <1>4
    <2> QED
      BY <2>2, <2>3
  <1>6. inner # n /\ inner # up
    BY <1>1, <1>2, <1>5, NoneApart
  <1>7. Rotated(t, r, n, s)
    BY <1>1, <1>2, <1>3, <1>4, <1>6, RotateFields
  <1>8. /\ r \in Trees
        /\ r.color = t.color
        /\ r.root = (IF p = None THEN up ELSE t.root)
        /\ \A q \in Sides, x \in Keys :
              r.child[q][x] = IF x = n /\ q = o THEN inner
                              ELSE IF x = up /\ q = s THEN n
                              ELSE IF x = p /\ q = side THEN up
                              ELSE t.child[q][x]
        /\ \A x \in Keys :
              r.parent[x] = IF x = n THEN up ELSE IF x = up THEN p
                            ELSE IF x = inner THEN n ELSE t.parent[x]
    BY <1>7 DEF Rotated, Turned
  <1>9. /\ sub2 \in [Keys -> SUBSET Keys]
        /\ sub2[n] = Part(s, sub[n], up) /\ sub2[up] = sub[n]
        /\ \A x \in Keys : x # n /\ x # up => sub2[x] = sub[x]
    <2>1. sub[n] \in SUBSET Keys /\ Part(s, sub[n], up) \in SUBSET Keys
      BY <1>1 DEF Part
    <2> QED
      BY <1>1, <1>2, <2>1 DEF Raised
  <1>10. \A x \in ns : x \in sub[x] /\ sub[x] \subseteq ns
    BY DEF Ordered
  <1> HIDE DEF r, sub2, up, inner, p, side, o
  <1>11. \A x \in ns : x \in sub2[x] /\ sub2[x] \subseteq ns
    <2>1. Before(s, n, up)
      BY <1>1, <1>2, BeforeOrder
    <2>2. n \in sub2[n] /\ sub2[n] \subseteq ns
      BY <2>1, <1>9, <1>10 DEF Part
    <2>3. up \in sub[n]
      BY <1>2, <1>10 DEF Part
    <2> QED
      BY <2>2, <2>3, <1>1, <1>9, <1>10
  <1>12. ASSUME NEW c \in ns, c # n, c # up, c # inner, NEW x \in ns, NEW q \in Sides,
                t.child[q][x] = c, sub[c] = Part(q, sub[x], x), t.parent[c] = x,
                sub2[x] = sub[x]
         PROVE  sub2[c] = Part(q, sub2[x], x) /\ r.parent[c] = x
    BY <1>1, <1>8, <1>9, <1>12
  <1>13. Part(s, sub2[n], n) = Part(s, sub[n], n)
    <2>1. \A k \in sub[n] : Before(s, k, n) => Before(s, k, up)
      BY <1>1, <1>2, <1>10, BeforeOrder
    <2> QED
      BY <2>1, <1>9 DEF Part
  <1>14. Part(o, sub2[n], n) = Part(s, sub[up], up)
    BY <1>2, <1>9 DEF Part
  <1>15. Part(o, sub2[up], up) = Part(o, sub[up], up)
    <2>1. \A k \in sub[n] : Before(o, k, up) => Before(o, k, n)
      BY <1>1, <1>2, <1>10, BeforeOrder
    <2> QED
      BY <2>1, <1>2, <1>9 DEF Part
  <1>16. ASSUME NEW x \in ns, NEW q \in Sides
         PROVE  LET c == r.child[q][x]
                IN  IF c = None THEN Part(q, sub2[x], x) = {}
                    ELSE c \in ns /\ r.parent[c] = x /\ sub2[c] = Part(q, sub2[x], x)
    <2> DEFINE d == t.child[q][x]
    <2>0. x \in Keys
      BY <1>1
    <2>1. IF d = None THEN Part(q, sub[x], x) = {}
          ELSE /\ d \in ns /\ d \in Keys /\ d # x /\ t.parent[d] = x
               /\ sub[d] = Part(q, sub[x], x) /\ d # t.child[Opposite(q)][x]
      <3>1. CASE d = None
        BY <3>1 DEF Ordered
      <3>2. CASE d # None
        BY <3>2, ChildFacts
      <3> QED
        BY <3>1, <3>2
    <2>2. CASE x = n /\ q = o
      <3>1. r.child[q][x] = inner
        BY <1>8, <2>2, <2>0
      <3>2. inner = None => Part(s, sub[up], up) = {}
        BY <1>2 DEF Ordered, inner
      <3>3. inner # None => sub2[inner] = sub[inner] /\ r.parent[inner] = n
        BY <1>5, <1>8, <1>9
      <3> QED
        BY <3>1, <3>2, <3>3, <2>2, <1>14, <1>5
    <2>3. CASE x = n /\ q = s
      <3>1. r.child[q][x] = d
        BY <1>1, <1>2, <1>3, <1>8, <2>3, <2>0
      <3>2. d # None => d # n /\ d # up /\ d # inner
        BY <2>1, <2>3, <1>2, <1>5
      <3>3. d # None => sub2[d] = sub[d] /\ r.parent[d] = n
        BY <3>2, <2>1, <2>3, <1>8, <1>9
      <3> QED
        BY <3>1, <3>3, <2>1, <2>3, <1>13
    <2>4. CASE x = up /\ q = s
      <3>1. r.child[q][x] = n /\ n # None
        BY <1>2, <1>8, <2>4, <2>0, <1>1, NoneApart
      <3>2. r.parent[n] = up /\ sub2[n] = Part(s, sub2[up], up)
        BY <1>1, <1>8, <1>9
      <3> QED
        BY <3>1, <3>2, <2>4
    <2>5. CASE x = up /\ q = o
      <3>1. r.child[q][x] = d
        BY <1>1, <1>2, <1>4, <1>8, <2>5, <2>0
      <3>2. d # None => d # n /\ d # up /\ d # inner
        BY <2>1, <2>5, <1>2, <1>4, <1>5 DEF p
      <3>3. d # None => sub2[d] = sub[d] /\ r.parent[d] = up
        BY <3>2, <2>1, <2>5, <1>8, <1>9
      <3> QED
        BY <3>1, <3>3, <2>1, <2>5, <1>15
    <2>6. CASE x # n /\ x # up /\ x = p /\ q = side
      <3>1. r.child[q][x] = up /\ up # None /\ d = n
        BY <1>2, <1>3, <1>8, <2>6, <2>0, NoneApart
      <3>2. r.parent[up] = p
        BY <1>2, <1>8
      <3>3. sub2[up] = sub[n] /\ sub2[x] = sub[x] /\ n # None
        BY <1>1, <1>9, <2>6, <2>0, NoneApart
      <3> QED
        BY <3>1, <3>2, <3>3, <2>1, <2>6, <1>2
    <2>7. CASE x # n /\ x # up /\ ~(x = p /\ q = side)
      <3>1. r.child[q][x] = d /\ sub2[x] = sub[x]
        BY <1>8, <1>9, <2>7, <2>0
      <3>2. d # None => d # n /\ d # up /\ d # inner
        BY <2>1, <2>7, <1>2, <1>3, <1>5
      <3>3. d # None => sub2[d] = sub[d] /\ r.parent[d] = x
        BY <3>2, <2>1, <2>7, <1>8, <1>9
      <3> QED
        BY <3>1, <3>3, <2>1
    <2> QED
      BY <2>2, <2>3, <2>4, <2>5, <2>6, <2>7, <1>1
  <1>17. ASSUME NEW x \in ns \ {r.root}
         PROVE  r.parent[x] \in ns /\ \E q \in Sides : r.child[q][r.parent[x]] = x
    <2>0. x \in ns /\ x \in Keys /\ n # None
      BY <1>1, NoneApart
    <2>1. CASE x = n
      <3>1. r.parent[x] = up /\ r.child[s][up] = n
        BY <1>1, <1>2, <1>8, <2>1
      <3> QED
        BY <3>1, <2>1, <1>2
    <2>2. CASE x = up
      <3>1. p # None
        BY <1>8, <2>2
      <3>2. r.parent[x] = p /\ r.child[side][p] = up
        BY <3>1, <1>2, <1>3, <1>4, <1>8, <2>2
      <3> QED
        BY <3>1, <3>2, <2>2, <1>3
    <2>3. CASE x # n /\ x # up /\ x = inner
      <3>1. r.parent[x] = n /\ r.child[o][n] = inner
        BY <1>1, <1>8, <2>3, <2>0
      <3> QED
        BY <3>1, <2>3, <1>1
    <2>4. CASE x # n /\ x # up /\ x # inner
      <3>1. x # t.root
        BY <1>3, <1>8, <2>4
      <3> DEFINE y == t.parent[x]
      <3>2. y \in ns /\ y \in Keys
        BY <2>0, <3>1, <1>1 DEF Ordered
      <3>3. PICK q \in Sides : t.child[q][y] = x
        BY <2>0, <3>1 DEF Ordered
      <3>4. r.parent[x] = y
        BY <2>0, <2>4, <1>8
      <3> HIDE DEF y
      <3>5. r.child[q][y] = x
        <4>1. ~(y = n /\ q = o)
          BY <3>3, <2>4 DEF up
        <4>2. ~(y = up /\ q = s)
          BY <3>3, <2>4 DEF inner
        <4>3. ~(y = p /\ q = side)
          BY <3>3, <2>4, <1>3, <3>2, NoneApart
        <4> QED
          BY <4>1, <4>2, <4>3, <3>2, <3>3, <1>8
      <3> QED
        BY <3>2, <3>4, <3>5
    <2> QED
      BY <2>1, <2>2, <2>3, <2>4
  <1>18. ASSUME NEW x \in Keys \ ns
         PROVE  /\ \A q \in Sides : r.child[q][x] = None
                /\ r.parent[x] = None /\ r.color[x] = None
    <2>1. x # n /\ x # up /\ x # inner /\ x # p
      BY <1>2, <1>3, <1>5, NoneApart
    <2>2. /\ \A q \in Sides : t.child[q][x] = None
          /\ t.parent[x] = None /\ t.color[x] = None
      BY DEF Ordered
    <2> QED
      BY <2>1, <2>2, <1>8
  <1>19. IF r.root = None THEN ns = {}
         ELSE r.root \in ns /\ r.parent[r.root] = None /\ sub2[r.root] = ns
    <2>1. CASE p = None
      <3>1. n = t.root /\ sub[n] = ns
        BY <2>1, <1>1, <1>3, NoneApart DEF Ordered
      <3> QED
        BY <2>1, <3>1, <1>2, <1>8, <1>9, NoneApart
    <2>2. CASE p # None
      <3>1. /\ r.root = t.root /\ t.root # n /\ t.root # up
            /\ t.root # None => t.root # inner
        BY <2>2, <1>2, <1>3, <1>5, <1>8
      <3>2. IF t.root = None THEN ns = {}
            ELSE t.root \in ns /\ t.parent[t.root] = None /\ sub[t.root] = ns
        BY DEF Ordered
      <3> QED
        BY <3>1, <3>2, <1>1, <1>8, <1>9
    <2> QED
      BY <2>1, <2>2
  <1>20. \A x \in ns : r.color[x] \in {RED, BLACK}
    BY <1>8 DEF Ordered
  <1>21. Ordered(r, ns, sub2)
    BY <1>1, <1>8, <1>9, <1>11, <1>16, <1>17, <1>18, <1>19, <1>20 DEF Ordered
  <1> QED
    BY <1>7, <1>21 DEF r, sub2, up, o

\* Colors take no part in it.
LEMMA PaintOrdered ==
    ASSUME NEW t, NEW ns, NEW sub, Ordered(t, ns, sub),
           NEW S, S \cap Keys \subseteq ns, NEW c \in {RED, BLACK}
    PROVE  LET r == Paint(t, S, c)
           IN  /\ Ordered(r, ns, sub)
               /\ r.root = t.root /\ r.parent = t.parent /\ r.child = t.child
               /\ \A x \in Keys : r.color[x] = IF x \in S THEN c ELSE t.color[x]
  <1> DEFINE r == Paint(t, S, c)
  <1>1. /\ r \in Trees /\ r.root = t.root /\ r.parent = t.parent
        /\ r.child = t.child
        /\ \A x \in Keys : r.color[x] = IF x \in S THEN c ELSE t.color[x]
    BY PaintFields DEF Ordered
  <1> HIDE DEF r
  <1>2. \A x \in Keys \ ns : x \notin S
    OBVIOUS
  <1>3. \A x \in ns : r.color[x] \in {RED, BLACK}
    <2>1. ns \subseteq Keys /\ \A x \in ns : t.color[x] \in {RED, BLACK}
      BY DEF Ordered
    <2>2. \A x \in Keys : r.color[x] = IF x \in S THEN c ELSE t.color[x]
      BY <1>1
    <2> QED
      BY <2>1, <2>2
  <1>4. \A x \in Keys \ ns : r.color[x] = t.color[x]
    BY <1>1, <1>2
  <1>5. Ordered(r, ns, sub)
    BY <1>1, <1>3, <1>4 DEF Ordered
  <1> QED
    BY <1>1, <1>5 DEF r

-----------------------------------------------------------------------------
(* The colors of the tree *)

\* What a node adds to the number of black nodes of a path.
Weight(t, n) == IF t.color[n] = BLACK THEN 1 ELSE 0

\* The height of the place for a child of n on the side s, where the place
\* on the side gs of ga is one black node short.
Height(t, h, gs, ga, s, n) == h[t.child[s][n]] + (IF s = gs /\ n = ga THEN 1 ELSE 0)

\* h[n] black nodes lie on every path from n down, but for that place.
Balanced(t, ns, h, gs, ga) ==
    /\ h \in [KeyOrNone -> Nat] /\ h[None] = 0
    /\ \A n \in ns, s \in Sides : h[n] = Height(t, h, gs, ga, s, n) + Weight(t, n)

\* A rotation changes the heights of the two nodes it turns and of no other.
LEMMA RotateBalanced ==
    ASSUME NEW t, NEW ns, NEW sub, Ordered(t, ns, sub),
           NEW n \in ns, NEW s \in Sides, t.child[Opposite(s)][n] # None,
           NEW h \in [KeyOrNone -> Nat], NEW h2 \in [KeyOrNone -> Nat], h[None] = 0,
           NEW gs, NEW ga, ga # t.child[Opposite(s)][n],
           \A x \in ns \ {n, t.child[Opposite(s)][n]}, q \in Sides :
              h[x] = Height(t, h, gs, ga, q, x) + Weight(t, x),
           \A x \in KeyOrNone \ {n, t.child[Opposite(s)][n]} : h2[x] = h[x],
           h2[t.child[Opposite(s)][n]] = h[n],
           h2[n] = Height(t, h, gs, ga, s, n) + Weight(t, n),
           h2[n] = h[t.child[s][t.child[Opposite(s)][n]]]
                     + (IF Opposite(s) = gs /\ n = ga THEN 1 ELSE 0) + Weight(t, n),
           h[n] = h2[n] + Weight(t, t.child[Opposite(s)][n]),
           h[n] = h[t.child[Opposite(s)][t.child[Opposite(s)][n]]]
                    + Weight(t, t.child[Opposite(s)][n])
    PROVE  Balanced(Rotate(t, n, s), ns, h2, gs, ga)
  <1> DEFINE o == Opposite(s)
             up == t.child[o][n]
             inner == t.child[s][up]
             p == t.parent[n]
             side == SideOf(t, n, p)
             r == Rotate(t, n, s)
  <1>1. /\ t \in Trees /\ ns \subseteq Keys
        /\ n \in Keys /\ o \in Sides /\ o # s
        /\ \A q \in Sides : q = s \/ q = o
    BY SidesTwo DEF Ordered
  <1>2. /\ up \in ns /\ up \in Keys /\ up # n /\ t.parent[up] = n /\ up # t.child[s][n]
    BY ONLY <1>1, ChildFacts, Ordered(t, ns, sub), n \in ns, s \in Sides,
            t.child[Opposite(s)][n] # None
  <1>3. /\ p # n
        /\ p # None => t.child[side][p] = n
        /\ \A q \in Sides, x \in ns : t.child[q][x] = n => x = p /\ q = side
    BY ONLY <1>1, ParentFacts, Ordered(t, ns, sub), n \in ns
  <1>4. /\ \A q \in Sides, x \in Keys :
              r.child[q][x] = IF x = n /\ q = o THEN inner
                              ELSE IF x = up /\ q = s THEN n
                              ELSE IF x = p /\ q = side THEN up
                              ELSE t.child[q][x]
        /\ r.color = t.color
    BY ONLY RotateOrdered, Ordered(t, ns, sub), n \in ns, s \in Sides,
            t.child[Opposite(s)][n] # None DEF Rotated, Turned
  <1>5. \A q \in Sides, x \in ns :
            LET d == t.child[q][x]
            IN  d # None => d \in ns /\ t.parent[d] = x /\ d # x /\ d # t.child[Opposite(q)][x]
    BY ONLY ChildFacts, Ordered(t, ns, sub)
  <1>6. \A q \in Sides, x \in ns : t.child[q][x] \in KeyOrNone
    BY <1>1, LinkTypes
  <1>7. p # up
    BY ONLY <1>1, ParentNoChild, Ordered(t, ns, sub), n \in ns, s \in Sides,
            t.child[Opposite(s)][n] # None
  <1>8. /\ ga # up
        /\ \A x \in ns \ {n, up}, q \in Sides :
              h[x] = Height(t, h, gs, ga, q, x) + Weight(t, x)
        /\ \A x \in KeyOrNone \ {n, up} : h2[x] = h[x]
        /\ h2[up] = h[n]
        /\ h2[n] = Height(t, h, gs, ga, s, n) + Weight(t, n)
        /\ h2[n] = h[inner] + (IF o = gs /\ n = ga THEN 1 ELSE 0) + Weight(t, n)
        /\ h[n] = h2[n] + Weight(t, up)
        /\ h[n] = h[t.child[o][up]] + Weight(t, up)
    OBVIOUS
  <1> HIDE DEF r, up, inner, p, side, o
  <1>9. \A x \in ns : Weight(r, x) = Weight(t, x)
    BY <1>4 DEF Weight
  <1>10. \A x : Weight(t, x) \in Nat
    BY DEF Weight
  <1>11. ASSUME NEW x \in ns, NEW q \in Sides
         PROVE  h2[x] = Height(r, h2, gs, ga, q, x) + Weight(r, x)
    <2> DEFINE d == t.child[q][x]
    <2>1. x \in Keys /\ d \in KeyOrNone
      BY <1>1, <1>6
    <2>2. CASE x = n /\ q = o
      <3>1. r.child[q][x] = inner
        BY <1>4, <2>2, <2>1
      <3>2. inner # n /\ inner # up /\ inner \in KeyOrNone
        BY ONLY <1>1, <1>2, <1>5, <1>6, <1>7, NoneApart, n \in ns, s \in Sides
                DEF inner, p
      <3>3. h2[inner] = h[inner]
        BY <1>8, <3>2
      <3> QED
        BY <3>1, <3>3, <2>2, <1>8, <1>9 DEF Height
    <2>3. CASE x = n /\ q = s
      <3>1. r.child[q][x] = d
        BY <1>1, <1>2, <1>3, <1>4, <2>3, <2>1
      <3>2. d # n /\ d # up
        BY <2>3, <1>1, <1>2, <1>5, NoneApart
      <3>3. h2[d] = h[d]
        BY <1>8, <3>2, <2>1
      <3> QED
        BY <3>1, <3>3, <2>3, <1>8, <1>9 DEF Height
    <2>4. CASE x = up /\ q = s
      <3>1. r.child[q][x] = n
        BY <1>2, <1>4, <2>4, <2>1
      <3>2. h2[n] \in Nat /\ h2[x] = h2[n] + Weight(r, x)
        BY <2>4, <1>1, <1>8, <1>9, NoneApart
      <3>3. Height(r, h2, gs, ga, q, x) = h2[n]
        BY ONLY <3>1, <3>2, <2>4, <1>8 DEF Height
      <3> QED
        BY <3>2, <3>3
    <2>5. CASE x = up /\ q = o
      <3>1. r.child[q][x] = d
        BY <1>1, <1>2, <1>7, <1>4, <2>5, <2>1
      <3>2. d # n /\ d # up
        BY ONLY <2>5, <1>1, <1>2, <1>5, <1>7, NoneApart, n \in ns DEF p
      <3>3. h2[d] = h[d]
        BY <1>8, <3>2, <2>1
      <3> QED
        BY ONLY <3>1, <3>3, <2>5, <1>8, <1>9, <2>1, x \in ns, h2 \in [KeyOrNone -> Nat] DEF Height
    <2>6. CASE x # n /\ x # up /\ x = p /\ q = side
      <3>1. r.child[q][x] = up /\ d = n
        BY <1>2, <1>3, <1>4, <2>6, <2>1, NoneApart
      <3>2. h2[x] = h[x] /\ h[x] = Height(t, h, gs, ga, q, x) + Weight(t, x)
        BY <1>8, <2>6, <2>1, NoneApart
      <3> QED
        BY <3>1, <3>2, <1>8, <1>9 DEF Height
    <2>7. CASE x # n /\ x # up /\ ~(x = p /\ q = side)
      <3>1. r.child[q][x] = d
        BY <1>4, <2>7, <2>1
      <3>2. d # n /\ d # up
        BY ONLY <2>1, <2>7, <1>1, <1>2, <1>3, <1>5, NoneApart, x \in ns, q \in Sides
      <3>3. h2[d] = h[d] /\ h2[x] = h[x] /\ h[x] = Height(t, h, gs, ga, q, x) + Weight(t, x)
        BY <1>8, <3>2, <2>1, <2>7, NoneApart
      <3> QED
        BY <3>1, <3>3, <1>9 DEF Height
    <2> QED
      BY <2>2, <2>3, <2>4, <2>5, <2>6, <2>7, <1>1
  <1>12. h2[None] = 0
    BY <1>1, <1>2, <1>8, NoneApart
  <1> QED
    BY <1>11, <1>12 DEF Balanced, r

-----------------------------------------------------------------------------
(* The rotations of the fixups with the colors they paint *)

LEMMA ClashIs ==
    ASSUME NEW t, NEW ns, NEW x \in ns
    PROVE  x \in Clashes(t, ns)
              <=> t.color[x] = RED /\ (x = t.root \/ t.color[t.parent[x]] = RED)
  BY DEF Clashes

\* Every place has a height.
LEMMA HeightTypes ==
    ASSUME NEW t, NEW ns, NEW sub, Ordered(t, ns, sub),
           NEW h, NEW gs, NEW ga, Balanced(t, ns, h, gs, ga)
    PROVE  /\ \A x \in KeyOrNone : h[x] \in Nat
           /\ \A x \in ns : x \in KeyOrNone /\ h[x] \in Nat
           /\ \A q \in Sides, x \in ns : t.child[q][x] \in KeyOrNone
                                         /\ h[t.child[q][x]] \in Nat
  <1>1. t \in Trees /\ ns \subseteq Keys /\ h \in [KeyOrNone -> Nat]
    BY DEF Ordered, Balanced
  <1> QED
    BY <1>1, LinkTypes, NoneApart

\* Two nodes painted, the child black and its parent red.
Swapped(t, n, up) == Paint(Paint(t, {up}, BLACK), {n}, RED)

\* Recoloring leaves the links alone.
LEMMA SwappedFields ==
    ASSUME NEW t, NEW ns, NEW sub, Ordered(t, ns, sub), NEW n \in ns, NEW up \in ns
    PROVE  LET r == Swapped(t, n, up)
           IN  /\ Ordered(r, ns, sub)
               /\ r.root = t.root /\ r.parent = t.parent /\ r.child = t.child
               /\ \A x \in Keys : r.color[x] = IF x = n THEN RED ELSE
                                               IF x = up THEN BLACK ELSE t.color[x]
  <1> DEFINE a == Paint(t, {up}, BLACK)
             r == Paint(a, {n}, RED)
  <1>1. /\ Ordered(a, ns, sub)
        /\ a.root = t.root /\ a.parent = t.parent /\ a.child = t.child
        /\ \A x \in Keys : a.color[x] = IF x \in {up} THEN BLACK ELSE t.color[x]
    BY PaintOrdered
  <1> HIDE DEF a
  <1>2. /\ Ordered(r, ns, sub)
        /\ r.root = a.root /\ r.parent = a.parent /\ r.child = a.child
        /\ \A x \in Keys : r.color[x] = IF x \in {n} THEN RED ELSE a.color[x]
    BY <1>1, PaintOrdered
  <1>3. r = Swapped(t, n, up)
    BY DEF Swapped, a
  <1> HIDE DEF r
  <1> QED
    BY <1>1, <1>2, <1>3

LEMMA TurnedSame ==
    ASSUME NEW t, NEW u, NEW r, NEW n, NEW s, Turned(u, r, n, s),
           u.root = t.root, u.parent = t.parent, u.child = t.child
    PROVE  Turned(t, r, n, s)
  <1>1. \A p : SideOf(u, n, p) = SideOf(t, n, p)
    BY DEF SideOf
  <1> QED
    BY <1>1 DEF Turned

\* A red child up of a black node n: the two change colors and places.  The
\* heights stay, and so does the place that is short, unless it is up or below.
LEMMA TurnSwapped ==
    ASSUME NEW t, NEW ns, NEW sub, Ordered(t, ns, sub),
           NEW h, NEW gs, NEW ga, Balanced(t, ns, h, gs, ga),
           NEW n \in ns, NEW s \in Sides, NEW up, up = t.child[Opposite(s)][n],
           up # None, t.color[n] = BLACK, t.color[up] = RED,
           ga # up, ~(ga = n /\ gs = Opposite(s)),
           ColorOf(t, t.child[s][n]) = BLACK,
           \A x \in Clashes(t, ns) : x = t.child[Opposite(s)][up]
    PROVE  LET r == Rotate(Swapped(t, n, up), n, s)
           IN  /\ Turned(t, r, n, s)
               /\ \A x \in Keys : r.color[x] = IF x = n THEN RED ELSE
                                               IF x = up THEN BLACK ELSE t.color[x]
               /\ \E sub2 : Ordered(r, ns, sub2)
               /\ \E h2 : Balanced(r, ns, h2, gs, ga)
               /\ Clashes(r, ns) = {}
  <1> DEFINE o == Opposite(s)
             inner == t.child[s][up]
             outer == t.child[o][up]
             p == t.parent[n]
             u == Swapped(t, n, up)
             r == Rotate(u, n, s)
             h2 == [h EXCEPT ![n] = h[up], ![up] = h[n]]
  <1>1. /\ t \in Trees /\ ns \subseteq Keys /\ n \in Keys /\ o \in Sides /\ o # s
        /\ \A q \in Sides : q = s \/ q = o
    BY SidesTwo DEF Ordered
  <1>2. /\ up \in ns /\ up \in Keys /\ up # n /\ t.parent[up] = n /\ up # t.root
        /\ up # t.child[s][n]
    BY <1>1, ChildFacts
  <1>3. /\ Ordered(u, ns, sub)
        /\ u.root = t.root /\ u.parent = t.parent /\ u.child = t.child
        /\ \A x \in Keys : u.color[x] = IF x = n THEN RED ELSE
                                        IF x = up THEN BLACK ELSE t.color[x]
    BY <1>2, SwappedFields
  <1> HIDE DEF u
  <1>4. /\ Rotated(u, r, n, s)
        /\ Ordered(r, ns, Raised(sub, n, u.child[Opposite(s)][n], s))
    BY <1>3, RotateOrdered
  <1>5. Turned(t, r, n, s) /\ r.color = u.color
    BY <1>3, <1>4, TurnedSame DEF Rotated
  <1>6. h \in [KeyOrNone -> Nat] /\ h[None] = 0
        /\ \A x \in ns, q \in Sides : h[x] = Height(t, h, gs, ga, q, x) + Weight(t, x)
    BY DEF Balanced
  <1>7. /\ h2 \in [KeyOrNone -> Nat] /\ h2[n] = h[up] /\ h2[up] = h[n]
        /\ \A x \in KeyOrNone \ {n, up} : h2[x] = h[x]
    <2>1. n \in KeyOrNone /\ up \in KeyOrNone
      BY <1>1, <1>2, NoneApart
    <2> QED
      BY <1>2, <1>6, <2>1
  <1>8. /\ h[n] = h[up] + 1 /\ h[n] = Height(t, h, gs, ga, s, n) + 1
        /\ h[up] = h[inner] /\ h[up] = h[outer]
    <2>1. /\ h[n] = Height(t, h, gs, ga, o, n) + Weight(t, n)
          /\ h[n] = Height(t, h, gs, ga, s, n) + Weight(t, n)
          /\ h[up] = Height(t, h, gs, ga, s, up) + Weight(t, up)
          /\ h[up] = Height(t, h, gs, ga, o, up) + Weight(t, up)
      BY <1>1, <1>2, <1>6
    <2>2. Weight(t, n) = 1 /\ Weight(t, up) = 0
      BY DEF Weight, RED, BLACK
    <2>3. /\ Height(t, h, gs, ga, o, n) = h[up]
          /\ Height(t, h, gs, ga, s, up) = h[inner]
          /\ Height(t, h, gs, ga, o, up) = h[outer]
      <3>1. h[up] \in Nat /\ h[inner] \in Nat /\ h[outer] \in Nat
        BY <1>1, <1>2, HeightTypes
      <3>2. ga # up /\ ~(ga = n /\ gs = o) /\ t.child[o][n] = up
        OBVIOUS
      <3> HIDE DEF o, inner, outer
      <3> QED
        BY <3>1, <3>2 DEF Height, inner, outer
    <2>4. h[up] \in Nat /\ h[inner] \in Nat /\ h[outer] \in Nat
      BY <1>1, <1>2, HeightTypes
    <2> HIDE DEF o, inner, outer
    <2> QED
      BY <2>1, <2>2, <2>3, <2>4
  <1>9. /\ \A x \in ns \ {n, up}, q \in Sides :
              h[x] = Height(u, h, gs, ga, q, x) + Weight(u, x)
        /\ Weight(u, n) = 0 /\ Weight(u, up) = 1
        /\ Height(u, h, gs, ga, s, n) = Height(t, h, gs, ga, s, n)
    <2>1. \A x \in ns \ {n, up} : Weight(u, x) = Weight(t, x)
      BY <1>1, <1>3 DEF Weight
    <2>2. \A x, q : Height(u, h, gs, ga, q, x) = Height(t, h, gs, ga, q, x)
      BY <1>3 DEF Height
    <2>3. Weight(u, n) = 0 /\ Weight(u, up) = 1
      BY <1>1, <1>2, <1>3 DEF Weight, RED, BLACK
    <2> QED
      BY <1>6, <2>1, <2>2, <2>3
  <1>10. Balanced(r, ns, h2, gs, ga)
    <2>1. /\ u.child[Opposite(s)][n] = up /\ u.child[s][up] = inner
          /\ u.child[Opposite(s)][up] = outer
      BY <1>3
    <2>2. h2[n] = Height(u, h, gs, ga, s, n) + Weight(u, n)
      <3>1. h[up] \in Nat /\ Height(t, h, gs, ga, s, n) \in Nat
        <4>1. h[t.child[s][n]] \in Nat /\ h[up] \in Nat
          BY ONLY HeightTypes, <1>2, Ordered(t, ns, sub), Balanced(t, ns, h, gs, ga),
                  n \in ns, s \in Sides
        <4> QED
          BY <4>1 DEF Height
      <3> QED
        BY ONLY <3>1, <1>7, <1>8, <1>9
    <2>3. /\ h2[n] = h[inner] + (IF o = gs /\ n = ga THEN 1 ELSE 0) + Weight(u, n)
          /\ h[n] = h2[n] + Weight(u, up) /\ h[n] = h[outer] + Weight(u, up)
      <3>1. h[inner] \in Nat /\ h[outer] \in Nat
        BY <1>1, <1>2, HeightTypes
      <3>2. ~(o = gs /\ n = ga)
        OBVIOUS
      <3> HIDE DEF o, inner, outer, h2
      <3> QED
        BY ONLY <3>1, <3>2, <1>7, <1>8, <1>9
    <2> HIDE DEF h2, inner, outer, r
    <2> QED
      BY ONLY <1>1, <1>2, <1>3, <1>6, <1>7, <1>9, <2>1, <2>2, <2>3, RotateBalanced,
              n \in ns, s \in Sides, up # None, ga # up DEF r
  <1>11. \A x \in Keys : r.color[x] = IF x = n THEN RED ELSE
                                      IF x = up THEN BLACK ELSE t.color[x]
    BY <1>3, <1>5
  <1>12. /\ r.root = (IF p = None THEN up ELSE t.root)
         /\ \A x \in Keys :
              r.parent[x] = IF x = n THEN up ELSE IF x = up THEN p
                            ELSE IF x = inner THEN n ELSE t.parent[x]
    BY <1>5 DEF Turned
  <1>13. /\ p = None <=> n = t.root
         /\ inner # None => t.parent[inner] = up /\ inner # outer /\ inner \in ns
         /\ outer # None => outer # t.root /\ t.parent[outer] = up
    BY ONLY <1>1, <1>2, ParentFacts, ChildFacts, Ordered(t, ns, sub), n \in ns, s \in Sides
  <1>14. ASSUME NEW x \in Clashes(r, ns) PROVE FALSE
    <2> HIDE DEF r, inner, outer, p, o
    <2>1. x \in ns /\ r.color[x] = RED /\ (x = r.root \/ r.color[r.parent[x]] = RED)
          /\ x \in Keys /\ x # None
      BY <1>1, NoneApart DEF Clashes
    <2>2. x # up
      BY <1>2, <1>11, <2>1 DEF RED, BLACK
    <2>3. x # n
      BY <1>1, <1>2, <1>11, <1>12, <1>13, <2>1 DEF RED, BLACK
    <2>4. t.color[x] = RED
      BY <1>11, <2>1, <2>2, <2>3
    <2>5. x \in Clashes(t, ns) => x = outer
      BY DEF outer, o
    <2>6. x # r.root
      BY <1>12, <1>13, <2>1, <2>2, <2>4, <2>5, ClashIs
    <2>7. x # inner
      BY <1>13, <2>1, <2>4, <2>5, ClashIs
    <2>8. r.parent[x] = t.parent[x] /\ t.parent[x] \in ns
      <3>1. x # t.root
        BY <2>1, <2>2, <2>3, <2>6, <1>12, <1>13, <2>4, <2>5, ClashIs
      <3> QED
        BY <3>1, <1>12, <2>1, <2>2, <2>3, <2>7 DEF Ordered
    <2>9. r.color[t.parent[x]] = RED /\ t.parent[x] \in Keys
      BY <2>1, <2>6, <2>8, <1>1
    <2>10. CASE t.parent[x] = n
      <3>1. x = t.child[s][n]
        <4>1. x # t.root
          BY <2>1, <2>4, <2>5, <1>13, ClashIs
        <4>2. \E q \in Sides : t.child[q][n] = x
          BY <4>1, <2>1, <2>10 DEF Ordered
        <4> QED
          BY <4>2, <1>1, <2>2 DEF o
      <3> QED
        BY <3>1, <2>1, <2>4 DEF ColorOf, RED, BLACK
    <2>11. CASE t.parent[x] # n
      <3>1. t.parent[x] # up /\ t.color[t.parent[x]] = RED
        BY <2>9, <2>11, <1>11, <1>2 DEF RED, BLACK
      <3> QED
        BY <3>1, <2>1, <2>4, <2>5, <1>13, ClashIs
    <2> QED
      BY <2>10, <2>11
  <1>15. Clashes(r, ns) = {}
    BY <1>14
  <1>16. r = Rotate(Swapped(t, n, up), n, s)
    BY DEF u
  <1> HIDE DEF r, h2
  <1> QED
    BY <1>4, <1>5, <1>10, <1>11, <1>15, <1>16

\* Two red nodes, of which only the lower one clashes: it takes the upper
\* place, and now the other one clashes.
LEMMA TurnRed ==
    ASSUME NEW t, NEW ns, NEW sub, Ordered(t, ns, sub),
           NEW h, NEW gs, Balanced(t, ns, h, gs, None),
           NEW n \in ns, NEW s \in Sides, NEW up, up = t.child[Opposite(s)][n],
           up # None, t.color[n] = RED, t.color[up] = RED,
           \A x \in Clashes(t, ns) : x = up
    PROVE  LET r == Rotate(t, n, s)
           IN  /\ Turned(t, r, n, s) /\ r.color = t.color
               /\ \E sub2 : Ordered(r, ns, sub2)
               /\ \E h2 : Balanced(r, ns, h2, gs, None)
               /\ \A x \in Clashes(r, ns) : x = n
  <1> DEFINE o == Opposite(s)
             inner == t.child[s][up]
             outer == t.child[o][up]
             p == t.parent[n]
             r == Rotate(t, n, s)
  <1>1. /\ t \in Trees /\ ns \subseteq Keys /\ n \in Keys /\ o \in Sides /\ o # s
        /\ \A q \in Sides : q = s \/ q = o
    BY SidesTwo DEF Ordered
  <1>2. /\ up \in ns /\ up \in Keys /\ up # n /\ t.parent[up] = n /\ up # t.root
        /\ up # t.child[s][n] /\ up # None
    BY <1>1, ChildFacts
  <1>3. Rotated(t, r, n, s) /\ Ordered(r, ns, Raised(sub, n, up, s))
    BY RotateOrdered
  <1>4. Turned(t, r, n, s) /\ r.color = t.color
    BY <1>3 DEF Rotated
  <1>5. h \in [KeyOrNone -> Nat] /\ h[None] = 0
        /\ \A x \in ns, q \in Sides : h[x] = Height(t, h, gs, None, q, x) + Weight(t, x)
    BY DEF Balanced
  <1>6. Weight(t, n) = 0 /\ Weight(t, up) = 0
    BY DEF Weight, RED, BLACK
  <1>7. /\ h[n] = h[up] /\ h[up] = h[inner] /\ h[up] = h[outer]
        /\ h[n] = Height(t, h, gs, None, s, n)
    <2>1. /\ h[n] = Height(t, h, gs, None, o, n) + Weight(t, n)
          /\ h[n] = Height(t, h, gs, None, s, n) + Weight(t, n)
          /\ h[up] = Height(t, h, gs, None, s, up) + Weight(t, up)
          /\ h[up] = Height(t, h, gs, None, o, up) + Weight(t, up)
      BY <1>1, <1>2, <1>5
    <2>2. h[up] \in Nat /\ h[inner] \in Nat /\ h[outer] \in Nat /\ h[t.child[s][n]] \in Nat
      BY <1>1, <1>2, HeightTypes
    <2>3. n # None /\ t.child[o][n] = up
      BY <1>1, NoneApart
    <2> HIDE DEF o, inner, outer
    <2> QED
      BY ONLY <2>1, <2>2, <2>3, <1>2, <1>6 DEF Height, inner, outer
  <1>8. Balanced(r, ns, h, gs, None)
    <2>1. h[n] \in Nat /\ h[up] \in Nat /\ h[inner] \in Nat /\ h[outer] \in Nat
      BY <1>1, <1>2, HeightTypes
    <2>2. /\ h[up] = h[n]
          /\ h[n] = Height(t, h, gs, None, s, n) + Weight(t, n)
          /\ h[n] = h[t.child[s][t.child[Opposite(s)][n]]]
                       + (IF Opposite(s) = gs /\ n = None THEN 1 ELSE 0) + Weight(t, n)
          /\ h[n] = h[n] + Weight(t, t.child[Opposite(s)][n])
          /\ h[n] = h[t.child[Opposite(s)][t.child[Opposite(s)][n]]]
                       + Weight(t, t.child[Opposite(s)][n])
      <3>1. n # None
        BY <1>1, NoneApart
      <3>2. /\ h[n] = h[inner] + 0 + Weight(t, n) /\ h[n] = h[n] + Weight(t, up)
            /\ h[n] = h[outer] + Weight(t, up)
        <4> HIDE DEF inner, outer
        <4> QED
          BY <2>1, <1>6, <1>7
      <3> QED
        BY <3>1, <3>2, <1>5, <1>7
    <2> HIDE DEF r, inner, outer, o
    <2> QED
      BY <1>2, <1>5, <2>2, RotateBalanced DEF r
  <1>9. /\ r.root = (IF p = None THEN up ELSE t.root)
        /\ \A x \in Keys :
              r.parent[x] = IF x = n THEN up ELSE IF x = up THEN p
                            ELSE IF x = inner THEN n ELSE t.parent[x]
    <2> HIDE DEF r
    <2>1. up = t.child[Opposite(s)][n]
      OBVIOUS
    <2>2. r.root = (IF p = None THEN up ELSE t.root)
      BY ONLY <1>4, <2>1 DEF Turned
    <2>3. ASSUME NEW x \in Keys
          PROVE  r.parent[x] = IF x = n THEN up ELSE IF x = up THEN p
                               ELSE IF x = inner THEN n ELSE t.parent[x]
      BY ONLY <1>4, <2>1, x \in Keys DEF Turned
    <2> QED
      BY ONLY <2>2, <2>3
  <1>10. /\ p = None <=> n = t.root
         /\ inner # None => t.parent[inner] = up /\ inner # up /\ inner \in ns
    BY <1>1, <1>2, ParentFacts, ChildFacts
  <1>11. ASSUME NEW x \in Clashes(r, ns), x # n PROVE FALSE
    <2> HIDE DEF r, inner, outer, p, o
    <2>1. /\ x \in ns /\ t.color[x] = RED /\ (x = r.root \/ t.color[r.parent[x]] = RED)
          /\ x \in Keys /\ x # None
      BY <1>1, <1>4, NoneApart DEF Clashes
    <2>2. n \notin Clashes(t, ns) /\ (x # up => x \notin Clashes(t, ns))
      BY <1>2
    <2>3. x # up
      BY <1>2, <1>9, <1>10, <2>1, <2>2, ClashIs DEF p
    <2>4. x # inner
      BY <1>10, <2>1, <2>2, <2>3, ClashIs
    <2>5. r.parent[x] = t.parent[x]
      BY <1>9, <2>1, <2>3, <2>4, <1>11
    <2> QED
      BY <1>9, <2>1, <2>2, <2>3, <2>5, ClashIs
  <1> HIDE DEF r
  <1> QED
    BY <1>3, <1>4, <1>8, <1>11 DEF r

\* The place below n is short, and its sibling up is black with a red outer
\* child: up takes the place and the color of n, and nothing is short.
Settled(t, n, up, far) == Paint(Paint(t, {up}, ColorOf(t, n)), {n, far}, BLACK)

\* The rotation that ends treemap_delete_fixup makes up for the black node.
LEMMA TurnShort ==
    ASSUME NEW t, NEW ns, NEW sub, Ordered(t, ns, sub),
           NEW h, NEW n \in ns, NEW s \in Sides, Balanced(t, ns, h, s, n),
           NEW up, up = t.child[Opposite(s)][n], up # None, t.color[up] = BLACK,
           NEW far, far = t.child[Opposite(s)][up], far # None, t.color[far] = RED,
           Clashes(t, ns) = {}
    PROVE  LET r == Rotate(Settled(t, n, up, far), n, s)
           IN  /\ \E sub2 : Ordered(r, ns, sub2)
               /\ \E h2 : Balanced(r, ns, h2, s, None)
               /\ Clashes(r, ns) = {}
  <1> DEFINE o == Opposite(s)
             inner == t.child[s][up]
             p == t.parent[n]
             a == Paint(t, {up}, ColorOf(t, n))
             u == Settled(t, n, up, far)
             r == Rotate(u, n, s)
             h1 == [h EXCEPT ![far] = h[far] + 1]
             h2 == [h1 EXCEPT ![n] = h[up], ![up] = h[n]]
  <1>1. /\ t \in Trees /\ ns \subseteq Keys /\ n \in Keys /\ o \in Sides /\ o # s
        /\ \A q \in Sides : q = s \/ q = o
        /\ n # None
    BY SidesTwo, NoneApart DEF Ordered
  <1>2. /\ up \in ns /\ up \in Keys /\ up # n /\ t.parent[up] = n /\ up # t.root
        /\ up # t.child[s][n]
    BY <1>1, ChildFacts
  <1>3. /\ far \in ns /\ far \in Keys /\ far # up /\ t.parent[far] = up /\ far # t.root
        /\ far # inner /\ far # n
    BY ONLY <1>1, <1>2, ChildFacts, ParentNoChild, Ordered(t, ns, sub), n \in ns, s \in Sides,
            far = t.child[Opposite(s)][up], far # None
  <1>4. ColorOf(t, n) \in {RED, BLACK} /\ ColorOf(t, n) = t.color[n]
    BY <1>1 DEF ColorOf, Ordered
  <1>5. /\ Ordered(a, ns, sub)
        /\ a.root = t.root /\ a.parent = t.parent /\ a.child = t.child
        /\ \A x \in Keys : a.color[x] = IF x \in {up} THEN t.color[n] ELSE t.color[x]
    BY <1>2, <1>4, PaintOrdered
  <1>6. /\ Ordered(u, ns, sub)
        /\ u.root = t.root /\ u.parent = t.parent /\ u.child = t.child
        /\ \A x \in Keys : u.color[x] = IF x = n \/ x = far THEN BLACK ELSE
                                        IF x = up THEN t.color[n] ELSE t.color[x]
    <2>1. u = Paint(a, {n, far}, BLACK)
      BY DEF Settled
    <2> HIDE DEF a, u
    <2>2. /\ Ordered(u, ns, sub)
          /\ u.root = a.root /\ u.parent = a.parent /\ u.child = a.child
          /\ \A x \in Keys : u.color[x] = IF x \in {n, far} THEN BLACK ELSE a.color[x]
      BY ONLY <1>3, <1>5, <2>1, PaintOrdered, n \in ns
    <2> QED
      BY <2>2, <1>5
  <1> HIDE DEF u, a
  <1>7. /\ Rotated(u, r, n, s)
        /\ Ordered(r, ns, Raised(sub, n, u.child[Opposite(s)][n], s))
    BY <1>6, RotateOrdered
  <1>8. Turned(t, r, n, s) /\ r.color = u.color
    BY <1>6, <1>7, TurnedSame DEF Rotated
  <1>9. h \in [KeyOrNone -> Nat] /\ h[None] = 0
        /\ \A x \in ns, q \in Sides : h[x] = Height(t, h, s, n, q, x) + Weight(t, x)
    BY DEF Balanced
  <1>10. /\ h1 \in [KeyOrNone -> Nat] /\ h1[None] = 0
         /\ h1[far] = h[far] + 1 /\ \A x \in KeyOrNone \ {far} : h1[x] = h[x]
         /\ h2 \in [KeyOrNone -> Nat] /\ h2[n] = h[up] /\ h2[up] = h[n]
         /\ \A x \in KeyOrNone \ {n, up} : h2[x] = h1[x]
         /\ h1[n] = h[n]
    <2>1. n \in KeyOrNone /\ up \in KeyOrNone /\ far \in KeyOrNone /\ None \in KeyOrNone
      BY <1>1, <1>2, <1>3, NoneApart
    <2>2. /\ h1 \in [KeyOrNone -> Nat] /\ h1[None] = 0
          /\ h1[far] = h[far] + 1 /\ \A x \in KeyOrNone \ {far} : h1[x] = h[x]
          /\ h1[n] = h[n]
      <3>1. h[far] + 1 \in Nat /\ far # None /\ far # n
        BY ONLY <1>3, <1>9, <2>1, far # None
      <3> QED
        BY ONLY <1>9, <2>1, <3>1
    <2> HIDE DEF h1
    <2> QED
      BY <1>2, <1>9, <2>1, <2>2
  <1> HIDE DEF h1, h2
  <1>11. /\ h[n] = h[up] + (IF t.color[n] = BLACK THEN 1 ELSE 0)
         /\ h[up] = h[t.child[s][n]] + 1
         /\ h[up] = h[inner] + 1 /\ h[up] = h[far] + 1
    <2>1. /\ h[n] = Height(t, h, s, n, o, n) + Weight(t, n)
          /\ h[n] = Height(t, h, s, n, s, n) + Weight(t, n)
          /\ h[up] = Height(t, h, s, n, s, up) + Weight(t, up)
          /\ h[up] = Height(t, h, s, n, o, up) + Weight(t, up)
      BY <1>1, <1>2, <1>9
    <2>2. h[up] \in Nat /\ h[inner] \in Nat /\ h[far] \in Nat /\ h[t.child[s][n]] \in Nat
          /\ h[n] \in Nat
      BY <1>1, <1>2, HeightTypes
    <2>3. t.child[o][n] = up /\ t.child[o][up] = far /\ Weight(t, up) = 1
      BY DEF Weight
    <2>4. Weight(t, n) = (IF t.color[n] = BLACK THEN 1 ELSE 0)
      BY DEF Weight
    <2> HIDE DEF o, inner
    <2>5. /\ Height(t, h, s, n, o, n) = h[up]
          /\ Height(t, h, s, n, s, n) = h[t.child[s][n]] + 1
          /\ Height(t, h, s, n, s, up) = h[inner]
          /\ Height(t, h, s, n, o, up) = h[far]
      BY ONLY <1>1, <1>2, <2>2, <2>3 DEF Height, inner
    <2> QED
      BY <2>1, <2>2, <2>3, <2>4, <2>5
  <1>12. \A x \in ns \ {n, up}, q \in Sides :
            h1[x] = Height(u, h1, s, None, q, x) + Weight(u, x)
    <2> SUFFICES ASSUME NEW x \in ns \ {n, up}, NEW q \in Sides
                 PROVE  h1[x] = Height(u, h1, s, None, q, x) + Weight(u, x)
      OBVIOUS
    <2>1. h[x] = Height(t, h, s, n, q, x) + Weight(t, x)
      BY <1>9
    <2>2. x \in Keys /\ x # None /\ h[x] \in Nat /\ t.child[q][x] \in KeyOrNone
          /\ h[t.child[q][x]] \in Nat /\ x \in KeyOrNone
      BY <1>1, HeightTypes, NoneApart
    <2>3. t.child[q][x] # far
      BY ONLY <1>2, <1>3, ChildFacts, Ordered(t, ns, sub), x \in ns \ {n, up}, q \in Sides,
              NoneApart, far # None
    <2>4. Height(u, h1, s, None, q, x) = h[t.child[q][x]]
          /\ Height(t, h, s, n, q, x) = h[t.child[q][x]]
      <3>1. h1[t.child[q][x]] = h[t.child[q][x]] /\ u.child = t.child /\ x # n
        BY <2>2, <2>3, <1>6, <1>10
      <3> QED
        BY <2>2, <3>1 DEF Height
    <2>5. CASE x = far
      <3>1. Weight(u, x) = 1 /\ Weight(t, x) = 0
        BY <2>5, <2>2, <1>6 DEF Weight, RED, BLACK
      <3> QED
        <4>1. h1[x] = h[x] + 1
          BY <2>5, <1>10
        <4> QED
          BY <3>1, <4>1, <2>1, <2>2, <2>4
    <2>6. CASE x # far
      <3>1. Weight(u, x) = Weight(t, x)
        BY <2>6, <2>2, <1>6 DEF Weight
      <3> QED
        <4>1. h1[x] = h[x] /\ Weight(t, x) \in {0, 1}
          BY <2>2, <2>6, <1>10 DEF Weight
        <4> QED
          BY <3>1, <4>1, <2>1, <2>2, <2>4
    <2> QED
      BY <2>5, <2>6
  <1>13. Balanced(r, ns, h2, s, None)
    <2>1. Weight(u, n) = 1 /\ Weight(u, up) = (IF t.color[n] = BLACK THEN 1 ELSE 0)
      BY <1>1, <1>2, <1>3, <1>6 DEF Weight
    <2>2. h[up] \in Nat /\ h[inner] \in Nat /\ h[far] \in Nat /\ h[t.child[s][n]] \in Nat
          /\ h[n] \in Nat
      BY <1>1, <1>2, HeightTypes
    <2>3. inner \in KeyOrNone /\ t.child[s][n] \in KeyOrNone /\ t.child[s][n] # far
      BY ONLY <1>1, <1>2, <1>3, LinkTypes, ChildFacts, Ordered(t, ns, sub), n \in ns,
              s \in Sides, far # None
    <2>4. u.child[Opposite(s)][n] = up /\ u.child[s][up] = inner
          /\ u.child[Opposite(s)][up] = far /\ u.child[s][n] = t.child[s][n]
      BY <1>6
    <2>5. h1[inner] = h[inner] /\ h1[t.child[s][n]] = h[t.child[s][n]]
      BY <1>3, <1>10, <2>3
    <2> HIDE DEF inner, o, r
    <2>6. Height(u, h1, s, None, s, n) = h[t.child[s][n]]
      BY <1>1, <2>2, <2>4, <2>5 DEF Height
    <2>7. /\ h2[up] = h1[n]
          /\ h2[n] = Height(u, h1, s, None, s, n) + Weight(u, n)
          /\ h2[n] = h1[inner] + 0 + Weight(u, n)
          /\ h1[n] = h2[n] + Weight(u, up)
          /\ h1[n] = h1[far] + Weight(u, up)
      BY ONLY <1>10, <1>11, <2>1, <2>2, <2>5, <2>6
    <2>8. h2[n] = h1[u.child[s][u.child[Opposite(s)][n]]]
                    + (IF Opposite(s) = s /\ n = None THEN 1 ELSE 0) + Weight(u, n)
      BY <1>1, <2>4, <2>7
    <2> QED
      BY ONLY <1>2, <1>6, <1>10, <1>12, <2>4, <2>7, <2>8, NoneApart,
              RotateBalanced, n \in ns, s \in Sides, up # None DEF r
  <1>14. /\ r.root = (IF p = None THEN up ELSE t.root)
         /\ \A x \in Keys :
              r.parent[x] = IF x = n THEN up ELSE IF x = up THEN p
                            ELSE IF x = inner THEN n ELSE t.parent[x]
    BY <1>8 DEF Turned
  <1>15. /\ p = None <=> n = t.root
         /\ inner # None => t.parent[inner] = up /\ inner \in ns
         /\ p # None => p \in Keys /\ p # n /\ p # up
    BY ONLY <1>1, <1>2, ParentFacts, ChildFacts, ParentNoChild, Ordered(t, ns, sub),
            n \in ns, s \in Sides
  <1>16. ASSUME NEW x \in Clashes(r, ns) PROVE FALSE
    <2> HIDE DEF r, inner, p, o
    <2>1. x \in ns /\ u.color[x] = RED /\ (x = r.root \/ u.color[r.parent[x]] = RED)
          /\ x \in Keys /\ x # None
      BY <1>1, <1>8, NoneApart DEF Clashes
    <2>2. x # n /\ x # far
      BY <1>6, <2>1 DEF RED, BLACK
    <2>3. CASE x = up
      <3>1. t.color[n] = RED
        BY <1>6, <2>1, <2>2, <2>3
      <3>2. n # t.root /\ t.color[p] # RED
        BY <3>1, ClashIs DEF p
      <3>3. x # r.root /\ r.parent[x] = p /\ p # None
        BY <3>2, <1>2, <1>14, <1>15, <2>3
      <3>4. u.color[p] # RED
        BY <3>2, <3>3, <1>6, <1>15 DEF RED, BLACK
      <3> QED
        BY <3>3, <3>4, <2>1
    <2>4. CASE x # up
      <3>1. t.color[x] = RED
        BY <1>6, <2>1, <2>2, <2>4
      <3>2. x # t.root /\ t.color[t.parent[x]] # RED
        BY <3>1, <2>1, ClashIs
      <3>3. x # r.root
        BY <3>2, <1>14, <2>4
      <3>4. x # inner
        <4>1. n \in Keys /\ u.color[n] = BLACK
          BY <1>1, <1>6
        <4> QED
          BY <4>1, <2>1, <2>2, <2>4, <3>3, <1>14 DEF RED, BLACK
      <3>5. r.parent[x] = t.parent[x] /\ t.parent[x] \in Keys
        BY <3>2, <3>4, <1>1, <1>14, <2>1, <2>2, <2>4 DEF Ordered
      <3>6. t.parent[x] # up
        <4>1. t.parent[x] = up => x = inner \/ x = far
          <5>1. ASSUME t.parent[x] = up PROVE \E q \in Sides : t.child[q][up] = x
            BY <5>1, <2>1, <3>2 DEF Ordered
          <5> QED
            BY <5>1, <1>1 DEF inner, o
        <4> QED
          BY <4>1, <2>2, <3>4
      <3> QED
        BY <3>2, <3>3, <3>5, <3>6, <2>1, <1>6 DEF RED, BLACK
    <2> QED
      BY <2>3, <2>4
  <1>17. Clashes(r, ns) = {}
    BY <1>16
  <1>18. r = Rotate(Settled(t, n, up, far), n, s)
    BY DEF u
  <1> HIDE DEF r
  <1> QED
    BY <1>7, <1>13, <1>17, <1>18

-----------------------------------------------------------------------------
(* One iteration of treemap_insert_fixup *)

\* No place is short when there is no node it lies below.
LEMMA NothingShort ==
    ASSUME NEW t, NEW ns, None \notin ns, NEW h, NEW gs, NEW gs2,
           Balanced(t, ns, h, gs, None)
    PROVE  Balanced(t, ns, h, gs2, None)
  <1>1. \A n \in ns : \A s : Height(t, h, gs, None, s, n) = Height(t, h, gs2, None, s, n)
    BY DEF Height
  <1> QED
    BY <1>1 DEF Balanced

\* A red child and its red sibling hand their color to their parent.
Recolored(t, p, u, g) == Paint(Paint(t, {p, u}, BLACK), {g}, RED)

LEMMA RecolorMends ==
    ASSUME NEW t, NEW ns, NEW sub, Ordered(t, ns, sub),
           NEW h, Balanced(t, ns, h, "left", None),
           NEW n \in ns, NEW p \in ns, NEW g \in ns, t.parent[n] = p, t.parent[p] = g,
           NEW s \in Sides, t.child[s][g] = p, NEW u, t.child[Opposite(s)][g] = u,
           t.color[g] = BLACK, t.color[p] = RED, u # None, t.color[u] = RED,
           n # t.root,
           \A x \in Clashes(t, ns) : x = n
    PROVE  LET r == Recolored(t, p, u, g)
           IN  /\ \E sub2 : Ordered(r, ns, sub2)
               /\ \E h2 : Balanced(r, ns, h2, "left", None)
               /\ r.color[g] = RED
               /\ \A x \in Clashes(r, ns) : x = g
  <1> DEFINE a == Paint(t, {p, u}, BLACK)
             r == Paint(a, {g}, RED)
             h1 == [h EXCEPT ![p] = h[p] + 1]
             h2 == [h1 EXCEPT ![u] = h1[u] + 1]
  <1>1. ns \subseteq Keys /\ t \in Trees
    BY DEF Ordered
  <1>2. s \in Sides /\ t.child[s][g] = p /\ Opposite(s) \in Sides /\ p # g /\ p # t.root
        /\ \A q \in Sides : q = s \/ q = Opposite(s)
    <2>1. g # None /\ p # None
      BY <1>1, NoneApart
    <2> QED
      BY ONLY <2>1, ChildFacts, SidesTwo, Ordered(t, ns, sub), g \in ns, s \in Sides,
              t.child[s][g] = p
  <1>3. /\ u \in ns /\ u # g /\ u # p /\ t.parent[u] = g
        /\ u # t.root
    BY ONLY <1>2, ChildFacts, NoneApart, <1>1, SidesTwo, Ordered(t, ns, sub), g \in ns,
            t.child[Opposite(s)][g] = u, u # None
  <1>4. /\ Ordered(a, ns, sub)
        /\ a.root = t.root /\ a.parent = t.parent /\ a.child = t.child
        /\ \A x \in Keys : a.color[x] = IF x \in {p, u} THEN BLACK ELSE t.color[x]
    <2> DEFINE S == {p, u}
    <2>1. S \cap Keys \subseteq ns /\ BLACK \in {RED, BLACK}
      BY <1>3
    <2>2. a = Paint(t, S, BLACK) /\ Ordered(t, ns, sub)
      OBVIOUS
    <2>3. \A x : x \in S <=> x \in {p, u}
      OBVIOUS
    <2> HIDE DEF a, S
    <2>4. LET r1 == Paint(t, S, BLACK)
          IN  /\ Ordered(r1, ns, sub)
              /\ r1.root = t.root /\ r1.parent = t.parent /\ r1.child = t.child
              /\ \A x \in Keys : r1.color[x] = IF x \in S THEN BLACK ELSE t.color[x]
      BY ONLY <2>1, <2>2, PaintOrdered
    <2> QED
      BY ONLY <2>2, <2>3, <2>4
  <1> HIDE DEF a
  <1>5. /\ Ordered(r, ns, sub)
        /\ r.root = a.root /\ r.parent = a.parent /\ r.child = a.child
        /\ \A x \in Keys : r.color[x] = IF x \in {g} THEN RED ELSE a.color[x]
    BY ONLY <1>1, <1>4, PaintOrdered, g \in ns
  <1>6. /\ r.root = t.root /\ r.parent = t.parent /\ r.child = t.child
        /\ \A x \in Keys : r.color[x] = IF x = g THEN RED ELSE
                                        IF x = p \/ x = u THEN BLACK ELSE t.color[x]
    BY ONLY <1>4, <1>5
  <1> HIDE DEF r
  <1>7. /\ h \in [KeyOrNone -> Nat] /\ h[None] = 0
        /\ \A x \in ns, q \in Sides : h[x] = Height(t, h, "left", None, q, x) + Weight(t, x)
    BY DEF Balanced
  <1>8. /\ h2 \in [KeyOrNone -> Nat] /\ h2[None] = 0
        /\ h2[p] = h[p] + 1 /\ h2[u] = h[u] + 1
        /\ \A x \in KeyOrNone \ {p, u} : h2[x] = h[x]
    <2>1. p \in KeyOrNone /\ u \in KeyOrNone /\ p # u /\ p # None /\ u # None
      BY <1>1, <1>3, NoneApart
    <2>2. /\ h1 \in [KeyOrNone -> Nat] /\ h1[None] = 0 /\ h1[p] = h[p] + 1
          /\ \A x \in KeyOrNone \ {p} : h1[x] = h[x]
      BY ONLY <1>7, <2>1
    <2>3. h1[u] = h[u] /\ None \in KeyOrNone
      BY <2>1, <2>2, NoneApart
    <2> HIDE DEF h1
    <2>4. h2 \in [KeyOrNone -> Nat]
      <3>1. h1[u] + 1 \in Nat
        BY ONLY <2>1, <2>2
      <3> QED
        BY <2>2, <3>1
    <2>5. h2[u] = h1[u] + 1 /\ \A x \in KeyOrNone \ {u} : h2[x] = h1[x]
      BY <2>1, <2>2
    <2> HIDE DEF h2
    <2>6. h2[None] = 0 /\ h2[p] = h1[p]
      BY ONLY <2>1, <2>2, <2>3, <2>5
    <2>7. \A x \in KeyOrNone \ {p, u} : h2[x] = h[x]
      BY ONLY <2>2, <2>5
    <2> QED
      BY <2>2, <2>3, <2>4, <2>5, <2>6, <2>7
  <1> HIDE DEF h2
  <1>13. \A q \in Sides, x \in ns :
            t.child[q][x] # None => t.parent[t.child[q][x]] = x /\ t.child[q][x] # x
    BY ONLY ChildFacts, Ordered(t, ns, sub)
  <1>14. p # None /\ u # None /\ t.parent[p] = g /\ t.parent[u] = g
    BY <1>1, <1>3, NoneApart
  <1>9. ASSUME NEW x \in ns, NEW q \in Sides
        PROVE  h2[x] = Height(r, h2, "left", None, q, x) + Weight(r, x)
    <2> DEFINE d == t.child[q][x]
    <2>1. /\ x \in KeyOrNone /\ x \in Keys /\ x # None /\ h[x] \in Nat
          /\ d \in KeyOrNone /\ h[d] \in Nat /\ h2[d] \in Nat
      BY <1>1, <1>8, HeightTypes, NoneApart
    <2>2. h[x] = h[d] + Weight(t, x)
      BY ONLY <1>7, <2>1, x \in ns, q \in Sides DEF Height
    <2>3. Height(r, h2, "left", None, q, x) = h2[d]
      BY ONLY <1>6, <2>1 DEF Height
    <2>4. Weight(t, x) \in {0, 1}
      BY DEF Weight
    <2>5. CASE x = g
      <3>1. Weight(t, x) = 1 /\ Weight(r, x) = 0
        BY <2>1, <2>5, <1>6 DEF Weight, RED, BLACK
      <3>2. d = p \/ d = u
        BY <2>5, <1>2
      <3>3. h2[d] = h[d] + 1 /\ h2[x] = h[x]
        BY <3>2, <1>2, <1>3, <1>8, <2>1, <2>5
      <3> HIDE DEF d
      <3> QED
        BY ONLY <3>1, <3>3, <2>1, <2>2, <2>3
    <2>6. CASE x = p \/ x = u
      <3>1. Weight(t, x) = 0 /\ Weight(r, x) = 1
        BY <2>1, <2>6, <1>2, <1>3, <1>6 DEF Weight, RED, BLACK
      <3>2. d # p /\ d # u
        <4>1. x # g /\ (d # None => t.parent[d] = x)
          BY <2>6, <1>2, <1>3, <1>13
        <4> HIDE DEF d
        <4> QED
          BY <4>1, <1>14
      <3>3. h2[d] = h[d] /\ h2[x] = h[x] + 1
        BY <3>2, <1>8, <2>1, <2>6
      <3> HIDE DEF d
      <3> QED
        BY ONLY <3>1, <3>3, <2>1, <2>2, <2>3
    <2>7. CASE x # g /\ x # p /\ x # u
      <3>1. Weight(t, x) = Weight(r, x)
        BY <2>1, <2>7, <1>6 DEF Weight
      <3>2. d # p /\ d # u
        BY ONLY <2>7, <1>13, <1>14, x \in ns, q \in Sides
      <3>3. h2[d] = h[d] /\ h2[x] = h[x]
        BY <3>2, <1>8, <2>1, <2>7
      <3> HIDE DEF d
      <3> QED
        BY ONLY <3>1, <3>3, <2>1, <2>2, <2>3
    <2> QED
      BY <2>5, <2>6, <2>7
  <1>10. Balanced(r, ns, h2, "left", None)
    BY <1>8, <1>9 DEF Balanced
  <1>11. ASSUME NEW x \in Clashes(r, ns), x # g PROVE FALSE
    <2>1. x \in ns /\ x \in Keys /\ r.color[x] = RED /\ (x = t.root \/ r.color[t.parent[x]] = RED)
      BY <1>1, <1>6 DEF Clashes
    <2>2. x # p /\ x # u /\ t.color[x] = RED
      BY <1>6, <1>11, <2>1 DEF RED, BLACK
    <2>3. x # t.root
      BY <2>1, <2>2, ClashIs
    <2>4. t.parent[x] \in ns /\ t.parent[x] \in Keys /\ \E q \in Sides : t.child[q][t.parent[x]] = x
      BY <1>1, <2>1, <2>3 DEF Ordered
    <2>5. t.parent[x] # g
      BY <2>2, <2>4, <1>2
    <2>6. t.color[t.parent[x]] = RED /\ t.parent[x] # p
      BY <2>1, <2>3, <2>4, <2>5, <1>6 DEF RED, BLACK
    <2> QED
      BY <2>1, <2>2, <2>6, ClashIs
  <1>12. r.color[g] = RED
    BY <1>1, <1>6
  <1>20. r = Recolored(t, p, u, g)
    BY DEF r, a, Recolored
  <1> QED
    BY ONLY <1>5, <1>10, <1>11, <1>12, <1>20

\* One iteration of treemap_insert_fixup: the only clash left is two levels up
\* or gone.
LEMMA InsertMends ==
    ASSUME NEW t, NEW ns, NEW sub, Ordered(t, ns, sub),
           NEW h, Balanced(t, ns, h, "left", None),
           NEW n \in ns, t.color[n] = RED, RedAbove(t, n),
           \A x \in Clashes(t, ns) : x = n
    PROVE  LET r == InsertMended(t, n)
               m == IF ColorOf(t, Uncle(t, n)) = RED THEN Grandparent(t, n)
                    ELSE IF Inside(t, n) THEN t.parent[n] ELSE n
           IN  /\ \E sub2 : Ordered(r, ns, sub2)
               /\ \E h2 : Balanced(r, ns, h2, "left", None)
               /\ m \in ns /\ r.color[m] = RED
               /\ \A x \in Clashes(r, ns) : x = m
               /\ Grandparent(t, n) \in ns /\ r.color[Grandparent(t, n)] = RED
               /\ ColorOf(t, Uncle(t, n)) # RED => Clashes(r, ns) = {}
  <1> DEFINE p == t.parent[n]
             g == t.parent[p]
             s == SideOf(t, p, g)
             o == Opposite(s)
             u == t.child[o][g]
  <1>1. ns \subseteq Keys /\ t \in Trees /\ n \in Keys /\ n # None /\ None \notin ns
    BY NoneApart DEF Ordered
  <1>2. n # t.root /\ p \in ns /\ p # None /\ p # n /\ t.color[p] = RED
        /\ t.child[SideOf(t, n, p)][p] = n /\ SideOf(t, n, p) \in Sides
    BY ParentFacts DEF RedAbove, ColorOf, RED, BLACK
  <1>3. p \notin Clashes(t, ns)
    BY <1>2
  <1>4. g \in ns /\ g # None /\ t.color[g] = BLACK
        /\ t.child[s][g] = p /\ s \in Sides /\ g # p /\ p \in Keys /\ g \in Keys
    <2>1. p # t.root /\ t.color[g] # RED
      BY <1>2, <1>3, ClashIs
    <2>2. g \in ns /\ t.child[s][g] = p /\ s \in Sides /\ g # p
      BY <2>1, <1>2, ParentFacts
    <2> QED
      BY <2>1, <2>2, <1>1, <1>2 DEF Ordered
  <1>5. o \in Sides /\ o # s /\ Opposite(o) = s /\ \A q \in Sides : q = s \/ q = o
    BY <1>4, SidesTwo
  <1>6. Uncle(t, n) = u /\ Grandparent(t, n) = g
    BY DEF Uncle, Grandparent
  <1>7. g # n
    BY <1>1, <1>2, ParentNoChild DEF g
  <1> HIDE DEF p, g, s, o, u
  <1>8. CASE ColorOf(t, u) = RED
    <2>1. u # None /\ t.color[u] = RED
      BY <1>8 DEF ColorOf, RED, BLACK
    <2>2. InsertMended(t, n) = Recolored(t, p, u, g)
      BY <1>6, <1>8 DEF InsertMended, Recolored, p, g
    <2>3. LET r == Recolored(t, p, u, g)
          IN  /\ \E sub2 : Ordered(r, ns, sub2)
              /\ \E h2 : Balanced(r, ns, h2, "left", None)
              /\ r.color[g] = RED
              /\ \A x \in Clashes(r, ns) : x = g
      <3>1. t.parent[n] = p /\ t.parent[p] = g /\ t.child[Opposite(s)][g] = u
        BY DEF p, g, o, u
      <3> QED
        BY ONLY <3>1, <2>1, <1>2, <1>4, RecolorMends, Ordered(t, ns, sub), n \in ns,
                Balanced(t, ns, h, "left", None), \A x \in Clashes(t, ns) : x = n
    <2> QED
      BY <2>2, <2>3, <1>4, <1>6, <1>8
  <1>9. CASE ColorOf(t, u) # RED
    <2>0. ColorOf(t, u) = BLACK
      <3>1. CASE u = None
        BY <3>1 DEF ColorOf
      <3>2. CASE u # None
        <4>1. u \in ns
          BY <3>2, <1>4, <1>5, ChildFacts DEF u
        <4>2. t.color[u] \in {RED, BLACK}
          BY <4>1 DEF Ordered
        <4> QED
          BY <3>2, <4>2, <1>9 DEF ColorOf
      <3> QED
        BY <3>1, <3>2
    <2>1. Inside(t, n) <=> n = t.child[o][p]
      BY DEF Inside, Grandparent, p, g, s, o
    <2>2. CASE ~Inside(t, n)
      <3>1. t.child[s][p] = n
        BY <2>1, <2>2, <1>2, <1>5
      <3>2. InsertMended(t, n) = Rotate(Swapped(t, g, p), g, o)
        BY <1>6, <1>9, <2>2 DEF InsertMended, Swapped, p, g, s, o, Grandparent
      <3>3. /\ p = t.child[Opposite(o)][g] /\ p # None
            /\ None # p /\ ~(None = g /\ "left" = Opposite(o))
            /\ ColorOf(t, t.child[o][g]) = BLACK
            /\ \A x \in Clashes(t, ns) : x = t.child[Opposite(o)][p]
            /\ t.color[g] = BLACK /\ t.color[p] = RED /\ g \in ns /\ o \in Sides
            /\ Ordered(t, ns, sub) /\ Balanced(t, ns, h, "left", None)
        BY <3>1, <1>2, <1>4, <1>5, <2>0 DEF u
      <3>4. LET r == Rotate(Swapped(t, g, p), g, o)
            IN  /\ \A x \in Keys : r.color[x] = IF x = g THEN RED ELSE
                                                IF x = p THEN BLACK ELSE t.color[x]
                /\ \E sub2 : Ordered(r, ns, sub2)
                /\ \E h2 : Balanced(r, ns, h2, "left", None)
                /\ Clashes(r, ns) = {}
        BY ONLY <3>3, TurnSwapped
      <3> QED
        BY <3>2, <3>4, <2>2, <1>1, <1>2, <1>4, <1>6, <1>7, <1>9
    <2>3. CASE Inside(t, n)
      <3> DEFINE t1 == Rotate(t, p, s)
      <3>1. t.child[o][p] = n
        BY <2>1, <2>3
      <3>2. InsertMended(t, n) = Rotate(Swapped(t1, g, n), g, o)
        BY <1>6, <1>9, <2>3 DEF InsertMended, Swapped, p, g, s, o, Grandparent
      <3>3. /\ Turned(t, t1, p, s) /\ t1.color = t.color
            /\ \E sub2 : Ordered(t1, ns, sub2)
            /\ \E h2 : Balanced(t1, ns, h2, "left", None)
            /\ \A x \in Clashes(t1, ns) : x = p
        <4>1. n = t.child[Opposite(s)][p]
          BY <3>1 DEF o
        <4> HIDE DEF t1
        <4> QED
          BY <4>1, <1>1, <1>2, <1>4, TurnRed DEF t1
      <3> HIDE DEF t1
      <3>4. PICK sub2 : Ordered(t1, ns, sub2)
        BY <3>3
      <3>5. PICK h2 : Balanced(t1, ns, h2, "left", None)
        BY <3>3
      <3>6. /\ t1.child[s][g] = n /\ t1.child[o][g] = u /\ t1.child[s][n] = p
        <4>1. \A q \in Sides, x \in Keys :
                 t1.child[q][x] = IF x = p /\ q = o THEN t.child[s][n]
                                  ELSE IF x = n /\ q = s THEN p
                                  ELSE IF x = g /\ q = s THEN n
                                  ELSE t.child[q][x]
          BY <3>1, <3>3 DEF Turned, o, s, g
        <4> QED
          BY <4>1, <1>1, <1>2, <1>4, <1>5, <1>7 DEF u
      <3>7. ColorOf(t1, t1.child[o][g]) = BLACK
        BY <3>3, <3>6, <2>0 DEF ColorOf
      <3>8. /\ n = t1.child[Opposite(o)][g] /\ n # None
            /\ None # n /\ ~(None = g /\ "left" = Opposite(o))
            /\ \A x \in Clashes(t1, ns) : x = t1.child[Opposite(o)][n]
            /\ t1.color[g] = BLACK /\ t1.color[n] = RED /\ t1.color[p] = RED
        BY <3>3, <3>6, <1>1, <1>2, <1>4, <1>5
      <3>9. LET r == Rotate(Swapped(t1, g, n), g, o)
            IN  /\ \A x \in Keys : r.color[x] = IF x = g THEN RED ELSE
                                                IF x = n THEN BLACK ELSE t1.color[x]
                /\ \E sub3 : Ordered(r, ns, sub3)
                /\ \E h3 : Balanced(r, ns, h3, "left", None)
                /\ Clashes(r, ns) = {}
        BY <3>4, <3>5, <3>7, <3>8, <1>4, <1>5, TurnSwapped
      <3> QED
        BY <3>2, <3>8, <3>9, <2>3, <1>1, <1>2, <1>4, <1>6, <1>9 DEF p
    <2> QED
      BY <2>2, <2>3
  <1> QED
    BY <1>8, <1>9

-----------------------------------------------------------------------------
(* One iteration of treemap_delete_fixup *)

\* The sibling of the short place is a node: its paths are longer.
LEMMA SiblingIsNode ==
    ASSUME NEW t, NEW ns, NEW sub, Ordered(t, ns, sub),
           NEW h, NEW a \in ns, NEW s \in Sides, Balanced(t, ns, h, s, a)
    PROVE  /\ t.child[Opposite(s)][a] # None
           /\ h[a] = h[t.child[s][a]] + 1 + Weight(t, a)
           /\ h[a] = h[t.child[Opposite(s)][a]] + Weight(t, a)
  <1> DEFINE o == Opposite(s)
             sib == t.child[o][a]
             d == t.child[s][a]
  <1>1. o \in Sides /\ o # s /\ sib \in KeyOrNone /\ h[sib] \in Nat /\ h[d] \in Nat
        /\ h[a] \in Nat
    BY SidesTwo, HeightTypes
  <1>2. h[a] = Height(t, h, s, a, s, a) + Weight(t, a)
        /\ h[a] = Height(t, h, s, a, o, a) + Weight(t, a) /\ h[None] = 0
    BY <1>1 DEF Balanced
  <1>3. Height(t, h, s, a, s, a) = h[d] + 1 /\ Height(t, h, s, a, o, a) = h[sib]
    <2> HIDE DEF o
    <2> QED
      BY <1>1 DEF Height
  <1>4. Weight(t, a) \in {0, 1}
    BY DEF Weight
  <1> HIDE DEF sib, d
  <1>5. h[sib] = h[d] + 1 /\ sib # None
    BY <1>1, <1>2, <1>3, <1>4
  <1> QED
    BY <1>1, <1>2, <1>3, <1>4, <1>5 DEF sib, d

\* A black sibling with black children turns red: now the place of a itself
\* is short, if a has a parent.
LEMMA ShortRises ==
    ASSUME NEW t, NEW ns, NEW sub, Ordered(t, ns, sub),
           NEW h, NEW a \in ns, NEW s \in Sides, Balanced(t, ns, h, s, a),
           Clashes(t, ns) = {},
           NEW sib, sib = t.child[Opposite(s)][a], ColorOf(t, sib) = BLACK,
           \A q \in Sides : ColorOf(t, Child(t, sib, q)) = BLACK
    PROVE  LET r == Paint(t, {sib}, RED)
               p == t.parent[a]
           IN  /\ Ordered(r, ns, sub)
               /\ r.parent = t.parent /\ r.root = t.root /\ r.child = t.child
               /\ \E h2 : Balanced(r, ns, h2, SideOf(r, a, p), p)
               /\ \A x \in Clashes(r, ns) : r.parent[x] = a
  <1> DEFINE o == Opposite(s)
             d == t.child[s][a]
             p == t.parent[a]
             side == SideOf(t, a, p)
             r == Paint(t, {sib}, RED)
             h1 == [h EXCEPT ![sib] = h[sib] - 1]
             h2 == [h1 EXCEPT ![a] = h1[a] - 1]
  <1>1. /\ t \in Trees /\ ns \subseteq Keys /\ o \in Sides /\ o # s
        /\ \A q \in Sides : q = s \/ q = o
        /\ a # None /\ a \in Keys
    BY SidesTwo, NoneApart DEF Ordered
  <1>2. /\ sib # None /\ h[a] = h[d] + 1 + Weight(t, a)
        /\ h[a] = h[sib] + Weight(t, a)
    BY SiblingIsNode
  <1>3. /\ sib \in ns /\ sib # a /\ sib \in Keys /\ sib # t.root /\ t.parent[sib] = a
        /\ sib # d /\ t.color[sib] = BLACK
    BY <1>1, <1>2, ChildFacts DEF ColorOf
  <1>4. /\ p = None <=> a = t.root
        /\ p # a
        /\ p # None => p \in ns /\ side \in Sides /\ t.child[side][p] = a
        /\ \A q \in Sides, x \in ns : t.child[q][x] = a => x = p /\ q = side
    BY ParentFacts
  <1>5. /\ Ordered(r, ns, sub)
        /\ r.root = t.root /\ r.parent = t.parent /\ r.child = t.child
        /\ \A x \in Keys : r.color[x] = IF x \in {sib} THEN RED ELSE t.color[x]
    BY <1>3, PaintOrdered
  <1>6. SideOf(r, a, p) = side
    BY <1>5 DEF SideOf
  <1> HIDE DEF r, p, side
  <1>7. /\ h \in [KeyOrNone -> Nat] /\ h[None] = 0
        /\ \A x \in ns, q \in Sides : h[x] = Height(t, h, s, a, q, x) + Weight(t, x)
    BY DEF Balanced
  <1>8. /\ h[sib] \in Nat /\ h[a] \in Nat /\ h[d] \in Nat /\ h[sib] = h[d] + 1
        /\ h[sib] > 0 /\ h[a] > 0 /\ Weight(t, a) \in {0, 1}
        /\ sib \in KeyOrNone /\ a \in KeyOrNone /\ None \in KeyOrNone
    <2>1. h[sib] \in Nat /\ h[a] \in Nat /\ h[d] \in Nat /\ Weight(t, a) \in {0, 1}
      BY <1>3, HeightTypes DEF Weight
    <2>2. sib \in KeyOrNone /\ a \in KeyOrNone /\ None \in KeyOrNone
      BY <1>1, <1>3, NoneApart
    <2> HIDE DEF d
    <2> QED
      BY <2>1, <2>2, <1>2
  <1>9. /\ h1 \in [KeyOrNone -> Nat] /\ h1[sib] = h[sib] - 1
        /\ \A x \in KeyOrNone \ {sib} : h1[x] = h[x]
    BY <1>7, <1>8
  <1> HIDE DEF h1
  <1>10. h1[a] = h[a] /\ h1[a] - 1 \in Nat
    BY <1>3, <1>8, <1>9
  <1>11. /\ h2 \in [KeyOrNone -> Nat] /\ h2[a] = h[a] - 1
         /\ \A x \in KeyOrNone \ {a} : h2[x] = h1[x]
    BY <1>8, <1>9, <1>10
  <1> HIDE DEF h2
  <1>12. /\ h2[sib] = h[sib] - 1 /\ h2[None] = 0
         /\ \A x \in KeyOrNone \ {a, sib} : h2[x] = h[x]
    BY <1>1, <1>2, <1>3, <1>7, <1>8, <1>9, <1>11
  <1>13. ASSUME NEW x \in ns, NEW q \in Sides
         PROVE  h2[x] = Height(r, h2, side, p, q, x) + Weight(r, x)
    <2> DEFINE c == t.child[q][x]
    <2>1. /\ x \in KeyOrNone /\ x \in Keys /\ h[x] \in Nat
          /\ c \in KeyOrNone /\ h[c] \in Nat /\ h2[c] \in Nat /\ h2[x] \in Nat
          /\ Weight(t, x) \in {0, 1}
      BY <1>1, <1>11, HeightTypes DEF Weight
    <2>2. h[x] = h[c] + (IF q = s /\ x = a THEN 1 ELSE 0) + Weight(t, x)
      BY <1>7, <2>1 DEF Height
    <2>3. Height(r, h2, side, p, q, x) = h2[c] + (IF q = side /\ x = p THEN 1 ELSE 0)
      BY <1>5, <2>1 DEF Height
    <2>4. c # None => t.parent[c] = x /\ c # x
      BY ChildFacts
    <2>5. c = a => x = p /\ q = side
      BY <1>4
    <2>6. c = sib => x = a /\ q = o
      BY <1>2, <1>3, <2>4, <1>1
    <2>7. CASE x = a
      <3>1. Weight(r, x) = Weight(t, x) /\ x # p /\ c # a
        BY <2>7, <2>5, <1>3, <1>4, <1>5, <2>1 DEF Weight
      <3>2. CASE q = s
        <4>1. c = d /\ c # sib
          BY <2>7, <3>2, <1>3
        <4>2. h2[c] = h[c]
          BY <4>1, <3>1, <2>1, <1>12
        <4> HIDE DEF c
        <4> QED
          BY <2>1, <2>2, <2>3, <2>7, <3>1, <3>2, <4>2, <1>11
      <3>3. CASE q = o
        <4>1. c = sib
          BY <2>7, <3>3
        <4> HIDE DEF c, o
        <4> QED
          BY <2>1, <2>2, <2>3, <2>7, <3>1, <3>3, <4>1, <1>1, <1>11, <1>12
      <3> QED
        BY <3>2, <3>3, <1>1
    <2>8. CASE x = sib
      <3>1. Weight(r, x) = 0 /\ Weight(t, x) = 1
        BY <2>8, <2>1, <1>3, <1>5 DEF Weight, RED, BLACK
      <3>2. x # p /\ c # a
        <4>1. p # sib
          BY <1>2, ParentNoChild, <1>1 DEF p
        <4> QED
          BY <4>1, <2>5, <2>8
      <3>3. c # sib
        BY <2>6, <2>8, <1>3
      <3>4. h2[c] = h[c]
        BY <3>2, <3>3, <2>1, <1>12
      <3> HIDE DEF c
      <3> QED
        BY <3>1, <3>2, <3>4, <2>1, <2>2, <2>3, <2>8, <1>3, <1>12
    <2>9. CASE x # a /\ x # sib
      <3>1. Weight(r, x) = Weight(t, x) /\ h2[x] = h[x]
        BY <2>1, <2>9, <1>5, <1>12 DEF Weight
      <3>2. c # sib
        BY <2>6, <2>9
      <3>3. CASE c = a
        <4>1. x = p /\ q = side
          BY <2>5, <3>3
        <4>2. h2[c] = h[c] - 1
          BY <3>3, <1>11
        <4> HIDE DEF c
        <4> QED
          BY <4>1, <4>2, <3>1, <2>1, <2>2, <2>3, <2>9
      <3>4. CASE c # a
        <4>1. ~(q = side /\ x = p)
          <5>1. ASSUME q = side, x = p PROVE c = a
            BY <5>1, <2>1, <1>4, NoneApart
          <5> QED
            BY <5>1, <3>4
        <4>2. h2[c] = h[c]
          BY <2>1, <3>2, <3>4, <1>12
        <4> HIDE DEF c
        <4> QED
          BY <4>1, <4>2, <3>1, <2>1, <2>2, <2>3, <2>9
      <3> QED
        BY <3>3, <3>4
    <2> QED
      BY <2>7, <2>8, <2>9
  <1>14. Balanced(r, ns, h2, side, p)
    BY <1>11, <1>12, <1>13 DEF Balanced
  <1>15. ASSUME NEW x \in Clashes(r, ns) PROVE r.parent[x] = a
    <2>1. /\ x \in ns /\ x \in Keys /\ r.color[x] = RED
          /\ x = t.root \/ r.color[t.parent[x]] = RED
      BY <1>1, <1>5 DEF Clashes
    <2>2. CASE x = sib
      BY <2>2, <1>3, <1>5
    <2>3. CASE x # sib
      <3>1. t.color[x] = RED
        BY <2>1, <2>3, <1>5
      <3>2. x # t.root /\ t.color[t.parent[x]] # RED
        BY <3>1, <2>1, ClashIs
      <3>3. t.parent[x] \in Keys /\ t.parent[x] = sib
        <4>1. t.parent[x] \in Keys
          BY <3>2, <2>1, <1>1 DEF Ordered
        <4> QED
          BY <4>1, <3>2, <2>1, <1>5
      <3>4. PICK q \in Sides : t.child[q][sib] = x
        BY <3>2, <3>3, <2>1 DEF Ordered
      <3>5. Child(t, sib, q) = x /\ x # None
        BY <3>4, <1>2, <2>1, NoneApart DEF Child
      <3> QED
        BY <3>1, <3>5 DEF ColorOf, RED, BLACK
    <2> QED
      BY <2>2, <2>3
  <1>16. r = Paint(t, {sib}, RED)
    BY DEF r
  <1> HIDE DEF h2
  <1> QED
    BY <1>5, <1>6, <1>14, <1>15, <1>16 DEF p, side

\* A red node below a black sibling ends the loop.
LEMMA ShortSettles ==
    ASSUME NEW t, NEW ns, NEW sub, Ordered(t, ns, sub),
           NEW h, NEW a \in ns, NEW s \in Sides, Balanced(t, ns, h, s, a),
           Clashes(t, ns) = {},
           NEW sib, sib = t.child[Opposite(s)][a], ColorOf(t, sib) = BLACK,
           \E q \in Sides : ColorOf(t, Child(t, sib, q)) # BLACK
    PROVE  LET o == Opposite(s)
               near == Child(t, sib, s)
               far == Child(t, sib, o)
               t2 == IF ColorOf(t, far) = RED THEN t
                     ELSE Rotate(Swapped(t, sib, near), sib, o)
               sib2 == t2.child[o][a]
               r == Rotate(Settled(t2, a, sib2, Child(t2, sib2, o)), a, s)
           IN  /\ sib # None
               /\ \E sub2 : Ordered(r, ns, sub2)
               /\ \E h2 : Balanced(r, ns, h2, s, None)
               /\ Clashes(r, ns) = {}
  <1> DEFINE o == Opposite(s)
             near == Child(t, sib, s)
             far == Child(t, sib, o)
  <1>1. /\ t \in Trees /\ ns \subseteq Keys /\ o \in Sides /\ o # s /\ Opposite(o) = s
        /\ \A q \in Sides : q = s \/ q = o
        /\ a # None /\ a \in Keys
    BY SidesTwo, NoneApart DEF Ordered
  <1>2. sib # None /\ sib = t.child[o][a]
    BY ONLY SiblingIsNode, Ordered(t, ns, sub), a \in ns, s \in Sides, Balanced(t, ns, h, s, a),
       sib = t.child[Opposite(s)][a]
  <1>3. /\ sib \in ns /\ sib # a /\ sib \in Keys /\ t.parent[sib] = a
        /\ t.color[sib] = BLACK
    BY <1>1, <1>2, ChildFacts DEF ColorOf
  <1>4. near = t.child[s][sib] /\ far = t.child[o][sib]
    BY <1>2 DEF Child
  <1>5. ASSUME NEW q \in Sides, ColorOf(t, t.child[q][sib]) # BLACK
        PROVE  t.child[q][sib] # None /\ t.color[t.child[q][sib]] = RED
    <2>1. t.child[q][sib] # None
      BY <1>5 DEF ColorOf
    <2>2. t.color[t.child[q][sib]] \in {RED, BLACK}
      BY ONLY <1>3, <1>5, <2>1, ChildFacts, Ordered(t, ns, sub) DEF Ordered
    <2> QED
      BY <2>1, <2>2, <1>5 DEF ColorOf
  <1>6. CASE ColorOf(t, far) = RED
    <2>1. far # None /\ t.color[far] = RED
      BY <1>6 DEF ColorOf, RED, BLACK
    <2>2. LET r == Rotate(Settled(t, a, sib, far), a, s)
          IN  /\ \E sub2 : Ordered(r, ns, sub2)
              /\ \E h2 : Balanced(r, ns, h2, s, None)
              /\ Clashes(r, ns) = {}
      <3>1. far = t.child[Opposite(s)][sib] /\ t.color[sib] = BLACK
        BY <1>3, <1>4
      <3> HIDE DEF far, o
      <3> QED
        BY <2>1, <3>1, <1>2, TurnShort
    <2> QED
      BY <2>2, <1>2, <1>6
  <1>7. CASE ColorOf(t, far) # RED
    <2> DEFINE t2 == Rotate(Swapped(t, sib, near), sib, o)
    <2>1. near # None /\ t.color[near] = RED /\ ColorOf(t, t.child[o][sib]) = BLACK
      <3>1. ColorOf(t, far) = BLACK
        BY <1>1, <1>4, <1>5, <1>7 DEF ColorOf
      <3>2. PICK q \in Sides : ColorOf(t, Child(t, sib, q)) # BLACK
        OBVIOUS
      <3>3. q = s
        BY <1>1, <3>1, <3>2
      <3> QED
        BY ONLY <3>1, <3>2, <3>3, <1>4, <1>5, s \in Sides
    <2>2. near \in ns /\ near \in Keys /\ near # sib /\ near # a
      BY ONLY <2>1, <1>1, <1>3, <1>4, ChildFacts, ParentNoChild, Ordered(t, ns, sub),
              s \in Sides
    <2>3. near = t.child[Opposite(o)][sib] /\ a # near /\ ~(a = sib /\ s = Opposite(o))
      BY <1>1, <1>3, <1>4, <2>2
    <2>4. /\ Turned(t, t2, sib, o)
          /\ \A x \in Keys : t2.color[x] = IF x = sib THEN RED ELSE
                                           IF x = near THEN BLACK ELSE t.color[x]
          /\ \E sub2 : Ordered(t2, ns, sub2)
          /\ \E h2 : Balanced(t2, ns, h2, s, a)
          /\ Clashes(t2, ns) = {}
      <3> HIDE DEF near, o, t2
      <3> QED
        BY ONLY <1>1, <1>3, <2>1, <2>3, TurnSwapped, Ordered(t, ns, sub),
           Balanced(t, ns, h, s, a), Clashes(t, ns) = {} DEF t2
    <2>5. t2.child[o][a] = near /\ t2.child[o][near] = sib
      <3>1. SideOf(t, sib, a) = o
        BY <1>1, <1>2, <1>3, ParentFacts
      <3>2. \A q \in Sides, x \in Keys :
              t2.child[q][x] = IF x = sib /\ q = Opposite(o) THEN t.child[o][near]
                               ELSE IF x = near /\ q = o THEN sib
                               ELSE IF x = a /\ q = o THEN near
                               ELSE t.child[q][x]
        <4> HIDE DEF t2, near, o
        <4> QED
          BY ONLY <2>3, <2>4, <3>1, <1>3 DEF Turned
      <3> HIDE DEF t2, near, o
      <3> QED
        BY <1>1, <1>3, <2>2, <3>2
    <2> HIDE DEF t2
    <2>6. PICK sub2 : Ordered(t2, ns, sub2)
      BY <2>4
    <2>7. PICK h2 : Balanced(t2, ns, h2, s, a)
      BY <2>4
    <2>8. LET r == Rotate(Settled(t2, a, near, sib), a, s)
          IN  /\ \E sub3 : Ordered(r, ns, sub3)
              /\ \E h3 : Balanced(r, ns, h3, s, None)
              /\ Clashes(r, ns) = {}
      <3>1. /\ near = t2.child[Opposite(s)][a] /\ sib = t2.child[Opposite(s)][near]
            /\ t2.color[near] = BLACK /\ t2.color[sib] = RED
        BY <2>2, <2>4, <2>5, <1>3
      <3> HIDE DEF near, o
      <3> QED
        BY <3>1, <2>1, <2>4, <2>6, <2>7, <1>2, TurnShort
    <2> QED
      BY <2>1, <2>5, <2>8, <1>2, <1>7 DEF t2, Child
  <1> QED
    BY <1>6, <1>7

\* A red sibling is first turned up, which leaves a black one.
LEMMA RedSiblingTurned ==
    ASSUME NEW t, NEW ns, NEW sub, Ordered(t, ns, sub),
           NEW h, NEW a \in ns, NEW s \in Sides, Balanced(t, ns, h, s, a),
           Clashes(t, ns) = {}, ColorOf(t, t.child[s][a]) = BLACK
    PROVE  LET o == Opposite(s)
               red == t.child[o][a]
               t1 == IF ColorOf(t, red) = RED THEN Rotate(Swapped(t, a, red), a, s)
                     ELSE t
           IN  /\ \E sub2 : Ordered(t1, ns, sub2)
               /\ \E h2 : Balanced(t1, ns, h2, s, a)
               /\ Clashes(t1, ns) = {}
               /\ ColorOf(t1, t1.child[o][a]) = BLACK
  <1> DEFINE o == Opposite(s)
             red == t.child[o][a]
  <1>1. /\ t \in Trees /\ ns \subseteq Keys /\ o \in Sides /\ o # s /\ Opposite(o) = s
        /\ \A q \in Sides : q = s \/ q = o
        /\ a # None /\ a \in Keys
    BY SidesTwo, NoneApart DEF Ordered
  <1>2. red # None
    BY SiblingIsNode
  <1>3. /\ red \in ns /\ red # a /\ red \in Keys /\ t.parent[red] = a /\ red # t.root
        /\ ColorOf(t, red) \in {RED, BLACK} /\ ColorOf(t, red) = t.color[red]
    <2>1. /\ red \in ns /\ red # a /\ red \in Keys /\ t.parent[red] = a /\ red # t.root
      BY <1>1, <1>2, ChildFacts
    <2> HIDE DEF red
    <2>2. t.color[red] \in {RED, BLACK}
      BY <2>1 DEF Ordered
    <2> QED
      BY <2>1, <2>2, <1>2 DEF ColorOf
  <1>4. CASE ColorOf(t, red) # RED
    BY <1>3, <1>4
  <1>5. CASE ColorOf(t, red) = RED
    <2> DEFINE t1 == Rotate(Swapped(t, a, red), a, s)
               inner == t.child[s][red]
    <2>1. t.color[a] = BLACK
      <3>1. t.color[a] # RED
        BY <1>3, <1>5, ClashIs
      <3> QED
        BY <3>1 DEF Ordered
    <2>2. /\ red = t.child[Opposite(s)][a] /\ a # red /\ ~(a = a /\ s = Opposite(s))
          /\ t.color[red] = RED
      BY <1>1, <1>3, <1>5
    <2>3. /\ Turned(t, t1, a, s)
          /\ \A x \in Keys : t1.color[x] = IF x = a THEN RED ELSE
                                           IF x = red THEN BLACK ELSE t.color[x]
          /\ \E sub2 : Ordered(t1, ns, sub2)
          /\ \E h2 : Balanced(t1, ns, h2, s, a)
          /\ Clashes(t1, ns) = {}
      <3> HIDE DEF red, o, t1
      <3> QED
        BY <1>2, <2>1, <2>2, TurnSwapped DEF t1
    <2>4. t1.child[o][a] = inner
      <3> HIDE DEF t1
      <3> QED
        BY <1>1, <2>3 DEF Turned
    <2>5. ColorOf(t1, inner) = BLACK
      <3>1. CASE inner = None
        BY <3>1 DEF ColorOf
      <3>2. CASE inner # None
        <4>1. /\ inner \in ns /\ inner \in Keys /\ inner # red /\ inner # t.root
              /\ t.parent[inner] = red
          BY <3>2, <1>3, ChildFacts
        <4>2. inner # a
          BY <3>2, <1>3, ParentNoChild
        <4>3. t.color[inner] # RED
          BY <4>1, <1>3, <1>5, ClashIs
        <4>4. t1.color[inner] = BLACK
          <5> HIDE DEF t1, inner, red
          <5> QED
            BY <4>1, <4>2, <4>3, <2>3 DEF Ordered
        <4> QED
          BY <3>2, <4>4 DEF ColorOf
      <3> QED
        BY <3>1, <3>2
    <2> QED
      BY <2>3, <2>4, <2>5, <1>5
  <1> QED
    BY <1>4, <1>5

-----------------------------------------------------------------------------
(* Walks *)

\* f repeats the function g from a on, m times.
Repeats(f, m, a, g) == f = [d \in 0 .. m |-> IF d = 0 THEN a ELSE g[f[d - 1]]]

\* A function can be applied any number of times.
LEMMA RepeatsExist ==
    ASSUME NEW S, NEW a \in S, NEW g \in [S -> S]
    PROVE  \A m \in Nat : \E f : Repeats(f, m, a, g)
  <1> DEFINE D == {m \in Nat : ~ \E f : Repeats(f, m, a, g)}
  <1>1. SUFFICES ASSUME D # {} PROVE FALSE
    OBVIOUS
  <1>2. PICK m \in D : \A n \in D : m <= n
    <2>1. D \subseteq Nat
      OBVIOUS
    <2> HIDE DEF D
    <2> QED
      BY <1>1, <2>1, LeastNatural
  <1>3. m \in Nat /\ ~ \E f : Repeats(f, m, a, g)
    OBVIOUS
  <1>4. CASE m = 0
    <2> DEFINE h == [d \in 0 .. 0 |-> a]
    <2>1. Repeats(h, 0, a, g)
      BY DEF Repeats
    <2> QED
      BY <1>3, <1>4, <2>1
  <1>5. CASE m # 0
    <2>1. m - 1 \in Nat /\ ~ (m <= m - 1)
      BY <1>3, <1>5
    <2>2. PICK f : Repeats(f, m - 1, a, g)
      BY <1>2, <2>1
    <2> DEFINE h == [d \in 0 .. m |-> IF d = 0 THEN a ELSE g[f[d - 1]]]
    <2>3. ASSUME NEW d \in 0 .. m - 1
          PROVE  h[d] = f[d]
      <3>1. d \in 0 .. m /\ h[d] = IF d = 0 THEN a ELSE g[f[d - 1]]
        BY <1>3
      <3>2. f[d] = IF d = 0 THEN a ELSE g[f[d - 1]]
        BY <2>2 DEF Repeats
      <3> QED
        BY <3>1, <3>2
    <2>4. ASSUME NEW d \in 0 .. m
          PROVE  h[d] = IF d = 0 THEN a ELSE g[h[d - 1]]
      <3>1. CASE d = 0
        BY <3>1
      <3>2. CASE d # 0
        <4>1. d - 1 \in 0 .. m - 1
          BY <1>3, <3>2
        <4> QED
          BY <2>3, <3>2, <4>1
      <3> QED
        BY <3>1, <3>2
    <2>5. Repeats(h, m, a, g)
      BY <2>4 DEF Repeats
    <2> QED
      BY <1>3, <2>5
  <1> QED
    BY <1>4, <1>5

KeyCount == Cardinality(Keys)

\* There are finitely many keys.
LEMMA KeysCounted == KeyCount \in Nat /\ IsFiniteSet(Keys)
  BY TreeMapAssumption, FS_CardinalityType DEF KeyCount, TreeMapAssumption

\* The steps of a walk.
LEMMA WalkSteps ==
    ASSUME NEW n \in KeyOrNone, NEW next \in [Keys -> KeyOrNone]
    PROVE  LET w == Walk(n, next)
           IN  /\ DOMAIN w = 0 .. KeyCount /\ w[0] = n
               /\ \A d \in 0 .. KeyCount : w[d] \in KeyOrNone
               /\ \A d \in 0 .. KeyCount : d # 0 =>
                     w[d] = IF w[d - 1] = None THEN None ELSE next[w[d - 1]]
  <1> DEFINE step == [m \in Keys \cup {None} |-> IF m = None THEN None ELSE next[m]]
             w == Walk(n, next)
  <1>1. step \in [KeyOrNone -> KeyOrNone]
    BY DEF KeyOrNone
  <1>2. Repeats(w, KeyCount, n, step)
    <2>1. w = CHOOSE f : Repeats(f, KeyCount, n, step)
      BY DEF Walk, Repeats, KeyCount
    <2> HIDE DEF w, step
    <2>2. \E f : Repeats(f, KeyCount, n, step)
      BY <1>1, RepeatsExist, KeysCounted
    <2> QED
      BY <2>1, <2>2
  <1>3. \A m \in KeyOrNone : step[m] = IF m = None THEN None ELSE next[m]
    BY DEF KeyOrNone
  <1> HIDE DEF w, step
  <1>4. /\ DOMAIN w = 0 .. KeyCount /\ w[0] = n
        /\ \A d \in 0 .. KeyCount : d # 0 => w[d] = step[w[d - 1]]
    BY <1>2, KeysCounted DEF Repeats
  <1>5. \A d \in 0 .. KeyCount : w[d] \in KeyOrNone
    <2> DEFINE D == {d \in 0 .. KeyCount : w[d] \notin KeyOrNone}
    <2>1. SUFFICES ASSUME D # {} PROVE FALSE
      OBVIOUS
    <2>2. PICK d \in D : \A e \in D : d <= e
      <3>1. D \subseteq Nat
        BY KeysCounted
      <3> HIDE DEF D
      <3> QED
        BY <2>1, <3>1, LeastNatural
    <2>3. d \in 0 .. KeyCount /\ d # 0 /\ w[d] \notin KeyOrNone
      BY <1>4
    <2>4. d - 1 \in 0 .. KeyCount /\ ~ (d <= d - 1)
      BY <2>3, KeysCounted
    <2>5. w[d - 1] \in KeyOrNone
      BY <2>2, <2>4
    <2> QED
      BY <2>3, <2>5, <1>1, <1>4
  <1>6. \A d \in 0 .. KeyCount : d # 0 => d - 1 \in 0 .. KeyCount
    BY KeysCounted
  <1> QED
    BY <1>3, <1>4, <1>5, <1>6 DEF w

\* A walk stays in what its steps do not leave.
LEMMA WalkStays ==
    ASSUME NEW n \in KeyOrNone, NEW next \in [Keys -> KeyOrNone],
           NEW T, n # None => n \in T,
           \A x \in T \cap Keys : next[x] # None => next[x] \in T
    PROVE  \A d \in 0 .. KeyCount : Walk(n, next)[d] # None => Walk(n, next)[d] \in T
  <1> DEFINE w == Walk(n, next)
             D == {d \in 0 .. KeyCount : w[d] # None /\ w[d] \notin T}
  <1>1. SUFFICES ASSUME D # {} PROVE FALSE
    OBVIOUS
  <1> HIDE DEF w
  <1>2. PICK d \in D : \A e \in D : d <= e
    <2>1. D \subseteq Nat
      BY KeysCounted
    <2> HIDE DEF D
    <2> QED
      BY <1>1, <2>1, LeastNatural
  <1>3. /\ DOMAIN w = 0 .. KeyCount /\ w[0] = n
        /\ \A e \in 0 .. KeyCount : w[e] \in KeyOrNone
        /\ \A e \in 0 .. KeyCount : e # 0 =>
              w[e] = IF w[e - 1] = None THEN None ELSE next[w[e - 1]]
    BY WalkSteps DEF w
  <1>4. d \in 0 .. KeyCount /\ d # 0 /\ w[d] # None /\ w[d] \notin T
    BY <1>3
  <1>5. d - 1 \in 0 .. KeyCount /\ ~ (d <= d - 1)
    BY <1>4, KeysCounted
  <1>6. w[d - 1] # None /\ w[d] = next[w[d - 1]] /\ w[d - 1] \in Keys
    BY <1>3, <1>4, <1>5 DEF KeyOrNone
  <1>7. w[d - 1] \in T
    BY <1>2, <1>5, <1>6
  <1> QED
    BY <1>4, <1>6, <1>7

\* A walk whose steps lower the rank ends.
LEMMA WalkEnds ==
    ASSUME NEW n \in KeyOrNone, NEW next \in [Keys -> KeyOrNone],
           NEW S, S \subseteq Keys, n # None => n \in S,
           NEW rank \in [S -> 1 .. KeyCount],
           \A x \in S : next[x] # None => next[x] \in S /\ rank[next[x]] < rank[x]
    PROVE  LET w == Walk(n, next)
           IN  /\ w[KeyCount] = None
               /\ \A d \in 0 .. KeyCount : w[d] # None => w[d] \in S
               /\ \A d \in 0 .. KeyCount, e \in 0 .. KeyCount :
                     d <= e /\ w[e] # None => w[d] # None
               /\ n # None =>
                    \E d \in 0 .. KeyCount :
                       /\ Last(w) = w[d] /\ w[d] # None /\ next[w[d]] = None
                       /\ \A e \in 0 .. KeyCount : w[e] # None => e <= d
  <1> DEFINE w == Walk(n, next)
  <1>0. KeyCount \in Nat
    BY KeysCounted
  <1>1. /\ DOMAIN w = 0 .. KeyCount /\ w[0] = n
        /\ \A e \in 0 .. KeyCount : w[e] \in KeyOrNone
        /\ \A e \in 0 .. KeyCount : e # 0 =>
              w[e] = IF w[e - 1] = None THEN None ELSE next[w[e - 1]]
    BY WalkSteps
  <1>2. \A d \in 0 .. KeyCount : w[d] # None => w[d] \in S
    BY WalkStays
  <1> HIDE DEF w
  <1>3. \A d \in 0 .. KeyCount : w[d] # None => rank[w[d]] + d <= KeyCount
    <2> DEFINE D == {d \in 0 .. KeyCount : w[d] # None /\ ~(rank[w[d]] + d <= KeyCount)}
    <2>1. SUFFICES ASSUME D # {} PROVE FALSE
      OBVIOUS
    <2>2. PICK d \in D : \A e \in D : d <= e
      <3>1. D \subseteq Nat
        BY <1>0
      <3> HIDE DEF D
      <3> QED
        BY <2>1, <3>1, LeastNatural
    <2>3. d \in 0 .. KeyCount /\ w[d] # None /\ ~(rank[w[d]] + d <= KeyCount)
          /\ w[d] \in S /\ rank[w[d]] \in 1 .. KeyCount
      BY <1>2
    <2>4. d # 0
      BY <2>3, <1>0
    <2>5. d - 1 \in 0 .. KeyCount /\ ~ (d <= d - 1)
      BY <2>3, <2>4, <1>0
    <2>6. w[d - 1] # None /\ w[d] = next[w[d - 1]] /\ w[d - 1] \in S
      BY <1>1, <1>2, <2>3, <2>4, <2>5
    <2>7. rank[w[d - 1]] + (d - 1) <= KeyCount
      BY <2>2, <2>5, <2>6
    <2>8. rank[w[d]] < rank[w[d - 1]] /\ rank[w[d - 1]] \in 1 .. KeyCount
      BY <2>3, <2>6
    <2> QED
      BY <2>3, <2>5, <2>7, <2>8, <1>0
  <1>4. w[KeyCount] = None
    <2>1. SUFFICES ASSUME w[KeyCount] # None PROVE FALSE
      OBVIOUS
    <2>2. KeyCount \in 0 .. KeyCount
      BY <1>0
    <2>3. rank[w[KeyCount]] + KeyCount <= KeyCount /\ w[KeyCount] \in S
      BY <1>2, <1>3, <2>1, <2>2
    <2>4. rank[w[KeyCount]] \in 1 .. KeyCount
      BY <2>3
    <2> QED
      BY <2>3, <2>4, <1>0
  <1>5. ASSUME NEW d \in 0 .. KeyCount
        PROVE  \A e \in 0 .. KeyCount : d <= e /\ w[e] # None => w[d] # None
    <2> DEFINE D == {e \in 0 .. KeyCount : d <= e /\ w[e] # None /\ w[d] = None}
    <2>1. SUFFICES ASSUME D # {} PROVE FALSE
      OBVIOUS
    <2>2. PICK e \in D : \A f \in D : e <= f
      <3>1. D \subseteq Nat
        BY <1>0
      <3> HIDE DEF D
      <3> QED
        BY <2>1, <3>1, LeastNatural
    <2>3. e \in 0 .. KeyCount /\ d <= e /\ w[e] # None /\ w[d] = None
      OBVIOUS
    <2>4. d <= e - 1 /\ e - 1 \in 0 .. KeyCount /\ e # 0 /\ ~ (e <= e - 1)
      BY <2>3, <1>0
    <2>5. w[e - 1] # None
      BY <2>3, <2>4, <1>1
    <2> QED
      BY <2>2, <2>3, <2>4, <2>5
  <1>6. ASSUME n # None
        PROVE  \E d \in 0 .. KeyCount :
                  /\ Last(w) = w[d] /\ w[d] # None /\ next[w[d]] = None
                  /\ \A e \in 0 .. KeyCount : w[e] # None => e <= d
    <2> DEFINE E == {d \in 0 .. KeyCount : w[d] # None}
               Is(d) == w[d] # None /\ (d + 1 \in DOMAIN w => w[d + 1] = None)
    <2>1. E # {} /\ E \subseteq Int /\ IsFiniteSet(E)
      <3>1. 0 \in E
        BY <1>0, <1>1, <1>6
      <3>2. IsFiniteSet(0 .. KeyCount)
        BY <1>0, FS_Interval
      <3>3. E \subseteq 0 .. KeyCount
        OBVIOUS
      <3> HIDE DEF E
      <3>4. IsFiniteSet(E)
        BY <3>2, <3>3, FS_Subset
      <3> QED
        BY <3>1, <3>3, <3>4, <1>0
    <2>2. PICK d0 \in E : \A e \in E : e <= d0
      <3> HIDE DEF E
      <3> QED
        BY <2>1, GreatestMember
    <2>3. d0 \in DOMAIN w /\ Is(d0)
      <3>1. d0 \in 0 .. KeyCount /\ w[d0] # None
        OBVIOUS
      <3>2. d0 + 1 \in 0 .. KeyCount => w[d0 + 1] = None
        <4>1. ASSUME d0 + 1 \in 0 .. KeyCount, w[d0 + 1] # None PROVE FALSE
          <5>1. d0 + 1 \in E
            BY <4>1
          <5>2. d0 + 1 <= d0 /\ d0 \in Nat
            BY <5>1, <2>2, <3>1, <1>0
          <5> QED
            BY <5>2
        <4> QED
          BY <4>1
      <3> QED
        BY <3>1, <3>2, <1>1
    <2> DEFINE d == CHOOSE e \in DOMAIN w : Is(e)
    <2>4. d \in DOMAIN w /\ Is(d)
      <3> HIDE DEF Is
      <3> QED
        BY <2>3
    <2>5. Last(w) = w[d]
      BY DEF Last
    <2> HIDE DEF d
    <2>6. d \in 0 .. KeyCount /\ w[d] # None /\ d # KeyCount
      BY <1>1, <1>4, <2>4
    <2>7. d + 1 \in 0 .. KeyCount /\ d + 1 # 0 /\ d + 1 - 1 = d
      BY <2>6, <1>0
    <2>8. w[d + 1] = None
      BY <1>1, <2>4, <2>7
    <2>9. next[w[d]] = None
      BY <1>1, <2>6, <2>7, <2>8
    <2>10. ASSUME NEW e \in 0 .. KeyCount, w[e] # None PROVE e <= d
      <3>1. ~ (d + 1 <= e)
        BY <1>5, <2>7, <2>8, <2>10
      <3> QED
        BY <3>1, <2>6, <1>0
    <2> QED
      BY <2>5, <2>6, <2>9, <2>10
  <1> QED
    BY <1>2, <1>4, <1>5, <1>6 DEF w

-----------------------------------------------------------------------------
(* Walks in an ordered tree *)

\* A subtree has at least one node, and a child's fewer than its parent's.
LEMMA SubCounts ==
    ASSUME NEW t, NEW ns, NEW sub, Ordered(t, ns, sub)
    PROVE  /\ \A x \in ns : IsFiniteSet(sub[x]) /\ Cardinality(sub[x]) \in 1 .. KeyCount
           /\ \A x \in ns, q \in Sides : t.child[q][x] # None =>
                 Cardinality(sub[t.child[q][x]]) < Cardinality(sub[x])
  <1>1. ASSUME NEW x \in ns
        PROVE  IsFiniteSet(sub[x]) /\ Cardinality(sub[x]) \in 1 .. KeyCount
    <2>1. sub[x] \subseteq Keys /\ x \in sub[x]
      BY DEF Ordered
    <2>2. IsFiniteSet(sub[x]) /\ Cardinality(sub[x]) <= KeyCount
      BY <2>1, KeysCounted, FS_Subset DEF KeyCount
    <2>3. Cardinality(sub[x]) \in Nat /\ Cardinality(sub[x]) # 0
      BY <2>1, <2>2, FS_CardinalityType, FS_EmptySet
    <2> QED
      BY <2>2, <2>3, KeysCounted
  <1>2. ASSUME NEW x \in ns, NEW q \in Sides, t.child[q][x] # None
        PROVE  Cardinality(sub[t.child[q][x]]) < Cardinality(sub[x])
    <2> DEFINE c == t.child[q][x]
    <2>1. x \notin sub[c] /\ sub[c] \subseteq sub[x] /\ x \in sub[x]
      BY <1>2, ChildFacts DEF Ordered
    <2> HIDE DEF c
    <2>2. IsFiniteSet(sub[x]) /\ sub[c] # sub[x]
      BY <1>1, <2>1
    <2>4. /\ Cardinality(sub[c]) <= Cardinality(sub[x])
          /\ Cardinality(sub[c]) # Cardinality(sub[x])
          /\ IsFiniteSet(sub[c])
      BY <2>1, <2>2, FS_Subset
    <2>5. Cardinality(sub[c]) \in Nat /\ Cardinality(sub[x]) \in Nat
      BY <2>2, <2>4, FS_CardinalityType
    <2>3. Cardinality(sub[c]) < Cardinality(sub[x])
      BY <2>4, <2>5
    <2> QED
      BY <2>3 DEF c
  <1> QED
    BY <1>1, <1>2

\* Each of the walks takes one step from every key.
LEMMA NextTypes ==
    ASSUME NEW t \in Trees
    PROVE  /\ \A s \in Sides : t.child[s] \in [Keys -> KeyOrNone]
           /\ t.parent \in [Keys -> KeyOrNone]
           /\ \A k : Toward(t, k) \in [Keys -> KeyOrNone]
           /\ \A s \in Sides : ParentFrom(t, s) \in [Keys -> KeyOrNone]
  <1>1. \A k : Toward(t, k) \in [Keys -> KeyOrNone]
    BY LinkTypes, NoneApart DEF Toward, Sides
  <1>2. \A s \in Sides : ParentFrom(t, s) \in [Keys -> KeyOrNone]
    BY LinkTypes, NoneApart DEF ParentFrom
  <1> QED
    BY <1>1, <1>2, LinkTypes

\* A walk down from n comes by way of the parents and ends where it must.
Trail(w) == {w[d] : d \in 0 .. KeyCount} \ {None}

\* A walk from child to child ends within KeyCount steps; what it visited is
\* closed under parents up to its start.
LEMMA DownTrail ==
    ASSUME NEW t, NEW ns, NEW sub, Ordered(t, ns, sub), NEW n \in ns,
           NEW next \in [Keys -> KeyOrNone],
           \A x \in ns : next[x] # None => \E q \in Sides : next[x] = t.child[q][x]
    PROVE  LET w == Walk(n, next)
               V == Trail(w)
               last == Last(w)
           IN  /\ n \in V /\ V \subseteq ns
               /\ last \in V /\ next[last] = None
               /\ \A z \in V \ {n} : t.parent[z] \in V /\ next[t.parent[z]] = z
               /\ \A z \in V \ {last} : next[z] # None /\ next[z] \in V
               /\ \A z \in V : sub[z] \subseteq sub[n]
               /\ w[KeyCount] = None /\ KeyCount \in 0 .. KeyCount
  <1> DEFINE w == Walk(n, next)
             V == Trail(w)
             last == Last(w)
             rank == [x \in ns |-> Cardinality(sub[x])]
  <1>0. KeyCount \in Nat /\ ns \subseteq Keys /\ n # None /\ n \in KeyOrNone
    BY KeysCounted, NoneApart DEF Ordered
  <1>1. /\ DOMAIN w = 0 .. KeyCount /\ w[0] = n
        /\ \A e \in 0 .. KeyCount : w[e] \in KeyOrNone
        /\ \A e \in 0 .. KeyCount : e # 0 =>
              w[e] = IF w[e - 1] = None THEN None ELSE next[w[e - 1]]
    BY <1>0, WalkSteps
  <1>2. rank \in [ns -> 1 .. KeyCount]
    BY SubCounts
  <1>3. \A x \in ns : next[x] # None => next[x] \in ns /\ rank[next[x]] < rank[x]
    <2> SUFFICES ASSUME NEW x \in ns, next[x] # None
                 PROVE  next[x] \in ns /\ rank[next[x]] < rank[x]
      OBVIOUS
    <2>1. PICK q \in Sides : next[x] = t.child[q][x]
      OBVIOUS
    <2>2. next[x] \in ns
      BY <2>1, ChildFacts
    <2>3. Cardinality(sub[next[x]]) < Cardinality(sub[x])
      BY <2>1, SubCounts
    <2> QED
      BY <2>2, <2>3
  <1> HIDE DEF rank
  <1>4. /\ w[KeyCount] = None
        /\ \A d \in 0 .. KeyCount : w[d] # None => w[d] \in ns
        /\ \A d \in 0 .. KeyCount, e \in 0 .. KeyCount : d <= e /\ w[e] # None => w[d] # None
        /\ \E d \in 0 .. KeyCount :
              /\ last = w[d] /\ w[d] # None /\ next[w[d]] = None
              /\ \A e \in 0 .. KeyCount : w[e] # None => e <= d
    BY <1>0, <1>2, <1>3, WalkEnds
  <1>5. \A d \in 0 .. KeyCount : w[d] # None => w[d] \in {z \in ns : sub[z] \subseteq sub[n]}
    <2> DEFINE T == {z \in ns : sub[z] \subseteq sub[n]}
    <2>1. n # None => n \in T
      OBVIOUS
    <2>2. ASSUME NEW x \in T, next[x] # None PROVE next[x] \in T
      <3>1. PICK q \in Sides : next[x] = t.child[q][x]
        BY <2>2
      <3>2. next[x] \in ns /\ sub[next[x]] \subseteq sub[x]
        BY <2>2, <3>1, ChildFacts
      <3> QED
        BY <3>2
    <2> HIDE DEF T
    <2>3. \A d \in 0 .. KeyCount : w[d] # None => w[d] \in T
      BY <1>0, <2>1, <2>2, WalkStays
    <2> QED
      BY <2>3 DEF T
  <1> HIDE DEF w, last
  <1>6. n \in V /\ V \subseteq ns /\ last \in V /\ next[last] = None
    <2>1. 0 \in 0 .. KeyCount
      BY <1>0
    <2> QED
      BY <2>1, <1>0, <1>1, <1>4 DEF Trail
  <1>7. \A z \in V : sub[z] \subseteq sub[n]
    BY <1>5 DEF Trail
  <1>8. ASSUME NEW z \in V, z # n
        PROVE  t.parent[z] \in V /\ next[t.parent[z]] = z
    <2>1. PICK d \in 0 .. KeyCount : w[d] = z
      BY DEF Trail
    <2>2. z # None /\ d # 0
      BY <2>1, <1>1, <1>8 DEF Trail
    <2>3. d - 1 \in 0 .. KeyCount
      BY <2>2, <1>0
    <2>4. w[d - 1] # None /\ next[w[d - 1]] = z /\ w[d - 1] \in ns
      BY <2>1, <2>2, <2>3, <1>1, <1>4
    <2>5. PICK q \in Sides : z = t.child[q][w[d - 1]]
      BY <2>2, <2>4
    <2>6. t.parent[z] = w[d - 1]
      BY <2>2, <2>4, <2>5, ChildFacts
    <2> QED
      BY <2>3, <2>4, <2>6 DEF Trail
  <1>9. ASSUME NEW z \in V, z # last
        PROVE  next[z] # None /\ next[z] \in V
    <2>1. PICK d \in 0 .. KeyCount : w[d] = z /\ z # None
      BY DEF Trail
    <2>2. PICK e \in 0 .. KeyCount : /\ last = w[e] /\ w[e] # None
                                     /\ \A f \in 0 .. KeyCount : w[f] # None => f <= e
      BY <1>4
    <2>3. d <= e /\ d # e
      BY <2>1, <2>2, <1>9
    <2>4. d + 1 \in 0 .. KeyCount /\ d + 1 <= e /\ d + 1 - 1 = d /\ d + 1 # 0
      BY <2>3, <1>0
    <2>5. w[d + 1] # None
      BY <2>2, <2>4, <1>4
    <2>6. w[d + 1] = next[z]
      BY <2>1, <2>4, <1>1
    <2> QED
      BY <2>4, <2>5, <2>6 DEF Trail
  <1>10. w[KeyCount] = None /\ KeyCount \in 0 .. KeyCount
    BY <1>0, <1>4
  <1> QED
    BY <1>6, <1>7, <1>8, <1>9, <1>10 DEF w, last

\* The trail stays in what its steps do not leave.
LEMMA TrailWithin ==
    ASSUME NEW n \in KeyOrNone, NEW next \in [Keys -> KeyOrNone],
           NEW T, n # None => n \in T,
           \A x \in T \cap Keys : next[x] # None => next[x] \in T
    PROVE  Trail(Walk(n, next)) \subseteq T
  BY WalkStays DEF Trail

\* Extreme is the first or the last node of a subtree.
LEMMA ExtremeIs ==
    ASSUME NEW t, NEW ns, NEW sub, Ordered(t, ns, sub), NEW n \in ns, NEW s \in Sides
    PROVE  LET e == Extreme(t, n, s)
           IN  /\ e \in ns /\ e \in sub[n] /\ e # None /\ t.child[s][e] = None
               /\ \A y \in sub[n] : y = e \/ Before(s, e, y)
  <1> DEFINE next == t.child[s]
             w == Walk(n, next)
             e == Extreme(t, n, s)
             T == {x \in ns : /\ sub[x] \subseteq sub[n]
                              /\ \A y \in sub[n] : y \in sub[x] \/ Before(s, x, y)}
  <1>1. /\ ns \subseteq Keys /\ t \in Trees /\ n # None /\ n \in KeyOrNone
        /\ \A x \in ns : x \in sub[x] /\ sub[x] \subseteq ns
    BY NoneApart DEF Ordered
  <1>2. next \in [Keys -> KeyOrNone]
    BY <1>1, NextTypes
  <1>3. e = Last(w)
    BY <1>1 DEF Extreme
  <1>4. e \in Trail(w) /\ next[e] = None
    <2>1. \A x \in ns : next[x] # None => \E q \in Sides : next[x] = t.child[q][x]
      OBVIOUS
    <2> HIDE DEF next
    <2> QED
      BY <1>2, <1>3, <2>1, DownTrail
  <1>5. n \in T
    BY <1>1
  <1>6. ASSUME NEW x \in T, next[x] # None PROVE next[x] \in T
    <2> DEFINE c == next[x]
    <2>1. x \in ns /\ x \in Keys /\ sub[x] \subseteq sub[n]
          /\ \A y \in sub[n] : y \in sub[x] \/ Before(s, x, y)
      BY <1>1
    <2>2. /\ c \in ns /\ c \in Keys /\ Before(s, c, x) /\ sub[c] = Part(s, sub[x], x)
          /\ sub[c] \subseteq sub[x]
      BY <1>6, <2>1, ChildFacts
    <2> HIDE DEF c
    <2>3. ASSUME NEW y \in sub[n] PROVE y \in sub[c] \/ Before(s, c, y)
      <3>1. y \in Keys
        BY <1>1
      <3>2. CASE y \in sub[x]
        <4>1. y = x \/ Before(s, y, x) \/ Before(s, x, y)
          BY <3>1, <2>1, BeforeOrder
        <4>2. Before(s, x, y) => Before(s, c, y)
          BY <3>1, <2>1, <2>2, BeforeOrder
        <4> QED
          BY <3>2, <4>1, <4>2, <2>2 DEF Part
      <3>3. CASE y \notin sub[x]
        BY <3>3, <3>1, <2>1, <2>2, BeforeOrder
      <3> QED
        BY <3>2, <3>3
    <2> QED
      BY <2>1, <2>2, <2>3 DEF c
  <1>7. e \in T
    <2> HIDE DEF T, next, e
    <2>1. \A x \in T \cap Keys : next[x] # None => next[x] \in T
      BY <1>6
    <2>2. Trail(w) \subseteq T
      BY <1>1, <1>2, <1>5, <2>1, TrailWithin
    <2> QED
      BY <2>2, <1>4
  <1> HIDE DEF e
  <1>8. e \in ns /\ e \in Keys /\ e \in sub[n] /\ e # None
    BY <1>1, <1>7, NoneApart
  <1>9. Part(s, sub[e], e) = {}
    BY <1>4, <1>8 DEF Ordered
  <1>10. ASSUME NEW y \in sub[n] PROVE y = e \/ Before(s, e, y)
    <2>1. y \in Keys
      BY <1>1
    <2>2. CASE y \in sub[e]
      <3>1. ~Before(s, y, e)
        BY <2>2, <1>9 DEF Part
      <3> QED
        BY <3>1, <2>1, <1>8, BeforeOrder
    <2>3. CASE y \notin sub[e]
      BY <2>3, <1>7
    <2> QED
      BY <2>2, <2>3
  <1> QED
    BY <1>4, <1>8, <1>10 DEF e

\* A search finds what is there.
LEMMA FoundIs ==
    ASSUME NEW t, NEW ns, NEW sub, Ordered(t, ns, sub), NEW k \in Keys
    PROVE  /\ Found(t, k) <=> k \in ns
           /\ t.root # None => /\ t.root \in Trail(Search(t, k)) 
                               /\ Trail(Search(t, k)) \subseteq ns
  <1> DEFINE next == Toward(t, k)
             w == Search(t, k)
             last == Last(w)
  <1>1. /\ ns \subseteq Keys /\ t \in Trees /\ k # None /\ t.root \in KeyOrNone
        /\ \A x \in ns : x \in sub[x] /\ sub[x] \subseteq ns
        /\ Keys \subseteq Int
    BY NoneApart, LinkTypes, TreeMapAssumption DEF Ordered, TreeMapAssumption
  <1>2. next \in [Keys -> KeyOrNone]
    BY <1>1, NextTypes
  <1>3. \A x \in Keys : /\ k < x => next[x] = t.child["left"][x]
                        /\ x < k => next[x] = t.child["right"][x]
                        /\ x = k => next[x] = None
    <2> SUFFICES ASSUME NEW x \in Keys
                 PROVE  /\ k < x => next[x] = t.child["left"][x]
                        /\ x < k => next[x] = t.child["right"][x]
                        /\ x = k => next[x] = None
      OBVIOUS
    <2>1. x \in Int /\ k \in Int
      BY <1>1
    <2>2. next[x] = IF x > k THEN t.child["left"][x]
                    ELSE IF x < k THEN t.child["right"][x] ELSE None
      BY DEF Toward
    <2> HIDE DEF next
    <2> QED
      BY <2>1, <2>2
  <1>4. DOMAIN w = 0 .. KeyCount
    BY <1>1, <1>2, WalkSteps DEF Search
  <1>5. CASE t.root = None
    <2>1. ns = {}
      BY <1>5 DEF Ordered
    <2>2. \A d \in 0 .. KeyCount : w[d] # None => w[d] \in {}
      <3> DEFINE T == {}
      <3>1. t.root # None => t.root \in T
        BY <1>5
      <3>2. \A x \in T \cap Keys : next[x] # None => next[x] \in T
        OBVIOUS
      <3> HIDE DEF next, T
      <3>3. \A d \in 0 .. KeyCount : Walk(t.root, next)[d] # None => Walk(t.root, next)[d] \in T
        BY <1>1, <1>2, <3>1, <3>2, WalkStays
      <3> QED
        BY <3>3 DEF Search, next, T
    <2>3. ~Found(t, k)
      BY <1>1, <1>4, <2>2 DEF Found
    <2> QED
      BY <1>5, <2>1, <2>3
  <1>6. CASE t.root # None
    <2>0. t.root \in ns /\ sub[t.root] = ns
      BY <1>6 DEF Ordered
    <2>1. \A x \in ns : next[x] # None => \E q \in Sides : next[x] = t.child[q][x]
      <3> SUFFICES ASSUME NEW x \in ns, next[x] # None
                   PROVE  \E q \in Sides : next[x] = t.child[q][x]
        OBVIOUS
      <3>1. x \in Keys /\ x \in Int /\ k \in Int
        BY <1>1
      <3>2. k < x \/ x < k \/ x = k
        BY <3>1
      <3> HIDE DEF next
      <3> QED
        BY <1>3, <3>1, <3>2 DEF Sides
    <2>2. /\ t.root \in Trail(w) /\ Trail(w) \subseteq ns
          /\ last \in Trail(w) /\ next[last] = None
      <3> HIDE DEF next
      <3> QED
        BY <1>2, <2>0, <2>1, DownTrail DEF Search, next
    <2> HIDE DEF next
    <2>3. ASSUME k \in ns PROVE Trail(w) \subseteq {x \in ns : k \in sub[x]}
      <3> DEFINE T == {x \in ns : k \in sub[x]}
      <3>1. t.root \in T
        BY <2>0, <2>3
      <3>2. ASSUME NEW x \in T, next[x] # None PROVE next[x] \in T
        <4>1. x \in ns /\ k \in sub[x] /\ x \in Keys
          BY <1>1
        <4>2. k < x \/ x < k
          <5>1. x # k
            BY <3>2, <4>1, <1>3
          <5>2. x \in Int /\ k \in Int
            BY <4>1, <1>1
          <5> HIDE DEF next
          <5> QED
            BY <5>1, <5>2
        <4>3. ASSUME NEW q \in Sides, Before(q, k, x), next[x] = t.child[q][x]
              PROVE  next[x] \in T
          <5>1. next[x] \in ns /\ sub[next[x]] = Part(q, sub[x], x)
            BY <3>2, <4>1, <4>3, ChildFacts
          <5> QED
            BY <5>1, <4>1, <4>3 DEF Part
        <4>4. CASE k < x
          BY <4>1, <4>3, <4>4, <1>3 DEF Before, Sides
        <4>5. CASE x < k
          BY <4>1, <4>3, <4>5, <1>3 DEF Before, Sides
        <4> QED
          BY <4>2, <4>4, <4>5
      <3>3. Trail(w) \subseteq T
        <4> HIDE DEF T
        <4>1. \A x \in T \cap Keys : next[x] # None => next[x] \in T
          BY <3>2
        <4> QED
          BY <3>1, <4>1, <1>1, <1>2, TrailWithin DEF Search, next
      <3> QED
        BY <3>3
    <2>4. ASSUME k \in ns PROVE Found(t, k)
      <3>1. last \in ns /\ k \in sub[last] /\ next[last] = None /\ last \in Keys
        BY <2>2, <2>3, <2>4, <1>1
      <3>2. last = k
        <4>1. ASSUME NEW q \in Sides, t.child[q][last] = None PROVE ~Before(q, k, last)
          <5>1. Part(q, sub[last], last) = {}
            BY <3>1, <4>1 DEF Ordered
          <5> QED
            BY <5>1, <3>1 DEF Part
        <4> HIDE DEF last
        <4>2. ~(k < last)
          BY <3>1, <4>1, <1>3 DEF Before, Sides
        <4>3. ~(last < k)
          BY <3>1, <4>1, <1>3 DEF Before, Sides
        <4> QED
          BY <4>2, <4>3, <3>1, <1>1
      <3> QED
        BY <3>2, <2>2, <1>4 DEF Found, Trail
    <2>5. ASSUME Found(t, k) PROVE k \in ns
      <3>1. PICK d \in DOMAIN w : w[d] = k
        BY <2>5 DEF Found
      <3>2. k \in Trail(w)
        BY <3>1, <1>1, <1>4 DEF Trail
      <3> QED
        BY <3>2, <2>2
    <2> QED
      BY <2>2, <2>4, <2>5
  <1> QED
    BY <1>5, <1>6

-----------------------------------------------------------------------------
(* Insertion of a leaf *)

\* The place below p that a search for k finds empty.
LEMMA SearchEnds ==
    ASSUME NEW t, NEW ns, NEW sub, Ordered(t, ns, sub), NEW k \in Keys \ ns,
           t.root # None
    PROVE  LET V == Trail(Search(t, k))
               p == Last(Search(t, k))
           IN  /\ t.root \in V /\ V \subseteq ns /\ p \in V /\ p # None /\ p # k
               /\ \A z \in V \ {t.root} : t.parent[z] \in V
               /\ \A q \in Sides, x \in V : Before(q, k, x) =>
                     IF x = p THEN t.child[q][x] = None
                     ELSE t.child[q][x] # None /\ t.child[q][x] \in V
               /\ \A q \in Sides, x \in ns : Before(q, x, k) => t.child[q][x] \notin V
  <1> DEFINE next == Toward(t, k)
             w == Search(t, k)
             p == Last(w)
             V == Trail(w)
  <1>1. /\ ns \subseteq Keys /\ t \in Trees /\ k # None
        /\ Keys \subseteq Int /\ t.root \in ns
    BY NoneApart, TreeMapAssumption DEF Ordered, TreeMapAssumption
  <1>2. next \in [Keys -> KeyOrNone]
    BY <1>1, NextTypes
  <1>3. \A x \in Keys, q \in Sides : Before(q, k, x) => next[x] = t.child[q][x]
    <2> SUFFICES ASSUME NEW x \in Keys, NEW q \in Sides, Before(q, k, x)
                 PROVE  next[x] = t.child[q][x]
      OBVIOUS
    <2>1. x \in Int /\ k \in Int
      BY <1>1
    <2>2. next[x] = IF x > k THEN t.child["left"][x]
                    ELSE IF x < k THEN t.child["right"][x] ELSE None
      BY DEF Toward
    <2> HIDE DEF next
    <2> QED
      BY <2>1, <2>2 DEF Before, Sides
  <1>4. \A x \in ns : \E q \in Sides : Before(q, k, x)
    <2> SUFFICES ASSUME NEW x \in ns PROVE \E q \in Sides : Before(q, k, x)
      OBVIOUS
    <2>1. x \in Int /\ k \in Int /\ x # k
      BY <1>1
    <2> QED
      BY <2>1 DEF Before, Sides
  <1>5. \A x \in ns : next[x] # None => \E q \in Sides : next[x] = t.child[q][x]
    BY <1>1, <1>3, <1>4
  <1> HIDE DEF next
  <1>6. /\ t.root \in V /\ V \subseteq ns /\ p \in V /\ next[p] = None
        /\ \A z \in V \ {t.root} : t.parent[z] \in V /\ next[t.parent[z]] = z
        /\ \A z \in V \ {p} : next[z] # None /\ next[z] \in V
    <2> DEFINE n == t.root
    <2>0. n \in ns
      BY <1>1
    <2> HIDE DEF n
    <2>1. LET w1 == Walk(n, next)
              V1 == Trail(w1)
              last == Last(w1)
          IN  /\ n \in V1 /\ V1 \subseteq ns
              /\ last \in V1 /\ next[last] = None
              /\ \A z \in V1 \ {n} : t.parent[z] \in V1 /\ next[t.parent[z]] = z
              /\ \A z \in V1 \ {last} : next[z] # None /\ next[z] \in V1
              /\ \A z \in V1 : sub[z] \subseteq sub[n]
              /\ w1[KeyCount] = None /\ KeyCount \in 0 .. KeyCount
      BY ONLY <2>0, <1>2, <1>5, DownTrail, Ordered(t, ns, sub)
    <2>2. w = Walk(n, next)
      BY DEF Search, next, n
    <2> HIDE DEF w
    <2> QED
      BY <2>1, <2>2 DEF n
  <1> HIDE DEF w, p, V
  <1>7. p # None /\ p # k
    BY <1>1, <1>6, NoneApart
  <1>8. ASSUME NEW q \in Sides, NEW x \in V, Before(q, k, x)
        PROVE  IF x = p THEN t.child[q][x] = None
               ELSE t.child[q][x] # None /\ t.child[q][x] \in V
    BY <1>1, <1>3, <1>6, <1>8
  <1>9. ASSUME NEW q \in Sides, NEW x \in ns, Before(q, x, k), t.child[q][x] \in V
        PROVE  FALSE
    <2> DEFINE c == t.child[q][x]
    <2>1. c # None
      BY <1>1, <1>6, <1>9, NoneApart
    <2>2. c # t.root /\ t.parent[c] = x /\ c # t.child[Opposite(q)][x]
      BY <2>1, ChildFacts
    <2>3. next[x] = c
      BY <2>2, <1>6, <1>9
    <2>4. Opposite(q) \in Sides /\ Before(Opposite(q), k, x)
      BY <1>1, <1>9, SidesTwo, BeforeOrder
    <2> QED
      BY <2>2, <2>3, <2>4, <1>1, <1>3
  <1> QED
    BY <1>6, <1>7, <1>8, <1>9 DEF w, p, V

\* A new leaf k below p; p = None for the first one.
Leafed(t, r, p, side, k) ==
    /\ r \in Trees /\ r.root = (IF p = None THEN k ELSE t.root)
    /\ \A q \in Sides, x \in Keys :
          r.child[q][x] = IF x = p /\ q = side THEN k
                          ELSE IF x = k THEN None ELSE t.child[q][x]
    /\ \A x \in Keys : r.parent[x] = IF x = k THEN p ELSE t.parent[x]
    /\ \A x \in Keys : r.color[x] = IF x = k THEN RED ELSE t.color[x]

\* What a node without children is.
LEMMA BlankFields ==
    ASSUME NEW t \in Trees, NEW n \in Keys, NEW p \in KeyOrNone,
           NEW c \in {RED, BLACK, None}
    PROVE  LET r == Blank(t, n, p, c)
           IN  /\ r \in Trees /\ r.root = t.root
               /\ \A q \in Sides, x \in Keys :
                     r.child[q][x] = IF x = n THEN None ELSE t.child[q][x]
               /\ \A x \in Keys : r.parent[x] = IF x = n THEN p ELSE t.parent[x]
               /\ \A x \in Keys : r.color[x] = IF x = n THEN c ELSE t.color[x]
  BY DEF Blank, Trees, KeyOrNone

\* What treemap_set links for a new node.
LEMMA PlantedFields ==
    ASSUME NEW t \in Trees, NEW k \in Keys, NEW p \in KeyOrNone,
           p = IF t.root = None THEN None ELSE Last(Search(t, k))
    PROVE  Leafed(t, Planted(t, k), p, IF p = None \/ p > k THEN "left" ELSE "right", k)
  <1> DEFINE side == IF p = None \/ p > k THEN "left" ELSE "right"
             leaf == Blank(t, k, p, RED)
             r == Planted(t, k)
  <1>1. side \in Sides
    BY DEF Sides
  <1>2. r = Attach(leaf, p, side, k)
    BY DEF Planted
  <1>3. /\ leaf \in Trees /\ leaf.root = t.root
        /\ \A q \in Sides, x \in Keys :
              leaf.child[q][x] = IF x = k THEN None ELSE t.child[q][x]
        /\ \A x \in Keys : leaf.parent[x] = IF x = k THEN p ELSE t.parent[x]
        /\ \A x \in Keys : leaf.color[x] = IF x = k THEN RED ELSE t.color[x]
    <2>1. RED \in {RED, BLACK, None}
      OBVIOUS
    <2> QED
      BY ONLY <2>1, t \in Trees, k \in Keys, p \in KeyOrNone, BlankFields
  <1> HIDE DEF leaf, side
  <1>4. /\ r \in Trees /\ r.root = (IF p = None THEN k ELSE leaf.root)
        /\ r.parent = leaf.parent /\ r.color = leaf.color
        /\ \A q \in Sides, x \in Keys :
              r.child[q][x] = IF x = p /\ q = side THEN k ELSE leaf.child[q][x]
    <2>1. k \in KeyOrNone /\ leaf \in Trees
      BY <1>3, NoneApart
    <2>2. LET r1 == Attach(leaf, p, side, k)
          IN  /\ r1 \in Trees /\ r1.root = (IF p = None THEN k ELSE leaf.root)
              /\ r1.parent = leaf.parent /\ r1.color = leaf.color
              /\ \A q \in Sides, x \in Keys :
                    r1.child[q][x] = IF x = p /\ q = side THEN k ELSE leaf.child[q][x]
      BY ONLY <1>1, <2>1, AttachFields, p \in KeyOrNone
    <2> HIDE DEF r
    <2> QED
      BY ONLY <1>2, <2>2
  <1> HIDE DEF r
  <1>5. Leafed(t, r, p, side, k)
    BY <1>3, <1>4 DEF Leafed
  <1> QED
    BY <1>5 DEF r, side

\* A leaf below the end of a search for its key makes a search tree: V is the
\* path of the search.
LEMMA LeafOrdered ==
    ASSUME NEW t, NEW ns, NEW sub, Ordered(t, ns, sub), NEW k \in Keys \ ns,
           NEW r, NEW p, NEW side \in Sides, Leafed(t, r, p, side, k),
           p = None <=> t.root = None,
           p # None => Before(side, k, p),
           NEW V, V \subseteq ns,
           t.root # None => t.root \in V /\ p \in V,
           \A z \in V \ {t.root} : t.parent[z] \in V,
           \A q \in Sides, x \in V : Before(q, k, x) =>
                 IF x = p THEN t.child[q][x] = None
                 ELSE t.child[q][x] # None /\ t.child[q][x] \in V,
           \A q \in Sides, x \in ns : Before(q, x, k) => t.child[q][x] \notin V
    PROVE  \E sub2 : Ordered(r, ns \cup {k}, sub2)
  <1> DEFINE sub2 == [x \in Keys |-> IF x = k THEN {k}
                                     ELSE IF x \in V THEN sub[x] \cup {k} ELSE sub[x]]
             ms == ns \cup {k}
  <1>1. /\ ns \subseteq Keys /\ t \in Trees /\ k # None /\ sub \in [Keys -> SUBSET Keys]
        /\ \A x \in ns : x \in sub[x] /\ sub[x] \subseteq ns /\ x \in Keys /\ x # k /\ x # None
    BY NoneApart DEF Ordered
  <1>2. /\ sub2 \in [Keys -> SUBSET Keys] /\ sub2[k] = {k}
        /\ \A x \in V : sub2[x] = sub[x] \cup {k}
        /\ \A x \in ns \ V : sub2[x] = sub[x]
    BY <1>1
  <1> HIDE DEF sub2
  <1>3. /\ r \in Trees /\ r.root = (IF p = None THEN k ELSE t.root)
        /\ \A q \in Sides, x \in Keys :
              r.child[q][x] = IF x = p /\ q = side THEN k
                              ELSE IF x = k THEN None ELSE t.child[q][x]
        /\ \A x \in Keys : r.parent[x] = IF x = k THEN p ELSE t.parent[x]
        /\ \A x \in Keys : r.color[x] = IF x = k THEN RED ELSE t.color[x]
    BY DEF Leafed
  <1>4. ms \subseteq Keys /\ \A x \in ms : x \in sub2[x] /\ sub2[x] \subseteq ms
    BY <1>1, <1>2
  <1>5. p # None => p \in ns /\ p \in V /\ p \in Keys /\ p # k
    BY <1>1
  <1>6. IF r.root = None THEN ms = {}
        ELSE r.root \in ms /\ r.parent[r.root] = None /\ sub2[r.root] = ms
    <2>1. CASE p = None
      <3>1. ns = {}
        BY <2>1 DEF Ordered
      <3> QED
        BY <2>1, <3>1, <1>1, <1>2, <1>3
    <2>2. CASE p # None
      <3>1. t.root \in ns /\ t.parent[t.root] = None /\ sub[t.root] = ns /\ t.root \in V
        BY <2>2 DEF Ordered
      <3> QED
        BY <2>2, <3>1, <1>1, <1>2, <1>3
    <2> QED
      BY <2>1, <2>2
  <1>7. ASSUME NEW x \in ms, NEW q \in Sides
        PROVE  LET c == r.child[q][x]
               IN  IF c = None THEN Part(q, sub2[x], x) = {}
                   ELSE c \in ms /\ r.parent[c] = x /\ sub2[c] = Part(q, sub2[x], x)
    <2> DEFINE c == t.child[q][x]
    <2>1. CASE x = k
      <3>1. r.child[q][x] = None
        BY <2>1, <1>3, <1>5
      <3>2. Part(q, {k}, k) = {}
        BY BeforeOrder DEF Part
      <3> QED
        BY <2>1, <3>1, <3>2, <1>2
    <2>2. CASE x \in ns
      <3>0. x \in Keys /\ x # k /\ x # None
        BY <2>2, <1>1
      <3>1. IF c = None THEN Part(q, sub[x], x) = {}
            ELSE c \in ns /\ t.parent[c] = x /\ sub[c] = Part(q, sub[x], x)
        BY ONLY <2>2, Ordered(t, ns, sub), q \in Sides DEF Ordered
      <3>2. CASE x \notin V
        <4>1. r.child[q][x] = c
          BY <3>0, <3>2, <1>3, <1>5
        <4>2. sub2[x] = sub[x]
          BY <2>2, <3>2, <1>2
        <4>3. CASE c = None
          BY <4>1, <4>2, <4>3, <3>1
        <4>4. CASE c # None
          <5>1. c \in ns /\ t.parent[c] = x /\ c # t.root /\ c \in Keys /\ c # k
            BY <2>2, <3>1, <4>4, <1>1, ChildFacts
          <5> HIDE DEF c
          <5>2. c \notin V
            BY <5>1, <3>2
          <5> QED
            BY <3>1, <4>1, <4>2, <4>4, <5>1, <5>2, <1>2, <1>3
        <4> QED
          BY <4>3, <4>4
      <3>3. CASE x \in V /\ Before(q, k, x)
        <4>0. sub2[x] = sub[x] \cup {k}
          BY <3>3, <1>2
        <4>1. CASE x = p
          <5>1. c = None /\ q = side
            <6>1. c = None
              BY <3>3, <4>1
            <6>2. ~Before(Opposite(side), k, p)
              BY <4>1, <3>0, <1>1, BeforeOrder
            <6> QED
              BY <6>1, <6>2, <4>1, <3>3, SidesTwo
          <5>2. r.child[q][x] = k
            BY <5>1, <4>1, <3>0, <1>3
          <5>3. Part(q, sub2[x], x) = {k}
            BY <4>0, <5>1, <3>1, <3>3 DEF Part
          <5>4. r.parent[k] = x
            BY <4>1, <1>3
          <5> QED
            BY <5>2, <5>3, <5>4, <1>1, <1>2
        <4>2. CASE x # p
          <5>1. c # None /\ c \in V
            BY <3>3, <4>2
          <5>2. r.child[q][x] = c
            BY <3>0, <4>2, <1>3
          <5>3. c \in Keys /\ c # k /\ c \in ns
            BY <5>1, <3>1, <1>1
          <5> HIDE DEF c
          <5>4. Part(q, sub2[x], x) = Part(q, sub[x], x) \cup {k}
            BY <4>0, <3>3 DEF Part
          <5> QED
            BY <3>1, <5>1, <5>2, <5>3, <5>4, <1>2, <1>3
        <4> QED
          BY <4>1, <4>2
      <3>4. CASE x \in V /\ ~Before(q, k, x)
        <4>0. sub2[x] = sub[x] \cup {k} /\ Before(q, x, k)
          BY <3>0, <3>4, <1>1, <1>2, BeforeOrder
        <4>1. ~(x = p /\ q = side)
          BY <3>4, <3>0
        <4>2. r.child[q][x] = c
          BY <4>1, <3>0, <1>3
        <4>3. Part(q, sub2[x], x) = Part(q, sub[x], x)
          BY <4>0, <3>4 DEF Part
        <4>4. c \notin V
          BY <4>0, <2>2
        <4>5. CASE c = None
          BY <3>1, <4>2, <4>3, <4>5
        <4>6. CASE c # None
          <5>1. c \in ns /\ c \in Keys /\ c # k
            BY <3>1, <4>6, <1>1
          <5> HIDE DEF c
          <5> QED
            BY <3>1, <4>2, <4>3, <4>4, <4>6, <5>1, <1>2, <1>3
        <4> QED
          BY <4>5, <4>6
      <3> QED
        BY <3>2, <3>3, <3>4
    <2> QED
      BY <2>1, <2>2
  <1>8. ASSUME NEW x \in ms \ {r.root}
        PROVE  r.parent[x] \in ms /\ \E q \in Sides : r.child[q][r.parent[x]] = x
    <2>1. CASE x = k
      <3>1. p # None
        BY <2>1, <1>3, <1>8
      <3>2. r.parent[x] = p /\ r.child[side][p] = x
        BY <2>1, <3>1, <1>3, <1>5
      <3> QED
        BY <3>1, <3>2, <1>5
    <2>2. CASE x # k
      <3>1. x \in ns /\ x # t.root
        <4>1. x \in ns
          BY <2>2
        <4>2. t.root # None
          BY <4>1 DEF Ordered
        <4> QED
          BY <4>1, <4>2, <1>3, <1>8
      <3>2. t.parent[x] \in ns
        BY <3>1 DEF Ordered
      <3>3. PICK q \in Sides : t.child[q][t.parent[x]] = x
        BY <3>1 DEF Ordered
      <3>4. r.parent[x] = t.parent[x] /\ t.parent[x] \in Keys /\ t.parent[x] # k
        BY <2>2, <3>1, <3>2, <1>1, <1>3
      <3>5. ~(t.parent[x] = p /\ q = side)
        <4>1. ASSUME t.parent[x] = p, q = side PROVE FALSE
          <5>1. p # None /\ p \in V
            BY <4>1, <3>2, <1>1, <1>5
          <5>2. t.child[side][p] = None
            BY <5>1
          <5> QED
            BY <4>1, <5>2, <3>1, <3>3, <1>1
        <4> QED
          BY <4>1
      <3>6. r.child[q][t.parent[x]] = x
        BY <3>3, <3>4, <3>5, <1>3
      <3> QED
        BY <3>2, <3>4, <3>6
    <2> QED
      BY <2>1, <2>2
  <1>9. \A x \in Keys \ ms :
           /\ \A q \in Sides : r.child[q][x] = None
           /\ r.parent[x] = None /\ r.color[x] = None
    <2> SUFFICES ASSUME NEW x \in Keys \ ms
                 PROVE  /\ \A q \in Sides : r.child[q][x] = None
                        /\ r.parent[x] = None /\ r.color[x] = None
      OBVIOUS
    <2>1. x \notin ns /\ x # k /\ x # p
      BY <1>5, NoneApart
    <2>2. /\ \A q \in Sides : t.child[q][x] = None
          /\ t.parent[x] = None /\ t.color[x] = None
      BY <2>1 DEF Ordered
    <2> QED
      BY <2>1, <2>2, <1>3
  <1>10. \A x \in ms : r.color[x] \in {RED, BLACK}
    <2> SUFFICES ASSUME NEW x \in ms PROVE r.color[x] \in {RED, BLACK}
      OBVIOUS
    <2>1. x # k => t.color[x] \in {RED, BLACK}
      BY DEF Ordered
    <2> QED
      BY <2>1, <1>3, <1>4
  <1>11. Ordered(r, ms, sub2)
    BY <1>2, <1>3, <1>4, <1>6, <1>7, <1>8, <1>9, <1>10 DEF Ordered
  <1> QED
    BY <1>11

\* The new red leaf clashes with its parent at most.
LEMMA PlantedMends ==
    ASSUME NEW t, NEW ns, NEW sub, Ordered(t, ns, sub),
           NEW h, Balanced(t, ns, h, "left", None), Clashes(t, ns) = {},
           NEW k \in Keys \ ns
    PROVE  LET r == Planted(t, k)
           IN  /\ \E sub2 : Ordered(r, ns \cup {k}, sub2)
               /\ \E h2 : Balanced(r, ns \cup {k}, h2, "left", None)
               /\ r.color[k] = RED
               /\ \A x \in Clashes(r, ns \cup {k}) : x = k
  <1> DEFINE p == IF t.root = None THEN None ELSE Last(Search(t, k))
             side == IF p = None \/ p > k THEN "left" ELSE "right"
             V == IF t.root = None THEN {} ELSE Trail(Search(t, k))
             r == Planted(t, k)
             ms == ns \cup {k}
             h2 == [h EXCEPT ![k] = 0]
  <1>1. /\ ns \subseteq Keys /\ t \in Trees /\ k # None /\ k \in Keys /\ k \notin ns
        /\ Keys \subseteq Int /\ side \in Sides /\ None \notin ns
    BY NoneApart, TreeMapAssumption DEF Ordered, TreeMapAssumption, Sides
  <1>2. /\ V \subseteq ns
        /\ p = None <=> t.root = None
        /\ t.root # None => t.root \in V /\ p \in V
        /\ \A z \in V \ {t.root} : t.parent[z] \in V
        /\ \A q \in Sides, x \in V : Before(q, k, x) =>
              IF x = p THEN t.child[q][x] = None
              ELSE t.child[q][x] # None /\ t.child[q][x] \in V
        /\ \A q \in Sides, x \in ns : Before(q, x, k) => t.child[q][x] \notin V
    <2>1. CASE t.root = None
      <3>1. V = {} /\ p = None
        BY <2>1
      <3> HIDE DEF V, p
      <3> QED
        BY <2>1, <3>1
    <2>2. CASE t.root # None
      <3>1. V = Trail(Search(t, k)) /\ p = Last(Search(t, k))
        BY <2>2
      <3> HIDE DEF V, p
      <3> QED
        BY <2>2, <3>1, SearchEnds
    <2> QED
      BY <2>1, <2>2
  <1> HIDE DEF V
  <1>3. p \in KeyOrNone /\ (p # None => p \in ns /\ p \in Keys /\ p # k)
    <2> HIDE DEF p
    <2> QED
      BY <1>1, <1>2, NoneApart
  <1>4. Leafed(t, r, p, side, k)
    <2>1. t \in Trees /\ k \in Keys /\ p \in KeyOrNone
          /\ p = IF t.root = None THEN None ELSE Last(Search(t, k))
      BY <1>1, <1>3
    <2> HIDE DEF p
    <2> QED
      BY ONLY <2>1, PlantedFields
  <1>5. p # None => Before(side, k, p) /\ t.child[side][p] = None
    <2> HIDE DEF p
    <2>1. ASSUME p # None PROVE Before(side, k, p)
      <3>1. p \in Int /\ k \in Int /\ p # k
        BY <1>1, <1>3, <2>1
      <3> QED
        BY <3>1, <2>1 DEF Before
    <2> HIDE DEF side
    <2>2. ASSUME p # None PROVE t.child[side][p] = None
      <3>1. p \in V
        BY <1>2, <2>2
      <3> QED
        BY <3>1, <2>1, <2>2, <1>1, <1>2
    <2> QED
      BY <2>1, <2>2
  <1> HIDE DEF r, p, side
  <1>6. \E sub2 : Ordered(r, ms, sub2)
    <2>1. k \in Keys \ ns /\ side \in Sides /\ Ordered(t, ns, sub)
          /\ (p # None => Before(side, k, p))
      BY <1>1, <1>5
    <2> QED
      BY ONLY <2>1, <1>2, <1>4, LeafOrdered
  <1>7. /\ r \in Trees /\ r.root = (IF p = None THEN k ELSE t.root)
        /\ \A q \in Sides, x \in Keys :
              r.child[q][x] = IF x = p /\ q = side THEN k
                              ELSE IF x = k THEN None ELSE t.child[q][x]
        /\ \A x \in Keys : r.parent[x] = IF x = k THEN p ELSE t.parent[x]
        /\ \A x \in Keys : r.color[x] = IF x = k THEN RED ELSE t.color[x]
    BY <1>4 DEF Leafed
  <1>8. /\ h \in [KeyOrNone -> Nat] /\ h[None] = 0
        /\ \A x \in ns, q \in Sides : h[x] = Height(t, h, "left", None, q, x) + Weight(t, x)
    BY DEF Balanced
  <1>9. /\ h2 \in [KeyOrNone -> Nat] /\ h2[k] = 0 /\ h2[None] = 0
        /\ \A x \in KeyOrNone \ {k} : h2[x] = h[x]
    <2>1. k \in KeyOrNone /\ None \in KeyOrNone
      BY <1>1, NoneApart
    <2> QED
      BY <1>1, <1>8, <2>1
  <1> HIDE DEF h2
  <1>10. ASSUME NEW x \in ms, NEW q \in Sides
         PROVE  h2[x] = Height(r, h2, "left", None, q, x) + Weight(r, x)
    <2>0. x \in Keys /\ x # None
      BY <1>1
    <2>1. CASE x = k
      <3>1. r.child[q][x] = None
        BY <2>1, <1>1, <1>3, <1>7
      <3>2. Weight(r, x) = 0
        BY <2>1, <1>1, <1>7 DEF Weight, RED, BLACK
      <3> QED
        BY <2>0, <2>1, <3>1, <3>2, <1>9 DEF Height
    <2>2. CASE x \in ns
      <3>1. Weight(r, x) = Weight(t, x) /\ h2[x] = h[x]
        BY <2>0, <2>2, <1>1, <1>7, <1>9, NoneApart DEF Weight
      <3>2. t.child[q][x] \in KeyOrNone /\ h[t.child[q][x]] \in Nat
        BY <2>2, HeightTypes
      <3>3. h[x] = h[t.child[q][x]] + 0 + Weight(t, x)
        BY <2>0, <2>2, <1>8 DEF Height
      <3>4. h2[r.child[q][x]] = h[t.child[q][x]]
        <4>1. CASE x = p /\ q = side
          <5>1. t.child[q][x] = None /\ r.child[q][x] = k
            BY <2>0, <4>1, <1>5, <1>7
          <5> QED
            BY <5>1, <1>8, <1>9
        <4>2. CASE ~(x = p /\ q = side)
          <5>1. r.child[q][x] = t.child[q][x]
            BY <2>0, <2>2, <4>2, <1>1, <1>7
          <5>2. t.child[q][x] # k
            BY <2>2, <1>1, ChildFacts
          <5> QED
            BY <5>1, <5>2, <3>2, <1>9
        <4> QED
          BY <4>1, <4>2
      <3>5. Height(r, h2, "left", None, q, x) = h[t.child[q][x]] + 0
        BY <2>0, <3>4 DEF Height
      <3> QED
        BY <3>1, <3>3, <3>5
    <2> QED
      BY <2>1, <2>2
  <1>11. Balanced(r, ms, h2, "left", None)
    BY <1>9, <1>10 DEF Balanced
  <1>12. ASSUME NEW x \in Clashes(r, ms), x # k PROVE FALSE
    <2>1. x \in ns /\ x \in Keys /\ t.color[x] = RED
          /\ (x = r.root \/ r.color[r.parent[x]] = RED)
      BY <1>1, <1>7, <1>12 DEF Clashes
    <2>2. x # t.root /\ t.color[t.parent[x]] # RED
      BY <2>1, ClashIs
    <2>3. t.parent[x] \in ns /\ r.parent[x] = t.parent[x]
      BY <2>1, <2>2, <1>7, <1>12 DEF Ordered
    <2>4. r.color[r.parent[x]] = t.color[t.parent[x]]
      <3>1. t.parent[x] \in Keys /\ t.parent[x] # k
        BY <2>3, <1>1
      <3> QED
        BY <2>3, <3>1, <1>7
    <2> QED
      BY <2>1, <2>2, <2>4, <1>7, <1>12
  <1>13. r.color[k] = RED
    BY <1>1, <1>7
  <1> QED
    BY <1>6, <1>11, <1>12, <1>13 DEF r

-----------------------------------------------------------------------------
(* Deletion of a node with one child or none *)

\* The short place is on the side where the missing node would be.
LEMMA GapSide ==
    ASSUME NEW t, NEW ns, NEW sub, Ordered(t, ns, sub),
           NEW h, NEW a \in ns, NEW s \in Sides, Balanced(t, ns, h, s, a)
    PROVE  SideOf(t, t.child[s][a], a) = s
  <1> DEFINE d == t.child[s][a]
  <1>1. t.child[Opposite(s)][a] # None
    BY SiblingIsNode
  <1>2. t.child[Opposite(s)][a] # d
    <2>1. CASE d = None
      BY <1>1, <2>1
    <2>2. CASE d # None
      BY <2>2, ChildFacts
    <2> QED
      BY <2>1, <2>2
  <1> QED
    BY <1>2 DEF SideOf, Sides, Opposite

\* only takes the place of k, which is gone.
Spliced(t, r, k, only) ==
    LET p == t.parent[k]
    IN  /\ r \in Trees /\ r.root = (IF p = None THEN only ELSE t.root)
        /\ \A q \in Sides, x \in Keys :
              r.child[q][x] = IF x = k THEN None
                              ELSE IF x = p /\ q = SideOf(t, k, p) THEN only
                              ELSE t.child[q][x]
        /\ \A x \in Keys : r.parent[x] = IF x = k THEN None
                                         ELSE IF x = only THEN p ELSE t.parent[x]
        /\ \A x \in Keys : r.color[x] = IF x = k THEN None ELSE t.color[x]

\* What a freed node leaves.
LEMMA FreedFields ==
    ASSUME NEW t \in Trees, NEW n \in Keys
    PROVE  LET r == Freed(t, n)
           IN  /\ r \in Trees /\ r.root = t.root
               /\ \A q \in Sides, x \in Keys :
                     r.child[q][x] = IF x = n THEN None ELSE t.child[q][x]
               /\ \A x \in Keys : r.parent[x] = IF x = n THEN None ELSE t.parent[x]
               /\ \A x \in Keys : r.color[x] = IF x = n THEN None ELSE t.color[x]
  <1>1. None \in KeyOrNone /\ None \in {RED, BLACK, None}
    BY NoneApart
  <1> QED
    BY <1>1 DEF Freed, Blank, Trees, KeyOrNone

\* What treemap_delete writes for a node with one child or none.
LEMMA SplicedFields ==
    ASSUME NEW t \in Trees, NEW k \in Keys, NEW only \in KeyOrNone
    PROVE  Spliced(t, Freed(Transplant(t, k, only), k), k, only)
  <1> DEFINE p == t.parent[k]
             a == Transplant(t, k, only)
             r == Freed(a, k)
  <1>1. /\ a \in Trees /\ a.color = t.color
        /\ a.root = (IF p = None THEN only ELSE t.root)
        /\ \A q \in Sides, x \in Keys :
              a.child[q][x] = IF x = p /\ q = SideOf(t, k, p) THEN only
                              ELSE t.child[q][x]
        /\ \A x \in Keys : a.parent[x] = IF x = only THEN p ELSE t.parent[x]
    BY TransplantFields
  <1> HIDE DEF a
  <1>2. /\ r \in Trees /\ r.root = a.root
        /\ \A q \in Sides, x \in Keys :
              r.child[q][x] = IF x = k THEN None ELSE a.child[q][x]
        /\ \A x \in Keys : r.parent[x] = IF x = k THEN None ELSE a.parent[x]
        /\ \A x \in Keys : r.color[x] = IF x = k THEN None ELSE a.color[x]
    <2> HIDE DEF p
    <2> QED
      BY <1>1, FreedFields
  <1> HIDE DEF r, p
  <1>3. Spliced(t, r, k, only)
    <2>1. \A q \in Sides, x \in Keys :
              r.child[q][x] = IF x = k THEN None
                              ELSE IF x = p /\ q = SideOf(t, k, p) THEN only
                              ELSE t.child[q][x]
      BY <1>1, <1>2
    <2>2. \A x \in Keys : r.parent[x] = IF x = k THEN None
                                        ELSE IF x = only THEN p ELSE t.parent[x]
      BY <1>1, <1>2
    <2> QED
      BY <2>1, <2>2, <1>1, <1>2 DEF Spliced, p
  <1> QED
    BY <1>3 DEF r, a

\* An only child: no node of the subtree of k lies on its other side.
OnlyChild(t, k, side, only) ==
    /\ side \in Sides /\ only = t.child[side][k] /\ t.child[Opposite(side)][k] = None

\* The subtree of a node's only child is the node's without the node.
LEMMA OnlySub ==
    ASSUME NEW t, NEW ns, NEW sub, Ordered(t, ns, sub), NEW k \in ns,
           NEW q0, NEW only, OnlyChild(t, k, q0, only)
    PROVE  /\ only = None => sub[k] = {k}
           /\ only # None => /\ only \in ns /\ only # k /\ only \in Keys
                             /\ t.parent[only] = k /\ only # t.root
                             /\ sub[only] = sub[k] \ {k}
  <1> DEFINE o == Opposite(q0)
  <1>1. /\ q0 \in Sides /\ o \in Sides /\ ns \subseteq Keys /\ k \in Keys
        /\ k \in sub[k] /\ sub[k] \subseteq Keys /\ only = t.child[q0][k]
        /\ t.child[o][k] = None
    BY SidesTwo DEF OnlyChild, Ordered
  <1>2. Part(o, sub[k], k) = {}
    BY <1>1 DEF Ordered
  <1>3. sub[k] \ {k} = Part(q0, sub[k], k)
    <2>1. ASSUME NEW y \in sub[k], y # k PROVE Before(q0, y, k)
      <3>1. ~Before(o, y, k) /\ y \in Keys
        BY <2>1, <1>1, <1>2 DEF Part
      <3> QED
        BY <2>1, <3>1, <1>1, BeforeOrder
    <2>2. ~Before(q0, k, k)
      BY <1>1, BeforeOrder
    <2> QED
      BY <2>1, <2>2 DEF Part
  <1>4. only = None => sub[k] = {k}
    <2>1. only = None => Part(q0, sub[k], k) = {}
      BY <1>1 DEF Ordered
    <2> QED
      BY <2>1, <1>1, <1>3
  <1>5. only # None => /\ only \in ns /\ only # k /\ only \in Keys
                       /\ t.parent[only] = k /\ only # t.root
                       /\ sub[only] = sub[k] \ {k}
    BY <1>1, <1>3, ChildFacts
  <1> QED
    BY <1>4, <1>5

\* A search tree without a node that had one child or none is one.
LEMMA SplicedOrdered ==
    ASSUME NEW t, NEW ns, NEW sub, Ordered(t, ns, sub), NEW k \in ns,
           NEW q0, NEW only, OnlyChild(t, k, q0, only),
           NEW r, Spliced(t, r, k, only)
    PROVE  \E sub2 : Ordered(r, ns \ {k}, sub2)
  <1> DEFINE p == t.parent[k]
             side == SideOf(t, k, p)
             ms == ns \ {k}
             sub2 == [x \in Keys |-> sub[x] \ {k}]
  <1>1. /\ ns \subseteq Keys /\ t \in Trees /\ k # None /\ k \in Keys
        /\ sub \in [Keys -> SUBSET Keys]
        /\ \A x \in ns : x \in sub[x] /\ sub[x] \subseteq ns /\ x \in Keys /\ x # None
    BY NoneApart DEF Ordered
  <1>2. sub2 \in [Keys -> SUBSET Keys] /\ \A x \in Keys : sub2[x] = sub[x] \ {k}
    BY <1>1
  <1>3. /\ only = None => sub[k] = {k}
        /\ only # None => /\ only \in ns /\ only # k /\ only \in Keys
                          /\ t.parent[only] = k /\ only # t.root
                          /\ sub[only] = sub[k] \ {k}
    BY OnlySub
  <1>4. /\ p = None <=> k = t.root
        /\ p # k /\ p \in KeyOrNone
        /\ p # None => p \in ns /\ p \in Keys /\ side \in Sides /\ t.child[side][p] = k
        /\ \A q \in Sides, x \in ns : t.child[q][x] = k => x = p /\ q = side
    BY ParentFacts
  <1>5. /\ r \in Trees /\ r.root = (IF p = None THEN only ELSE t.root)
        /\ \A q \in Sides, x \in Keys :
              r.child[q][x] = IF x = k THEN None
                              ELSE IF x = p /\ q = side THEN only
                              ELSE t.child[q][x]
        /\ \A x \in Keys : r.parent[x] = IF x = k THEN None
                                         ELSE IF x = only THEN p ELSE t.parent[x]
        /\ \A x \in Keys : r.color[x] = IF x = k THEN None ELSE t.color[x]
    BY DEF Spliced
  <1> HIDE DEF p, side, sub2
  <1>6. IF r.root = None THEN ms = {}
        ELSE r.root \in ms /\ r.parent[r.root] = None /\ sub2[r.root] = ms
    <2>1. CASE p = None
      <3>1. sub[k] = ns
        BY <2>1, <1>1, <1>4 DEF Ordered
      <3>2. CASE only = None
        BY <2>1, <3>1, <3>2, <1>3, <1>5
      <3>3. CASE only # None
        <4>1. r.root = only /\ only \in ms /\ r.parent[only] = None
          BY <2>1, <3>3, <1>3, <1>5
        <4>2. sub2[only] = ms
          BY <3>1, <3>3, <1>2, <1>3
        <4> QED
          BY <3>3, <4>1, <4>2
      <3> QED
        BY <3>2, <3>3
    <2>2. CASE p # None
      <3>1. t.root # None /\ t.root \in ns /\ t.parent[t.root] = None /\ sub[t.root] = ns
        BY <1>1 DEF Ordered
      <3>2. t.root # k /\ r.root = t.root /\ t.root \in Keys
        BY <2>2, <3>1, <1>1, <1>4, <1>5
      <3>3. r.parent[t.root] = None
        BY <3>1, <3>2, <1>3, <1>5
      <3> QED
        BY <3>1, <3>2, <3>3, <1>2
    <2> QED
      BY <2>1, <2>2
  <1>7. \A x \in ms : x \in sub2[x] /\ sub2[x] \subseteq ms
    BY <1>1, <1>2
  <1>8. ASSUME NEW x \in ms, NEW q \in Sides
        PROVE  LET c == r.child[q][x]
               IN  IF c = None THEN Part(q, sub2[x], x) = {}
                   ELSE c \in ms /\ r.parent[c] = x /\ sub2[c] = Part(q, sub2[x], x)
    <2> DEFINE c == t.child[q][x]
    <2>1. x \in ns /\ x # k /\ x \in Keys /\ x # None
      BY <1>1
    <2>2. IF c = None THEN Part(q, sub[x], x) = {}
          ELSE c \in ns /\ t.parent[c] = x /\ sub[c] = Part(q, sub[x], x)
      BY <2>1 DEF Ordered
    <2>3. Part(q, sub2[x], x) = Part(q, sub[x], x) \ {k}
      BY <2>1, <1>2 DEF Part
    <2>4. CASE c = k
      <3>1. x = p /\ q = side
        BY <2>1, <2>4, <1>4
      <3>2. r.child[q][x] = only
        BY <2>1, <3>1, <1>5
      <3>3. Part(q, sub2[x], x) = sub[k] \ {k}
        BY <2>2, <2>3, <2>4, <1>1
      <3>4. CASE only = None
        BY <3>2, <3>3, <3>4, <1>3
      <3>5. CASE only # None
        <4>1. r.parent[only] = p
          BY <3>5, <1>3, <1>5
        <4>2. sub2[only] = sub[k] \ {k}
          BY <3>5, <1>2, <1>3
        <4> QED
          BY <3>1, <3>2, <3>3, <3>5, <4>1, <4>2, <1>3
      <3> QED
        BY <3>4, <3>5
    <2>5. CASE c # k
      <3>1. r.child[q][x] = c
        <4>1. ~(x = p /\ q = side)
          BY <2>1, <2>5, <1>4
        <4> QED
          BY <2>1, <4>1, <1>5
      <3>2. CASE c = None
        BY <2>2, <2>3, <3>1, <3>2
      <3>3. CASE c # None
        <4>1. c \in ms /\ c \in Keys /\ t.parent[c] = x /\ sub[c] = Part(q, sub[x], x)
          BY <2>2, <2>5, <3>3, <1>1
        <4>2. c # only
          BY <2>1, <4>1, <3>3, <1>3
        <4> HIDE DEF c
        <4>3. r.parent[c] = x /\ sub2[c] = sub[c] \ {k}
          BY <2>5, <4>1, <4>2, <1>2, <1>5
        <4> QED
          BY <2>3, <3>1, <3>3, <4>1, <4>3
      <3> QED
        BY <3>2, <3>3
    <2> QED
      BY <2>4, <2>5
  <1>9. ASSUME NEW x \in ms \ {r.root}
        PROVE  r.parent[x] \in ms /\ \E q \in Sides : r.child[q][r.parent[x]] = x
    <2>1. x \in ns /\ x # k /\ x \in Keys /\ x # None
      BY <1>1
    <2>2. CASE x = only
      <3>1. p # None /\ r.parent[x] = p
        BY <2>1, <2>2, <1>5, <1>9
      <3>2. r.child[side][p] = x
        BY <2>2, <3>1, <1>4, <1>5
      <3> QED
        BY <3>1, <3>2, <1>4
    <2>3. CASE x # only
      <3>1. x # t.root
        <4>1. ASSUME x = t.root PROVE FALSE
          <5>1. p # None
            BY <4>1, <2>1, <1>4
          <5> QED
            BY <4>1, <5>1, <1>5, <1>9
        <4> QED
          BY <4>1
      <3>2. t.parent[x] \in ns /\ \E q \in Sides : t.child[q][t.parent[x]] = x
        BY <2>1, <3>1 DEF Ordered
      <3>3. PICK q \in Sides : t.child[q][t.parent[x]] = x
        BY <3>2
      <3>4. t.parent[x] # k
        <4>1. ASSUME t.parent[x] = k PROVE FALSE
          <5>1. q = q0
            <6>1. t.child[Opposite(q0)][k] = None /\ q0 \in Sides
              BY DEF OnlyChild
            <6> QED
              BY <6>1, <4>1, <3>3, <2>1, SidesTwo
          <5> QED
            BY <4>1, <5>1, <3>3, <2>3 DEF OnlyChild
        <4> QED
          BY <4>1
      <3>5. r.parent[x] = t.parent[x] /\ t.parent[x] \in Keys /\ t.parent[x] \in ms
        BY <2>1, <2>3, <3>2, <3>4, <1>1, <1>5
      <3>6. ~(t.parent[x] = p /\ q = side)
        BY <2>1, <3>2, <3>3, <1>1, <1>4
      <3>7. r.child[q][t.parent[x]] = x
        BY <3>3, <3>4, <3>5, <3>6, <1>5
      <3> QED
        BY <3>5, <3>7
    <2> QED
      BY <2>2, <2>3
  <1>10. ASSUME NEW x \in Keys \ ms
         PROVE  /\ \A q \in Sides : r.child[q][x] = None
                /\ r.parent[x] = None /\ r.color[x] = None
    <2>1. CASE x = k
      BY <2>1, <1>1, <1>5
    <2>2. CASE x # k
      <3>1. x \notin ns /\ x # p /\ x # only
        BY <2>2, <1>3, <1>4, NoneApart
      <3>2. /\ \A q \in Sides : t.child[q][x] = None
            /\ t.parent[x] = None /\ t.color[x] = None
        BY <3>1 DEF Ordered
      <3> QED
        BY <2>2, <3>1, <3>2, <1>5
    <2> QED
      BY <2>1, <2>2
  <1>11. \A x \in ms : r.color[x] \in {RED, BLACK}
    <2>1. \A x \in ms : t.color[x] \in {RED, BLACK}
      BY DEF Ordered
    <2> QED
      BY <2>1, <1>1, <1>5
  <1>12. Ordered(r, ms, sub2)
    BY <1>1, <1>2, <1>5, <1>6, <1>7, <1>8, <1>9, <1>10, <1>11 DEF Ordered
  <1> QED
    BY <1>12

\* Where a black node was spliced out, its place is one black node short.
LEMMA SplicedColors ==
    ASSUME NEW t, NEW ns, NEW sub, Ordered(t, ns, sub),
           NEW h, Balanced(t, ns, h, "left", None), Clashes(t, ns) = {},
           NEW k \in ns, NEW q0, NEW only, OnlyChild(t, k, q0, only),
           NEW r, Spliced(t, r, k, only)
    PROVE  LET p == t.parent[k]
               ms == ns \ {k}
           IN  /\ t.color[k] = BLACK => Balanced(r, ms, h, SideOf(t, k, p), p)
               /\ t.color[k] = RED => Balanced(r, ms, h, "left", None)
               /\ \A x \in Clashes(r, ms) : t.color[k] = BLACK /\ x = only
  <1> DEFINE p == t.parent[k]
             side == SideOf(t, k, p)
             ms == ns \ {k}
  <1>1. /\ ns \subseteq Keys /\ t \in Trees /\ k # None /\ k \in Keys
        /\ \A x \in ns : x \in Keys /\ x # None
        /\ t.color[k] \in {RED, BLACK}
    BY NoneApart DEF Ordered
  <1>2. only # None => /\ only \in ns /\ only # k /\ only \in Keys
                       /\ t.parent[only] = k /\ only # t.root
    BY OnlySub
  <1>3. /\ p = None <=> k = t.root
        /\ p # k /\ p \in KeyOrNone
        /\ p # None => p \in ns /\ p \in Keys /\ side \in Sides /\ t.child[side][p] = k
        /\ \A q \in Sides, x \in ns : t.child[q][x] = k => x = p /\ q = side
    BY ParentFacts
  <1>4. /\ r.root = (IF p = None THEN only ELSE t.root)
        /\ \A q \in Sides, x \in Keys :
              r.child[q][x] = IF x = k THEN None
                              ELSE IF x = p /\ q = side THEN only
                              ELSE t.child[q][x]
        /\ \A x \in Keys : r.parent[x] = IF x = k THEN None
                                         ELSE IF x = only THEN p ELSE t.parent[x]
        /\ \A x \in Keys : r.color[x] = IF x = k THEN None ELSE t.color[x]
    BY DEF Spliced
  <1>5. /\ h \in [KeyOrNone -> Nat] /\ h[None] = 0
        /\ \A x \in ns, q \in Sides : h[x] = Height(t, h, "left", None, q, x) + Weight(t, x)
    BY DEF Balanced
  <1> HIDE DEF p, side
  <1>6. h[k] = h[only] + Weight(t, k) /\ h[only] \in Nat
    <2>1. q0 \in Sides /\ only = t.child[q0][k]
      BY DEF OnlyChild
    <2>2. h[k] = Height(t, h, "left", None, q0, k) + Weight(t, k) /\ h[only] \in Nat
      BY <1>5, <2>1, HeightTypes
    <2>3. Height(t, h, "left", None, q0, k) = h[only]
      BY <2>1, <2>2, <1>1 DEF Height
    <2> QED
      BY <2>2, <2>3
  <1>7. ASSUME NEW x \in ms, NEW q \in Sides
        PROVE  /\ ~(x = p /\ q = side) => h[x] = h[r.child[q][x]] + Weight(r, x)
               /\ x = p /\ q = side => h[x] = h[r.child[q][x]] + Weight(t, k) + Weight(r, x)
               /\ h[r.child[q][x]] \in Nat /\ Weight(r, x) \in {0, 1} /\ x # None
    <2> DEFINE c == t.child[q][x]
    <2>1. x \in ns /\ x # k /\ x \in Keys /\ x # None
      BY <1>1
    <2>2. Weight(r, x) = Weight(t, x) /\ Weight(r, x) \in {0, 1}
      BY <2>1, <1>4 DEF Weight
    <2>3. h[c] \in Nat /\ h[x] = h[c] + Weight(t, x)
      <3>1. h[c] \in Nat /\ h[x] = Height(t, h, "left", None, q, x) + Weight(t, x)
        BY <2>1, <1>5, HeightTypes
      <3>2. Height(t, h, "left", None, q, x) = h[c]
        BY <2>1, <3>1 DEF Height
      <3> QED
        BY <3>1, <3>2
    <2>4. CASE x = p /\ q = side
      <3>1. c = k /\ r.child[q][x] = only
        BY <2>1, <2>4, <1>3, <1>4
      <3>2. Weight(t, k) \in {0, 1}
        BY DEF Weight
      <3> HIDE DEF c
      <3> QED
        BY <2>1, <2>2, <2>3, <2>4, <3>1, <3>2, <1>6
    <2>5. CASE ~(x = p /\ q = side)
      <3>1. r.child[q][x] = c
        BY <2>1, <2>5, <1>4
      <3> QED
        BY <2>1, <2>2, <2>3, <2>5, <3>1
    <2> QED
      BY <2>4, <2>5
  <1>8. ASSUME t.color[k] = BLACK PROVE Balanced(r, ms, h, side, p)
    <2>1. Weight(t, k) = 1
      BY <1>8 DEF Weight
    <2>2. ASSUME NEW x \in ms, NEW q \in Sides
          PROVE  h[x] = Height(r, h, side, p, q, x) + Weight(r, x)
      <3>1. CASE x = p /\ q = side
        <4>1. Height(r, h, side, p, q, x) = h[r.child[q][x]] + 1
          BY <3>1 DEF Height
        <4> QED
          BY <2>1, <3>1, <4>1, <1>7
      <3>2. CASE ~(x = p /\ q = side)
        <4>1. Height(r, h, side, p, q, x) = h[r.child[q][x]]
          BY <3>2, <1>7 DEF Height
        <4> QED
          BY <3>2, <4>1, <1>7
      <3> QED
        BY <3>1, <3>2
    <2> QED
      BY <2>2, <1>5 DEF Balanced
  <1>9. ASSUME t.color[k] = RED PROVE Balanced(r, ms, h, "left", None)
    <2>1. Weight(t, k) = 0
      BY <1>9 DEF Weight, RED, BLACK
    <2>2. ASSUME NEW x \in ms, NEW q \in Sides
          PROVE  h[x] = Height(r, h, "left", None, q, x) + Weight(r, x)
      <3>1. Height(r, h, "left", None, q, x) = h[r.child[q][x]]
        BY <1>7 DEF Height
      <3>2. h[x] = h[r.child[q][x]] + Weight(r, x)
        BY <2>1, <1>7
      <3> QED
        BY <3>1, <3>2
    <2> QED
      BY <2>2, <1>5 DEF Balanced
  <1>10. ASSUME NEW x \in Clashes(r, ms) PROVE t.color[k] = BLACK /\ x = only
    <2>1. x \in ns /\ x # k /\ x \in Keys /\ x # None /\ t.color[x] = RED
          /\ (x = r.root \/ r.color[r.parent[x]] = RED)
      BY <1>1, <1>4 DEF Clashes
    <2>2. x # t.root /\ t.color[t.parent[x]] # RED
      BY <2>1, ClashIs
    <2>3. t.parent[x] \in ns /\ \E q \in Sides : t.child[q][t.parent[x]] = x
      BY <2>1, <2>2 DEF Ordered
    <2>4. x = only
      <3>1. SUFFICES ASSUME x # only PROVE FALSE
        OBVIOUS
      <3>2. t.parent[x] # k
        <4>1. ASSUME t.parent[x] = k PROVE FALSE
          <5>1. PICK q \in Sides : t.child[q][k] = x
            BY <2>3, <4>1
          <5> QED
            BY <5>1, <2>1, <3>1, SidesTwo DEF OnlyChild
        <4> QED
          BY <4>1
      <3>3. x # r.root /\ r.parent[x] = t.parent[x]
        BY <2>1, <2>2, <3>1, <1>4
      <3>4. r.color[t.parent[x]] = t.color[t.parent[x]]
        <4>1. t.parent[x] \in Keys
          BY <2>3, <1>1
        <4> QED
          BY <3>2, <4>1, <1>4
      <3> QED
        BY <2>1, <2>2, <3>3, <3>4
    <2>5. t.parent[x] = k
      BY <2>1, <2>4, <1>2
    <2> QED
      BY <2>2, <2>4, <2>5, <1>1
  <1> QED
    BY <1>8, <1>9, <1>10 DEF p, side

\* Where treemap_delete leaves the tree: as it should be but for the place
\* of the removed node, if that one was black.
Deleted(r, ms, gone) ==
    /\ \E sub2 : Ordered(r, ms, sub2)
    /\ \E h2 : Balanced(r, ms, h2, SideOf(r, gone.fix, gone.from),
                        IF gone.color = BLACK THEN gone.from ELSE None)
    /\ gone.color \in {RED, BLACK}
    /\ gone.fix # None => gone.fix \in ms /\ r.parent[gone.fix] = gone.from
    /\ gone.color = BLACK /\ gone.from # None =>
          /\ gone.from \in ms
          /\ r.child[SideOf(r, gone.fix, gone.from)][gone.from] = gone.fix
    /\ \A x \in Clashes(r, ms) : gone.color = BLACK /\ x = gone.fix

\* treemap_delete of a node with one child or none leaves what its fixup expects.
LEMMA SplicedDeleted ==
    ASSUME NEW t, NEW ns, NEW sub, Ordered(t, ns, sub),
           NEW h, Balanced(t, ns, h, "left", None), Clashes(t, ns) = {},
           NEW k \in ns, t.child["left"][k] = None \/ t.child["right"][k] = None
    PROVE  LET gone == Removed(t, k)
           IN  Deleted(Freed(gone.tree, k), ns \ {k}, gone)
  <1> DEFINE l == t.child["left"][k]
             only == IF l = None THEN t.child["right"][k] ELSE l
             q0 == IF l = None THEN "right" ELSE "left"
             p == t.parent[k]
             side == SideOf(t, k, p)
             gone == Removed(t, k)
             r == Freed(gone.tree, k)
             ms == ns \ {k}
  <1>1. /\ t \in Trees /\ k \in Keys /\ only \in KeyOrNone
        /\ t.color[k] \in {RED, BLACK} /\ ns \subseteq Keys
    <2>1. /\ t \in Trees /\ k \in Keys /\ t.color[k] \in {RED, BLACK} /\ ns \subseteq Keys
      BY DEF Ordered
    <2> QED
      BY <2>1, LinkTypes DEF Sides
  <1>2. OnlyChild(t, k, q0, only)
    BY DEF OnlyChild, Sides, Opposite
  <1>3. /\ gone.tree = Transplant(t, k, only) /\ gone.color = t.color[k]
        /\ gone.fix = only /\ gone.from = p
    BY DEF Removed
  <1> HIDE DEF only, q0, gone
  <1>4. Spliced(t, r, k, only)
    BY <1>1, <1>3, SplicedFields
  <1> HIDE DEF r
  <1>5. /\ t.color[k] = BLACK => Balanced(r, ms, h, side, p)
        /\ t.color[k] = RED => Balanced(r, ms, h, "left", None)
        /\ \A x \in Clashes(r, ms) : t.color[k] = BLACK /\ x = only
    <2>1. LET p1 == t.parent[k]
              ms1 == ns \ {k}
          IN  /\ t.color[k] = BLACK => Balanced(r, ms1, h, SideOf(t, k, p1), p1)
              /\ t.color[k] = RED => Balanced(r, ms1, h, "left", None)
              /\ \A x \in Clashes(r, ms1) : t.color[k] = BLACK /\ x = only
      <3>1. Ordered(t, ns, sub) /\ Balanced(t, ns, h, "left", None) /\ Clashes(t, ns) = {}
            /\ k \in ns
        OBVIOUS
      <3> QED
        BY ONLY <3>1, <1>2, <1>4, SplicedColors
    <2> QED
      BY <2>1
  <1>6. PICK sub2 : Ordered(r, ms, sub2)
    BY <1>2, <1>4, SplicedOrdered
  <1>7. /\ p # k
        /\ p # None => p \in ns /\ p \in Keys /\ side \in Sides
    BY ParentFacts
  <1>8. /\ only # None => /\ only \in ns /\ only # k /\ only \in Keys
    BY <1>2, OnlySub
  <1> HIDE DEF p, side
  <1>9. /\ \A q \in Sides, x \in Keys :
              r.child[q][x] = IF x = k THEN None
                              ELSE IF x = p /\ q = side THEN only
                              ELSE t.child[q][x]
        /\ \A x \in Keys : r.parent[x] = IF x = k THEN None
                                         ELSE IF x = only THEN p ELSE t.parent[x]
    BY <1>4 DEF Spliced, p, side
  <1>10. only # None => only \in ms /\ r.parent[only] = p
    BY <1>8, <1>9
  <1>11. ASSUME p # None, t.color[k] = BLACK
         PROVE  p \in ms /\ SideOf(r, only, p) = side /\ r.child[side][p] = only
    <2>1. r.child[side][p] = only /\ p \in ms
      BY <1>7, <1>9, <1>11
    <2>2. SideOf(r, r.child[side][p], p) = side
      BY <2>1, <1>5, <1>6, <1>7, <1>11, GapSide
    <2> QED
      BY <2>1, <2>2
  <1>12. \E h2 : Balanced(r, ms, h2, SideOf(r, only, p),
                          IF t.color[k] = BLACK THEN p ELSE None)
    <2>1. CASE t.color[k] = BLACK /\ p # None
      BY <2>1, <1>5, <1>11
    <2>2. None \notin ms
      BY <1>1, NoneApart
    <2>3. CASE t.color[k] = BLACK /\ p = None
      BY <2>2, <2>3, <1>5, NothingShort
    <2>4. CASE t.color[k] # BLACK
      BY <2>2, <2>4, <1>1, <1>5, NothingShort
    <2> QED
      BY <2>1, <2>3, <2>4
  <1>13. Deleted(r, ms, gone)
    BY <1>1, <1>3, <1>5, <1>6, <1>10, <1>11, <1>12 DEF Deleted
  <1> QED
    BY <1>13 DEF r, gone

-----------------------------------------------------------------------------
(* Deletion of a node with two children *)

\* The successor m of k, in the right subtree of k, moves up.
Successor(t, k, m) ==
    /\ t.child["left"][k] # None /\ t.child["right"][k] # None
    /\ m = Extreme(t, t.child["right"][k], "left")

\* The right subtree of k from its root down to m, by way of left children.
Spine(t, k) == Trail(Walk(t.child["right"][k], t.child["left"]))

\* The successor is the end of the left spine of the right subtree, and what
\* else lies on the spine is neither the node nor its parent.
LEMMA SuccessorFacts ==
    ASSUME NEW t, NEW ns, NEW sub, Ordered(t, ns, sub), NEW k \in ns,
           NEW m, Successor(t, k, m)
    PROVE  LET l == t.child["left"][k]
               r == t.child["right"][k]
               V == Spine(t, k)
               pm == t.parent[m]
           IN  /\ m \in ns /\ m \in Keys /\ m # k /\ m # l /\ m # None /\ m # t.parent[k]
               /\ m # t.root
               /\ t.child["left"][m] = None
               /\ l \in ns /\ l \in Keys /\ l # k /\ l # r /\ t.parent[l] = k
               /\ r \in ns /\ r \in Keys /\ r # k /\ t.parent[r] = k
               /\ V \subseteq ns /\ r \in V /\ m \in V /\ k \notin V /\ t.parent[k] \notin V
               /\ l \notin V
               /\ \A x \in V \ {r} : /\ t.parent[x] \in V /\ t.child["left"][t.parent[x]] = x
               /\ \A x \in V \ {m} : t.child["left"][x] # None /\ t.child["left"][x] \in V
               /\ \A x \in V : k \notin sub[x] /\ (x = m \/ m < x)
               /\ pm = k => m = r
               /\ pm # k => pm \in V /\ pm \in Keys /\ pm # m /\ t.child["left"][pm] = m
                            /\ m # r
               /\ \A y \in sub[k] : k < y => y = m \/ m < y
               /\ m \in sub[r] /\ k < m
  <1> DEFINE l == t.child["left"][k]
             r == t.child["right"][k]
             next == t.child["left"]
             V == Spine(t, k)
             pm == t.parent[m]
             p == t.parent[k]
  <1>1. /\ ns \subseteq Keys /\ t \in Trees /\ k # None /\ k \in Keys
        /\ \A x \in ns : x \in sub[x] /\ sub[x] \subseteq ns /\ x \in Keys /\ x # None
        /\ l # None /\ r # None /\ m = Extreme(t, r, "left")
        /\ "left" \in Sides /\ "right" \in Sides
        /\ Opposite("left") = "right" /\ Opposite("right") = "left"
    BY NoneApart DEF Ordered, Successor, Sides, Opposite
  <1>2. /\ l \in ns /\ l \in Keys /\ l # k /\ t.parent[l] = k /\ l # r
        /\ sub[l] = Part("left", sub[k], k)
    BY <1>1, ChildFacts
  <1>3. /\ r \in ns /\ r \in Keys /\ r # k /\ t.parent[r] = k /\ r # None
        /\ sub[r] = Part("right", sub[k], k) /\ k \notin sub[r] /\ sub[r] \subseteq sub[k]
    BY <1>1, ChildFacts
  <1> HIDE DEF l, r
  <1>4. /\ m \in ns /\ m \in sub[r] /\ m # None /\ next[m] = None
        /\ \A y \in sub[r] : y = m \/ Before("left", m, y)
    BY <1>1, <1>3, ExtremeIs
  <1>5. /\ r \in V /\ V \subseteq ns /\ m \in V
        /\ \A z \in V \ {r} : t.parent[z] \in V /\ next[t.parent[z]] = z
        /\ \A z \in V \ {m} : next[z] # None /\ next[z] \in V
        /\ \A z \in V : sub[z] \subseteq sub[r]
    <2> DEFINE w == Walk(r, next)
    <2>1. next \in [Keys -> KeyOrNone]
      BY <1>1, NextTypes
    <2>2. \A x \in ns : next[x] # None => \E q \in Sides : next[x] = t.child[q][x]
      BY <1>1
    <2>3. V = Trail(w) /\ m = Last(w)
      BY <1>1, <1>3 DEF Spine, Extreme, r
    <2> HIDE DEF next, w, V
    <2>4. LET w1 == Walk(r, next)
              V1 == Trail(w1)
              last == Last(w1)
          IN  /\ r \in V1 /\ V1 \subseteq ns
              /\ last \in V1 /\ next[last] = None
              /\ \A z \in V1 \ {r} : t.parent[z] \in V1 /\ next[t.parent[z]] = z
              /\ \A z \in V1 \ {last} : next[z] # None /\ next[z] \in V1
              /\ \A z \in V1 : sub[z] \subseteq sub[r]
              /\ w1[KeyCount] = None /\ KeyCount \in 0 .. KeyCount
      BY ONLY <1>3, <2>1, <2>2, DownTrail, Ordered(t, ns, sub)
    <2> QED
      BY <2>3, <2>4 DEF w
  <1> HIDE DEF V
  <1>6. \A y \in sub[k] : k < y => y = m \/ m < y
    BY <1>1, <1>3, <1>4 DEF Before, Part
  <1>7. \A x \in V : x \in sub[r] /\ k \notin sub[x] /\ (x = m \/ m < x)
    BY <1>1, <1>3, <1>4, <1>5 DEF Before
  <1>8. k \notin V /\ p \notin V /\ l \notin V /\ p # m /\ m # k /\ m # l
    <2>1. k \notin V
      BY <1>1, <1>7
    <2>2. p \notin V
      <3>1. CASE p = None
        BY <3>1, <1>1, <1>5
      <3>2. CASE p # None
        <4>1. p \in ns /\ SideOf(t, k, p) \in Sides /\ t.child[SideOf(t, k, p)][p] = k
          BY <3>2, ParentFacts
        <4>2. p \notin sub[k]
          BY <4>1, <1>1, ChildFacts
        <4> QED
          BY <4>2, <1>3, <1>7
      <3> QED
        BY <3>1, <3>2
    <2>3. l \notin V
      <3>1. Before("left", l, k) /\ ~Before("right", l, k)
        BY <1>1, <1>2, BeforeOrder DEF Part
      <3> QED
        BY <3>1, <1>3, <1>7 DEF Part
    <2> QED
      BY <2>1, <2>2, <2>3, <1>5
  <1>9. pm = k => m = r
    BY <1>5, <1>8
  <1>10. ASSUME pm # k
         PROVE  pm \in V /\ pm \in Keys /\ pm # m /\ next[pm] = m /\ m # r
    <2>1. m # r
      BY <1>3, <1>10
    <2>2. pm \in V /\ next[pm] = m
      BY <2>1, <1>5
    <2>3. pm # m
      BY <1>4, ParentFacts
    <2> QED
      BY <2>1, <2>2, <2>3, <1>1, <1>5
  <1>11. m # t.root
    <2>1. CASE pm = k
      BY <2>1, <1>1, <1>4, ParentFacts
    <2>2. CASE pm # k
      BY <2>2, <1>1, <1>4, <1>5, <1>10, ParentFacts
    <2> QED
      BY <2>1, <2>2
  <1>12. m \in Keys /\ k < m
    <2>1. m \in Keys
      BY <1>1, <1>4
    <2> QED
      BY <2>1, <1>3, <1>4 DEF Part, Before
  <1>13. /\ m \in ns /\ m \in Keys /\ m # k /\ m # l /\ m # None /\ m # p /\ m # t.root
         /\ t.child["left"][m] = None /\ m \in sub[r] /\ k < m
    BY <1>4, <1>8, <1>11, <1>12
  <1>14. /\ V \subseteq ns /\ r \in V /\ m \in V /\ k \notin V /\ p \notin V /\ l \notin V
         /\ \A x \in V \ {r} : /\ t.parent[x] \in V /\ t.child["left"][t.parent[x]] = x
         /\ \A x \in V \ {m} : t.child["left"][x] # None /\ t.child["left"][x] \in V
         /\ \A x \in V : k \notin sub[x] /\ (x = m \/ m < x)
    BY <1>5, <1>7, <1>8
  <1> HIDE DEF p, pm
  <1> QED
    BY <1>2, <1>3, <1>6, <1>9, <1>10, <1>13, <1>14 DEF l, r, V, p, pm

\* m takes the place and the color of k, and its right child that of m.
Lifted(t, u, k, m) ==
    LET l == t.child["left"][k]
        r == t.child["right"][k]
        fix == t.child["right"][m]
        p == t.parent[k]
        pm == t.parent[m]
    IN  /\ u \in Trees /\ u.root = (IF p = None THEN m ELSE t.root)
        /\ \A q \in Sides, x \in Keys :
              u.child[q][x] = IF x = k THEN None
                              ELSE IF x = m /\ q = "left" THEN l
                              ELSE IF x = m /\ q = "right" /\ pm # k THEN r
                              ELSE IF x = pm /\ q = "left" THEN fix
                              ELSE IF x = p /\ q = SideOf(t, k, p) THEN m
                              ELSE t.child[q][x]
        /\ \A x \in Keys :
              u.parent[x] = IF x = k THEN None
                            ELSE IF x = m THEN p
                            ELSE IF x = l \/ (x = r /\ pm # k) THEN m
                            ELSE IF x = fix /\ pm # k THEN pm
                            ELSE t.parent[x]
        /\ \A x \in Keys :
              u.color[x] = IF x = k THEN None ELSE IF x = m THEN t.color[k] ELSE t.color[x]

\* What treemap_delete writes for a node with two children: its successor takes
\* its place and color.
LEMMA LiftedFields ==
    ASSUME NEW t, NEW ns, NEW sub, Ordered(t, ns, sub), NEW k \in ns,
           NEW m, Successor(t, k, m)
    PROVE  Lifted(t, Freed(Removed(t, k).tree, k), k, m)
  <1> DEFINE l == t.child["left"][k]
             r == t.child["right"][k]
             fix == t.child["right"][m]
             p == t.parent[k]
             side == SideOf(t, k, p)
             pm == t.parent[m]
             t1 == Transplant(t, m, fix)
             t2 == IF pm = k THEN t ELSE Link(t1, m, "right", r)
             t3 == Transplant(t2, k, m)
             t4 == Link(t3, m, "left", l)
             t5 == Paint(t4, {m}, t.color[k])
             u == Freed(t5, k)
  <1>0. Removed(t, k).tree = t5
    BY DEF Removed, Successor
  <1>1. /\ t \in Trees /\ k \in Keys /\ k # None /\ "left" \in Sides /\ "right" \in Sides
        /\ t.color[k] \in {RED, BLACK}
        /\ Opposite("left") = "right" /\ Opposite("right") = "left"
    BY NoneApart DEF Ordered, Sides, Opposite
  <1>2. /\ m \in ns /\ m \in Keys /\ m # k /\ m # l /\ m # None /\ m # p /\ m # t.root
        /\ l \in Keys /\ l # k /\ l # r
        /\ r \in Keys /\ r # k /\ t.parent[r] = k
        /\ pm = k => m = r
        /\ pm # k => pm \in Keys /\ pm # m /\ t.child["left"][pm] = m /\ m # r /\ pm # p
                     /\ pm # None
    <2>1. pm # k => pm # p /\ pm # None
      BY SuccessorFacts, <1>1, NoneApart
    <2> QED
      BY <2>1, SuccessorFacts
  <1>3. fix \in KeyOrNone /\ fix # m /\ fix # k
        /\ (fix # None => t.parent[fix] = m /\ fix # l /\ fix # r)
    <2>1. fix \in KeyOrNone
      BY <1>1, <1>2, LinkTypes
    <2>2. ASSUME fix # None PROVE t.parent[fix] = m /\ fix # m
      BY <2>2, <1>1, <1>2, ChildFacts
    <2>3. fix # k
      BY <2>2, <1>1, <1>2
    <2>4. fix # None => fix # l /\ fix # r
      <3>1. t.parent[l] = k
        BY SuccessorFacts
      <3> QED
        BY <2>2, <3>1, <1>2
    <2> QED
      BY <2>1, <2>2, <2>3, <2>4, <1>2
  <1>4. p \in KeyOrNone /\ p # k /\ p \notin {m} /\ m \in KeyOrNone /\ l \in KeyOrNone
        /\ r \in KeyOrNone
    BY <1>1, <1>2, ParentFacts, NoneApart
  <1>5. pm # k => SideOf(t, m, pm) = "left"
    BY <1>2 DEF SideOf
  <1> HIDE DEF l, r, fix, p, side, pm, t1, t2, t3, t4, t5, u
  <1>6. /\ t2 \in Trees /\ t2.root = t.root /\ t2.color = t.color
        /\ \A q \in Sides, x \in Keys :
              t2.child[q][x] = IF pm # k /\ x = m /\ q = "right" THEN r
                               ELSE IF pm # k /\ x = pm /\ q = "left" THEN fix
                               ELSE t.child[q][x]
        /\ \A x \in Keys : t2.parent[x] = IF pm # k /\ x = r THEN m
                                          ELSE IF pm # k /\ x = fix THEN pm
                                          ELSE t.parent[x]
    <2>1. CASE pm = k
      BY <2>1, <1>1 DEF t2
    <2>2. CASE pm # k
      <3>1. /\ t1 \in Trees /\ t1.color = t.color
            /\ t1.root = (IF pm = None THEN fix ELSE t.root)
            /\ \A q \in Sides, x \in Keys :
                  t1.child[q][x] = IF x = pm /\ q = SideOf(t, m, pm) THEN fix
                                   ELSE t.child[q][x]
            /\ \A x \in Keys : t1.parent[x] = IF x = fix THEN pm ELSE t.parent[x]
        <4>1. t \in Trees /\ m \in Keys /\ fix \in KeyOrNone
          BY <1>1, <1>2, <1>3
        <4> QED
          BY ONLY <4>1, TransplantFields DEF t1, pm
      <3>2. t2 = Link(t1, m, "right", r)
        BY <2>2 DEF t2
      <3>3. /\ t2 \in Trees /\ t2.root = t1.root /\ t2.color = t1.color
            /\ \A q \in Sides, x \in Keys :
                  t2.child[q][x] = IF x = m /\ q = "right" THEN r ELSE t1.child[q][x]
            /\ \A x \in Keys : t2.parent[x] = IF x = r THEN m ELSE t1.parent[x]
        <4> DEFINE s == "right"
        <4>1. t1 \in Trees /\ m \in Keys /\ s \in Sides /\ r \in KeyOrNone
          BY <1>1, <1>2, <1>4, <3>1
        <4> HIDE DEF s
        <4>2. LET b == Link(t1, m, s, r)
              IN  /\ b \in Trees /\ b.root = t1.root /\ b.color = t1.color
                  /\ \A q \in Sides, x \in Keys :
                        b.child[q][x] = IF x = m /\ q = s THEN r ELSE t1.child[q][x]
                  /\ \A x \in Keys : b.parent[x] = IF x = r THEN m ELSE t1.parent[x]
          BY ONLY <4>1, LinkFields
        <4> QED
          BY <3>2, <4>2 DEF s
      <3> QED
        BY <2>2, <3>1, <3>3, <1>2, <1>5
    <2> QED
      BY <2>1, <2>2
  <1>7. t2.parent[k] = p /\ (p # None => SideOf(t2, k, p) = side)
    <2>1. t2.parent[k] = p
      BY <1>1, <1>2, <1>3, <1>6 DEF p
    <2>2. ASSUME p # None PROVE t2.child["left"][p] = t.child["left"][p]
      <3>1. p \in Keys
        BY <2>2, <1>4 DEF KeyOrNone
      <3> QED
        BY <3>1, <1>1, <1>2, <1>4, <1>6
    <2> QED
      BY <2>1, <2>2 DEF SideOf, side
  <1>8. /\ t3 \in Trees /\ t3.color = t.color
        /\ t3.root = (IF p = None THEN m ELSE t.root)
        /\ \A q \in Sides, x \in Keys :
              t3.child[q][x] = IF x = p /\ q = side THEN m ELSE t2.child[q][x]
        /\ \A x \in Keys : t3.parent[x] = IF x = m THEN p ELSE t2.parent[x]
    <2>1. /\ t3 \in Trees /\ t3.color = t2.color
          /\ t3.root = (IF t2.parent[k] = None THEN m ELSE t2.root)
          /\ \A q \in Sides, x \in Keys :
                t3.child[q][x] = IF x = t2.parent[k] /\ q = SideOf(t2, k, t2.parent[k]) THEN m
                                 ELSE t2.child[q][x]
          /\ \A x \in Keys : t3.parent[x] = IF x = m THEN t2.parent[k] ELSE t2.parent[x]
      BY <1>1, <1>4, <1>6, TransplantFields DEF t3
    <2>2. \A x \in Keys : x = p => p # None
      BY NoneApart
    <2> QED
      BY <2>1, <2>2, <1>6, <1>7
  <1>9. /\ t4 \in Trees /\ t4.root = t3.root /\ t4.color = t3.color
        /\ \A q \in Sides, x \in Keys :
              t4.child[q][x] = IF x = m /\ q = "left" THEN l ELSE t3.child[q][x]
        /\ \A x \in Keys : t4.parent[x] = IF x = l THEN m ELSE t3.parent[x]
    <2> DEFINE s == "left"
    <2>1. t3 \in Trees /\ m \in Keys /\ s \in Sides /\ l \in KeyOrNone
      BY <1>1, <1>2, <1>4, <1>8
    <2> HIDE DEF s
    <2>2. LET b == Link(t3, m, s, l)
          IN  /\ b \in Trees /\ b.root = t3.root /\ b.color = t3.color
              /\ \A q \in Sides, x \in Keys :
                    b.child[q][x] = IF x = m /\ q = s THEN l ELSE t3.child[q][x]
              /\ \A x \in Keys : b.parent[x] = IF x = l THEN m ELSE t3.parent[x]
      BY ONLY <2>1, LinkFields
    <2> QED
      BY <2>2 DEF t4, s
  <1>10. /\ t5 \in Trees /\ t5.root = t4.root /\ t5.parent = t4.parent
         /\ t5.child = t4.child
         /\ \A x \in Keys : t5.color[x] = IF x \in {m} THEN t.color[k] ELSE t4.color[x]
    BY <1>1, <1>9, PaintFields DEF t5
  <1>11. /\ u \in Trees /\ u.root = t5.root
         /\ \A q \in Sides, x \in Keys :
               u.child[q][x] = IF x = k THEN None ELSE t5.child[q][x]
         /\ \A x \in Keys : u.parent[x] = IF x = k THEN None ELSE t5.parent[x]
         /\ \A x \in Keys : u.color[x] = IF x = k THEN None ELSE t5.color[x]
    BY <1>1, <1>10, FreedFields DEF u
  <1>12. ASSUME NEW q \in Sides, NEW x \in Keys
         PROVE  u.child[q][x] = IF x = k THEN None
                                ELSE IF x = m /\ q = "left" THEN l
                                ELSE IF x = m /\ q = "right" /\ pm # k THEN r
                                ELSE IF x = pm /\ q = "left" THEN fix
                                ELSE IF x = p /\ q = side THEN m
                                ELSE t.child[q][x]
    <2>1. u.child[q][x] = IF x = k THEN None
                          ELSE IF x = m /\ q = "left" THEN l
                          ELSE IF x = p /\ q = side THEN m ELSE t2.child[q][x]
      BY <1>8, <1>9, <1>10, <1>11
    <2> QED
      BY <2>1, <1>2, <1>4, <1>6
  <1>13. ASSUME NEW x \in Keys
         PROVE  u.parent[x] = IF x = k THEN None
                              ELSE IF x = m THEN p
                              ELSE IF x = l \/ (x = r /\ pm # k) THEN m
                              ELSE IF x = fix /\ pm # k THEN pm
                              ELSE t.parent[x]
    <2>1. u.parent[x] = IF x = k THEN None ELSE IF x = l THEN m
                        ELSE IF x = m THEN p ELSE t2.parent[x]
      BY <1>8, <1>9, <1>10, <1>11
    <2> QED
      BY <2>1, <1>2, <1>6
  <1>14. ASSUME NEW x \in Keys
         PROVE  u.color[x] = IF x = k THEN None ELSE IF x = m THEN t.color[k] ELSE t.color[x]
    BY <1>8, <1>9, <1>10, <1>11
  <1>15. Lifted(t, u, k, m)
    BY <1>8, <1>9, <1>10, <1>11, <1>12, <1>13, <1>14 DEF Lifted, l, r, fix, p, side, pm
  <1> QED
    BY <1>0, <1>15 DEF u

\* A search tree with a node replaced by its successor is one.
LEMMA LiftedOrdered ==
    ASSUME NEW t, NEW ns, NEW sub, Ordered(t, ns, sub), NEW k \in ns,
           NEW m, Successor(t, k, m), NEW u, Lifted(t, u, k, m)
    PROVE  \E sub2 : Ordered(u, ns \ {k}, sub2)
  <1> DEFINE l == t.child["left"][k]
             r == t.child["right"][k]
             fix == t.child["right"][m]
             p == t.parent[k]
             side == SideOf(t, k, p)
             pm == t.parent[m]
             V == Spine(t, k)
             ms == ns \ {k}
             sub2 == [x \in Keys |-> IF x = m THEN sub[k] \ {k}
                                     ELSE IF x \in V THEN sub[x] \ {m} ELSE sub[x] \ {k}]
  <1>1. /\ ns \subseteq Keys /\ t \in Trees /\ k # None /\ k \in Keys
        /\ sub \in [Keys -> SUBSET Keys] /\ Keys \subseteq Int
        /\ \A x \in ns : x \in sub[x] /\ sub[x] \subseteq ns /\ x \in Keys /\ x # None
        /\ "left" \in Sides /\ "right" \in Sides
        /\ \A q \in Sides : q = "left" \/ q = "right"
    BY NoneApart, TreeMapAssumption DEF Ordered, Sides, TreeMapAssumption
  <1>2. /\ m \in ns /\ m \in Keys /\ m # k /\ m # l /\ m # None /\ m # p
        /\ m # t.root
        /\ t.child["left"][m] = None
        /\ l \in ns /\ l \in Keys /\ l # k /\ l # r /\ t.parent[l] = k
        /\ r \in ns /\ r \in Keys /\ r # k /\ t.parent[r] = k
        /\ V \subseteq ns /\ r \in V /\ m \in V /\ k \notin V /\ p \notin V
        /\ l \notin V
        /\ \A x \in V \ {r} : /\ t.parent[x] \in V /\ t.child["left"][t.parent[x]] = x
        /\ \A x \in V \ {m} : t.child["left"][x] # None /\ t.child["left"][x] \in V
        /\ \A x \in V : k \notin sub[x] /\ (x = m \/ m < x)
        /\ pm = k => m = r
        /\ pm # k => pm \in V /\ pm \in Keys /\ pm # m /\ t.child["left"][pm] = m /\ m # r
        /\ \A y \in sub[k] : k < y => y = m \/ m < y
        /\ m \in sub[r] /\ k < m
    BY SuccessorFacts
  <1>3. fix # None => /\ t.parent[fix] = m /\ fix \in ns /\ fix # m /\ fix # t.root
                      /\ sub[fix] = Part("right", sub[m], m)
    BY <1>1, <1>2, ChildFacts
  <1>4. /\ p = None <=> k = t.root
        /\ p # k /\ p \in KeyOrNone
        /\ p # None => p \in ns /\ p \in Keys /\ side \in Sides /\ t.child[side][p] = k
        /\ \A q \in Sides, x \in ns : t.child[q][x] = k => x = p /\ q = side
    BY ParentFacts
  <1>5. /\ u \in Trees /\ u.root = (IF p = None THEN m ELSE t.root)
        /\ \A q \in Sides, x \in Keys :
              u.child[q][x] = IF x = k THEN None
                              ELSE IF x = m /\ q = "left" THEN l
                              ELSE IF x = m /\ q = "right" /\ pm # k THEN r
                              ELSE IF x = pm /\ q = "left" THEN fix
                              ELSE IF x = p /\ q = side THEN m
                              ELSE t.child[q][x]
        /\ \A x \in Keys :
              u.parent[x] = IF x = k THEN None
                            ELSE IF x = m THEN p
                            ELSE IF x = l \/ (x = r /\ pm # k) THEN m
                            ELSE IF x = fix /\ pm # k THEN pm
                            ELSE t.parent[x]
        /\ \A x \in Keys :
              u.color[x] = IF x = k THEN None ELSE IF x = m THEN t.color[k] ELSE t.color[x]
    BY DEF Lifted
  <1>6. /\ sub2 \in [Keys -> SUBSET Keys] /\ sub2[m] = sub[k] \ {k}
        /\ \A x \in V : x # m => sub2[x] = sub[x] \ {m}
        /\ \A x \in Keys : x \notin V => sub2[x] = sub[x] \ {k}
    BY <1>1, <1>2
  <1> HIDE DEF sub2, V, l, r, fix, p, side, pm
  <1>7. /\ sub[l] = Part("left", sub[k], k) /\ sub[r] = Part("right", sub[k], k)
        /\ Part("left", sub[m], m) = {}
        /\ fix = None => Part("right", sub[m], m) = {}
    <2>1. t.child["left"][k] # None /\ t.child["right"][k] # None
      BY <1>1, <1>2 DEF l, r
    <2>2. t.child["left"][m] = None
      BY <1>2
    <2>3. \A x \in ns, q \in Sides :
             IF t.child[q][x] = None THEN Part(q, sub[x], x) = {}
             ELSE sub[t.child[q][x]] = Part(q, sub[x], x)
      BY DEF Ordered
    <2>4. sub[l] = Part("left", sub[k], k)
      BY <2>1, <2>3, <1>1 DEF l
    <2>5. sub[r] = Part("right", sub[k], k)
      BY <2>1, <2>3, <1>1 DEF r
    <2>6. Part("left", sub[m], m) = {}
      BY <2>2, <2>3, <1>1, <1>2
    <2>7. fix = None => Part("right", sub[m], m) = {}
      BY <2>3, <1>1, <1>2 DEF fix
    <2> QED
      BY <2>4, <2>5, <2>6, <2>7
  <1>8. /\ sub[l] = Part("left", sub[k] \ {k}, m) /\ k \notin sub[l]
        /\ sub[r] \ {m} = Part("right", sub[k] \ {k}, m) /\ k \notin sub[r]
        /\ m \in sub[k]
    <2>1. \A y \in sub[k] : y \in Int /\ (k < y => y = m \/ m < y)
      BY <1>1, <1>2
    <2>2. k \in Int /\ m \in Int /\ k < m
      BY <1>1, <1>2
    <2> QED
      BY <2>1, <2>2, <1>2, <1>7 DEF Part, Before
  <1>9. /\ fix = None => sub[m] = {m}
        /\ fix # None => sub[fix] = sub[m] \ {m} /\ fix \in ms /\ fix \in Keys
                         /\ fix \notin V /\ sub2[fix] = sub[fix] /\ fix # l /\ fix # r
    <2>1. sub[m] \ {m} = Part("right", sub[m], m)
      <3>1. ASSUME NEW y \in sub[m], y # m PROVE Before("right", y, m)
        <4>1. ~Before("left", y, m) /\ y \in Int /\ m \in Int
          BY <1>1, <1>2, <1>7 DEF Part
        <4> QED
          BY <3>1, <4>1 DEF Before
      <3>2. ~Before("right", m, m)
        BY <1>1, <1>2 DEF Before
      <3> QED
        BY <3>1, <3>2 DEF Part
    <2>2. ASSUME fix # None
          PROVE  sub[fix] = sub[m] \ {m} /\ fix \in ms /\ fix \in Keys
                 /\ fix \notin V /\ sub2[fix] = sub[fix] /\ fix # l /\ fix # r
      <3>1. sub[fix] = sub[m] \ {m} /\ fix \in ns /\ fix \in Keys
        BY <2>1, <2>2, <1>1, <1>3
      <3>2. fix # k /\ k \notin sub[fix]
        BY <3>1, <1>1, <1>2
      <3>3. fix # l /\ fix # r
        BY <2>2, <1>2, <1>3
      <3>4. fix \notin V
        <4>1. ASSUME fix \in V PROVE FALSE
          <5>1. t.child["left"][m] = fix
            BY <2>2, <4>1, <3>3, <1>2, <1>3
          <5> QED
            BY <5>1, <2>2, <1>2
        <4> QED
          BY <4>1
      <3> QED
        BY <3>1, <3>2, <3>3, <3>4, <1>6
    <2>3. fix = None => sub[m] = {m}
      BY <2>1, <1>1, <1>2, <1>7
    <2> QED
      BY <2>2, <2>3
  <1>10. \A x \in ms : x \in sub2[x] /\ sub2[x] \subseteq ms
    <2> SUFFICES ASSUME NEW x \in ms PROVE x \in sub2[x] /\ sub2[x] \subseteq ms
      OBVIOUS
    <2>1. CASE x = m
      BY <2>1, <1>1, <1>2, <1>6, <1>8
    <2>2. CASE x # m /\ x \in V
      BY <2>2, <1>1, <1>2, <1>6
    <2>3. CASE x \notin V
      BY <2>3, <1>1, <1>6
    <2> QED
      BY <2>1, <2>2, <2>3
  <1>11. IF u.root = None THEN ms = {}
         ELSE u.root \in ms /\ u.parent[u.root] = None /\ sub2[u.root] = ms
    <2>1. t.root # None /\ t.root \in ns /\ t.parent[t.root] = None /\ sub[t.root] = ns
      BY <1>1 DEF Ordered
    <2>2. CASE p = None
      <3>1. sub[k] = ns
        BY <2>1, <2>2, <1>4
      <3> QED
        BY <2>2, <3>1, <1>2, <1>5, <1>6
    <2>3. CASE p # None
      <3>1. t.root # k /\ u.root = t.root /\ t.root \in Keys
        BY <2>1, <2>3, <1>1, <1>4, <1>5
      <3>2. t.root # m /\ t.root # l /\ t.root # r /\ t.root # fix
        BY <2>1, <1>1, <1>2, <1>3
      <3>3. t.root \notin V
        <4>1. ASSUME t.root \in V PROVE FALSE
          <5>1. t.parent[t.root] \in V
            BY <4>1, <3>2, <1>2
          <5> QED
            BY <5>1, <2>1, <1>1, <1>2
        <4> QED
          BY <4>1
      <3>4. u.parent[t.root] = None
        BY <2>1, <3>1, <3>2, <1>5
      <3> QED
        BY <2>1, <3>1, <3>3, <3>4, <1>6
    <2> QED
      BY <2>2, <2>3
  <1>12. ASSUME NEW x \in ms, NEW q \in Sides
         PROVE  LET c == u.child[q][x]
                IN  IF c = None THEN Part(q, sub2[x], x) = {}
                    ELSE c \in ms /\ u.parent[c] = x /\ sub2[c] = Part(q, sub2[x], x)
    <2> DEFINE c == t.child[q][x]
    <2>1. x \in ns /\ x # k /\ x \in Keys /\ x # None
      BY <1>1
    <2>2. IF c = None THEN Part(q, sub[x], x) = {}
          ELSE c \in ns /\ t.parent[c] = x /\ sub[c] = Part(q, sub[x], x)
      BY <2>1 DEF Ordered
    <2>3. CASE x = m /\ q = "left"
      <3>1. u.child[q][x] = l /\ u.parent[l] = m /\ l \in ms
        BY <2>1, <2>3, <1>2, <1>5
      <3>2. sub2[l] = sub[l]
        <4>1. sub2[l] = sub[l] \ {k}
          BY <1>2, <1>6
        <4>2. k \notin sub[l]
          BY <1>8
        <4> QED
          BY <4>1, <4>2
      <3>3. Part(q, sub2[x], x) = sub[l]
        BY <2>3, <1>6, <1>8
      <3>4. l # None
        BY <1>1, <1>2
      <3> QED
        BY <2>3, <3>1, <3>2, <3>3, <3>4
    <2>4. CASE x = m /\ q = "right" /\ pm # k
      <3>1. u.child[q][x] = r /\ u.parent[r] = m /\ r \in ms /\ r # m
        BY <2>1, <2>4, <1>2, <1>5
      <3>2. sub2[r] = sub[r] \ {m} /\ Part(q, sub2[x], x) = sub[r] \ {m}
        BY <2>4, <3>1, <1>2, <1>6, <1>8
      <3> QED
        BY <2>4, <3>1, <3>2, <1>1, <1>2
    <2>5. CASE x = m /\ q = "right" /\ pm = k
      <3>1. u.child[q][x] = fix
        BY <2>1, <2>5, <1>2, <1>5 DEF fix
      <3>2. Part(q, sub2[x], x) = sub[m] \ {m}
        BY <2>5, <1>2, <1>6, <1>8
      <3>3. CASE fix = None
        BY <3>1, <3>2, <3>3, <1>9
      <3>4. CASE fix # None
        <4>1. u.parent[fix] = m
          BY <2>5, <3>4, <1>2, <1>3, <1>5, <1>9
        <4> QED
          BY <2>5, <3>1, <3>2, <3>4, <4>1, <1>9
      <3> QED
        BY <3>3, <3>4
    <2>6. CASE x # m /\ x \in V /\ q = "left"
      <3>0. Part(q, sub2[x], x) = Part(q, sub[x], x) \ {m}
        BY <2>6, <1>6 DEF Part
      <3>1. c # None /\ c \in V /\ t.parent[c] = x /\ sub[c] = Part(q, sub[x], x)
        BY <2>2, <2>6, <1>2
      <3>2. CASE c = m
        <4>1. x = pm /\ pm # k
          BY <2>1, <3>1, <3>2 DEF pm
        <4>2. u.child[q][x] = fix
          BY <2>1, <2>6, <4>1, <1>5
        <4>3. Part(q, sub2[x], x) = sub[m] \ {m}
          BY <3>0, <3>1, <3>2
        <4>4. CASE fix = None
          BY <4>2, <4>3, <4>4, <1>9
        <4>5. CASE fix # None
          <5>1. u.parent[fix] = pm
            BY <4>1, <4>5, <1>2, <1>3, <1>5, <1>9
          <5> QED
            BY <4>1, <4>2, <4>3, <4>5, <5>1, <1>9
        <4> QED
          BY <4>4, <4>5
      <3>3. CASE c # m
        <4>1. x # pm
          BY <2>6, <3>3, <1>2
        <4>2. x # p
          BY <2>6, <1>2
        <4>3. u.child[q][x] = c
          BY <2>1, <2>6, <4>1, <4>2, <1>5
        <4>4. c \in ns /\ c \in Keys /\ c # k /\ c # l /\ c # r /\ c # fix
          BY <2>1, <3>1, <2>6, <1>1, <1>2, <1>3
        <4> HIDE DEF c
        <4>5. u.parent[c] = x /\ sub2[c] = sub[c] \ {m}
          BY <3>1, <3>3, <4>4, <1>5, <1>6
        <4> QED
          BY <3>0, <3>1, <4>3, <4>4, <4>5
      <3> QED
        BY <3>2, <3>3
    <2>7. CASE x # m /\ ~(x \in V /\ q = "left")
      <3>1. ~(x = pm /\ q = "left")
        BY <2>1, <2>7, <1>2
      <3>2. Part(q, sub2[x], x) = Part(q, sub[x], x) \ {k}
        <4>1. CASE x \in V
          <5>1. q = "right" /\ m \in Int /\ x \in Int /\ m < x /\ k \notin sub[x]
            BY <2>7, <4>1, <1>1, <1>2
          <5>2. m \notin Part(q, sub[x], x)
            BY <5>1 DEF Part, Before
          <5>3. Part(q, sub2[x], x) = Part(q, sub[x], x) \ {m}
            BY <2>7, <4>1, <1>6 DEF Part
          <5>4. k \notin Part(q, sub[x], x)
            BY <5>1 DEF Part
          <5> QED
            BY <5>2, <5>3, <5>4
        <4>2. CASE x \notin V
          BY <2>1, <4>2, <1>6 DEF Part
        <4> QED
          BY <4>1, <4>2
      <3>3. CASE c = k
        <4>1. x = p /\ q = side
          BY <2>1, <3>3, <1>4
        <4>2. u.child[q][x] = m /\ u.parent[m] = p
          BY <2>1, <2>7, <3>1, <4>1, <1>2, <1>5
        <4>3. Part(q, sub2[x], x) = sub[k] \ {k}
          BY <2>2, <3>2, <3>3, <1>1
        <4> QED
          BY <4>1, <4>2, <4>3, <1>2, <1>6
      <3>4. CASE c # k
        <4>1. u.child[q][x] = c
          <5>1. ~(x = p /\ q = side)
            BY <2>1, <3>4, <1>4
          <5> QED
            BY <2>1, <2>7, <3>1, <5>1, <1>5
        <4>2. CASE c = None
          BY <2>2, <3>2, <4>1, <4>2
        <4>3. CASE c # None
          <5>1. c \in ns /\ c \in Keys /\ t.parent[c] = x /\ sub[c] = Part(q, sub[x], x)
            BY <2>2, <4>3, <1>1
          <5>2. c # l /\ c # r /\ c # fix
            BY <2>1, <2>7, <5>1, <4>3, <1>2, <1>3
          <5>3. c \notin V
            <6>1. ASSUME c \in V PROVE FALSE
              <7>1. x \in V /\ t.child["left"][x] = c
                BY <5>1, <5>2, <6>1, <1>2
              <7>2. q = "right"
                BY <7>1, <2>7, <1>1
              <7>3. Opposite("left") = "right"
                BY DEF Opposite
              <7> QED
                BY <7>1, <7>2, <7>3, <2>1, <4>3, <1>1, ChildFacts
            <6> QED
              BY <6>1
          <5>4. c # m
            BY <5>3, <1>2
          <5> HIDE DEF c
          <5>5. u.parent[c] = x /\ sub2[c] = sub[c] \ {k}
            BY <3>4, <5>1, <5>2, <5>3, <5>4, <1>5, <1>6
          <5> QED
            BY <3>2, <3>4, <4>1, <4>3, <5>1, <5>5
        <4> QED
          BY <4>2, <4>3
      <3> QED
        BY <3>3, <3>4
    <2> QED
      BY <2>3, <2>4, <2>5, <2>6, <2>7, <1>1
  <1>13. ASSUME NEW x \in ms \ {u.root}
         PROVE  u.parent[x] \in ms /\ \E q \in Sides : u.child[q][u.parent[x]] = x
    <2>1. x \in ns /\ x # k /\ x \in Keys /\ x # None
      BY <1>1
    <2>2. CASE x = m
      <3>1. p # None /\ u.parent[x] = p
        BY <2>1, <2>2, <1>5, <1>13
      <3>2. u.child[side][p] = m
        <4>1. p # pm
          BY <3>1, <1>2, <1>4
        <4> QED
          BY <3>1, <4>1, <1>2, <1>4, <1>5
      <3> QED
        BY <2>2, <3>1, <3>2, <1>4
    <2>3. CASE x = l
      <3>1. u.parent[x] = m
        BY <2>1, <2>3, <1>2, <1>5
      <3>2. u.child["left"][m] = l
        BY <1>1, <1>2, <1>5
      <3> QED
        BY <2>3, <3>1, <3>2, <1>1, <1>2
    <2>4. CASE x = r /\ pm # k
      <3>1. u.parent[x] = m
        BY <2>1, <2>4, <1>2, <1>5
      <3>2. u.child["right"][m] = r
        BY <2>4, <1>1, <1>2, <1>5
      <3> QED
        BY <2>4, <3>1, <3>2, <1>1, <1>2
    <2>5. CASE x = fix /\ pm # k
      <3>1. u.parent[x] = pm /\ x # l /\ x # r /\ x # m
        BY <2>1, <2>5, <1>3, <1>5, <1>9
      <3>2. u.child["left"][pm] = fix
        BY <2>5, <1>1, <1>2, <1>5
      <3> QED
        BY <2>5, <3>1, <3>2, <1>1, <1>2, <1>9
    <2>6. CASE x # m /\ x # l /\ ~(x = r /\ pm # k) /\ ~(x = fix /\ pm # k)
      <3>0. x # r
        BY <2>6, <1>2
      <3>1. x # t.root
        <4>1. ASSUME x = t.root PROVE FALSE
          <5>1. p # None
            BY <4>1, <2>1, <1>4
          <5> QED
            BY <4>1, <5>1, <1>5, <1>13
        <4> QED
          BY <4>1
      <3>2. t.parent[x] \in ns /\ \E q \in Sides : t.child[q][t.parent[x]] = x
        BY <2>1, <3>1 DEF Ordered
      <3>3. PICK q \in Sides : t.child[q][t.parent[x]] = x
        BY <3>2
      <3>4. t.parent[x] # k
        BY <2>6, <3>0, <3>3, <1>1 DEF l, r
      <3>5. u.parent[x] = t.parent[x] /\ t.parent[x] \in Keys /\ t.parent[x] \in ms
        BY <2>1, <2>6, <3>0, <3>2, <3>4, <1>1, <1>5
      <3>6. ~(t.parent[x] = p /\ q = side)
        BY <2>1, <3>2, <3>3, <1>1, <1>4
      <3>7. ~(t.parent[x] = m /\ q = "left")
        BY <2>1, <3>3, <1>2
      <3>8. ~(t.parent[x] = m /\ q = "right" /\ pm # k)
        BY <2>6, <3>3 DEF fix
      <3>9. ~(t.parent[x] = pm /\ q = "left")
        BY <2>6, <3>3, <3>4, <1>2
      <3>10. u.child[q][t.parent[x]] = x
        BY <3>3, <3>4, <3>5, <3>6, <3>7, <3>8, <3>9, <1>5
      <3> QED
        BY <3>5, <3>10
    <2> QED
      BY <2>2, <2>3, <2>4, <2>5, <2>6
  <1>14. ASSUME NEW x \in Keys \ ms
         PROVE  /\ \A q \in Sides : u.child[q][x] = None
                /\ u.parent[x] = None /\ u.color[x] = None
    <2>1. CASE x = k
      BY <2>1, <1>1, <1>5
    <2>2. CASE x # k
      <3>1. x \notin ns /\ x # p /\ x # m /\ x # l /\ x # r /\ x # fix /\ x # pm
        BY <2>2, <1>2, <1>3, <1>4, NoneApart
      <3>2. /\ \A q \in Sides : t.child[q][x] = None
            /\ t.parent[x] = None /\ t.color[x] = None
        BY <3>1 DEF Ordered
      <3> QED
        BY <2>2, <3>1, <3>2, <1>5
    <2> QED
      BY <2>1, <2>2
  <1>15. \A x \in ms : u.color[x] \in {RED, BLACK}
    <2>1. \A x \in ns : t.color[x] \in {RED, BLACK}
      BY DEF Ordered
    <2> QED
      BY <2>1, <1>1, <1>5
  <1>16. Ordered(u, ms, sub2)
    BY <1>1, <1>5, <1>6, <1>10, <1>11, <1>12, <1>13, <1>14, <1>15 DEF Ordered
  <1> QED
    BY <1>16

\* The places around the successor m of k after it moved.
LEMMA LiftedPlaces ==
    ASSUME NEW t, NEW ns, NEW sub, Ordered(t, ns, sub), NEW k \in ns,
           NEW m, Successor(t, k, m), NEW u, Lifted(t, u, k, m)
    PROVE  LET fix == t.child["right"][m]
               pm == t.parent[m]
               from == IF pm = k THEN m ELSE pm
               gap == IF pm = k THEN "right" ELSE "left"
           IN  /\ fix # None => /\ fix \in ns \ {k} /\ fix # m /\ t.parent[fix] = m
                                /\ fix # t.child["left"][k] /\ fix # t.child["right"][k]
                                /\ fix # t.root /\ u.parent[fix] = from
               /\ from \in ns \ {k} /\ from # None /\ u.child[gap][from] = fix
               /\ \A q \in Sides, x \in ns : t.child[q][x] = m =>
                     x = pm /\ (pm # k => q = "left")
  <1> DEFINE fix == t.child["right"][m]
             pm == t.parent[m]
             p == t.parent[k]
             l == t.child["left"][k]
             r == t.child["right"][k]
             from == IF pm = k THEN m ELSE pm
             gap == IF pm = k THEN "right" ELSE "left"
  <1>1. /\ ns \subseteq Keys /\ k # None /\ k \in Keys
        /\ \A x \in ns : x \in sub[x] /\ x \in Keys /\ x # None
        /\ "left" \in Sides /\ "right" \in Sides
    BY NoneApart DEF Ordered, Sides
  <1>2. /\ m \in ns /\ m \in Keys /\ m # k /\ m # l /\ m # p
        /\ t.parent[l] = k /\ t.parent[r] = k /\ k \notin sub[m]
        /\ pm # k => pm \in ns /\ pm \in Keys /\ pm # m /\ t.child["left"][pm] = m
    BY SuccessorFacts
  <1>3. fix # None => /\ fix \in ns /\ fix # m /\ t.parent[fix] = m /\ fix # t.root
                      /\ sub[fix] \subseteq sub[m]
    BY <1>1, <1>2, ChildFacts
  <1>4. /\ \A q \in Sides, x \in Keys :
              u.child[q][x] = IF x = k THEN None
                              ELSE IF x = m /\ q = "left" THEN l
                              ELSE IF x = m /\ q = "right" /\ pm # k THEN r
                              ELSE IF x = pm /\ q = "left" THEN fix
                              ELSE IF x = p /\ q = SideOf(t, k, p) THEN m
                              ELSE t.child[q][x]
        /\ \A x \in Keys :
              u.parent[x] = IF x = k THEN None
                            ELSE IF x = m THEN p
                            ELSE IF x = l \/ (x = r /\ pm # k) THEN m
                            ELSE IF x = fix /\ pm # k THEN pm
                            ELSE t.parent[x]
    BY DEF Lifted
  <1>5. \A q \in Sides, x \in ns : t.child[q][x] = m => x = pm /\ q = SideOf(t, m, pm)
    BY <1>2, ParentFacts
  <1>6. pm # k => SideOf(t, m, pm) = "left"
    BY <1>2 DEF SideOf
  <1> HIDE DEF l, r, pm, p
  <1>7. ASSUME fix # None
        PROVE  /\ fix \in ns \ {k} /\ fix # l /\ fix # r /\ u.parent[fix] = from
    <2>1. fix # k /\ fix # l /\ fix # r /\ fix \in Keys
      BY <1>1, <1>2, <1>3, <1>7
    <2> HIDE DEF fix
    <2> QED
      BY <2>1, <1>3, <1>4, <1>7
  <1>8. from \in ns \ {k} /\ from # None
    BY <1>1, <1>2
  <1>9. u.child[gap][from] = fix
    <2>1. CASE pm = k
      BY <2>1, <1>1, <1>2, <1>4
    <2>2. CASE pm # k
      BY <2>2, <1>1, <1>2, <1>4
    <2> QED
      BY <2>1, <2>2
  <1> HIDE DEF fix, from, gap
  <1> QED
    BY <1>3, <1>5, <1>6, <1>7, <1>8, <1>9 DEF l, r, pm, fix, from, gap

\* Where a black successor was, its place is one black node short.
LEMMA LiftedBalanced ==
    ASSUME NEW t, NEW ns, NEW sub, Ordered(t, ns, sub),
           NEW h, Balanced(t, ns, h, "left", None),
           NEW k \in ns, NEW m, Successor(t, k, m), NEW u, Lifted(t, u, k, m)
    PROVE  LET pm == t.parent[m]
               gap == IF pm = k THEN "right" ELSE "left"
               from == IF pm = k THEN m ELSE pm
           IN  \E h2 : Balanced(u, ns \ {k}, h2, gap,
                                IF t.color[m] = BLACK THEN from ELSE None)
  <1> DEFINE fix == t.child["right"][m]
             pm == t.parent[m]
             p == t.parent[k]
             l == t.child["left"][k]
             r == t.child["right"][k]
             from == IF pm = k THEN m ELSE pm
             gap == IF pm = k THEN "right" ELSE "left"
             ga == IF t.color[m] = BLACK THEN from ELSE None
             ms == ns \ {k}
             h2 == [x \in KeyOrNone |-> IF x = m THEN h[k] ELSE h[x]]
  <1>1. /\ ns \subseteq Keys /\ k # None /\ k \in Keys
        /\ \A x \in ns : x \in Keys /\ x # None
        /\ "left" \in Sides /\ "right" \in Sides
        /\ \A q \in Sides : q = "left" \/ q = "right"
        /\ Keys \subseteq KeyOrNone /\ None \in KeyOrNone
    BY NoneApart DEF Ordered, Sides
  <1>2. /\ m \in ns /\ m \in Keys /\ m # k /\ m # None /\ m # p /\ m # l
        /\ t.child["left"][m] = None
        /\ p = None \/ p # pm
        /\ pm = k => m = r
        /\ pm # k => pm \in ns /\ pm \in Keys /\ pm # m /\ m # r
                     /\ t.child["left"][pm] = m
    <2>1. p # k
      BY ParentFacts
    <2> HIDE DEF p
    <2>2. p = None \/ p # pm
      BY <2>1, SuccessorFacts DEF p
    <2> QED
      BY <2>2, SuccessorFacts DEF p
  <1>3. /\ fix # None => fix # m
        /\ \A q \in Sides, x \in ns : t.child[q][x] = m => x = pm /\ (pm # k => q = "left")
        /\ from # None /\ from \in ms
    BY LiftedPlaces
  <1>4. /\ \A q \in Sides, x \in Keys :
              u.child[q][x] = IF x = k THEN None
                              ELSE IF x = m /\ q = "left" THEN l
                              ELSE IF x = m /\ q = "right" /\ pm # k THEN r
                              ELSE IF x = pm /\ q = "left" THEN fix
                              ELSE IF x = p /\ q = SideOf(t, k, p) THEN m
                              ELSE t.child[q][x]
        /\ \A x \in Keys :
              u.color[x] = IF x = k THEN None ELSE IF x = m THEN t.color[k] ELSE t.color[x]
    BY DEF Lifted
  <1>5. /\ \A q \in Sides, x \in ns : t.child[q][x] = k => x = p /\ q = SideOf(t, k, p)
        /\ p # k /\ (p # None => p \in ns /\ t.child[SideOf(t, k, p)][p] = k)
    BY ParentFacts
  <1>6. h \in [KeyOrNone -> Nat] /\ h[None] = 0 /\ h[k] \in Nat
    BY <1>1 DEF Balanced
  <1>7. ASSUME NEW x \in ns, NEW q \in Sides
        PROVE  /\ h[x] = h[t.child[q][x]] + Weight(t, x)
               /\ h[t.child[q][x]] \in Nat /\ h[x] \in Nat
               /\ t.child[q][x] \in KeyOrNone
    <2>1. h[x] = Height(t, h, "left", None, q, x) + Weight(t, x)
      BY DEF Balanced
    <2>2. t.child[q][x] \in KeyOrNone /\ h[t.child[q][x]] \in Nat /\ h[x] \in Nat
      BY HeightTypes
    <2>3. Height(t, h, "left", None, q, x) = h[t.child[q][x]]
      BY <2>2, <1>1 DEF Height
    <2> QED
      BY <2>1, <2>2, <2>3
  <1>8. /\ h2 \in [KeyOrNone -> Nat] /\ h2[None] = 0 /\ h2[m] = h[k]
        /\ \A x \in KeyOrNone : x # m => h2[x] = h[x]
    BY <1>1, <1>2, <1>6
  <1>9. /\ h[k] = h[l] + Weight(t, k) /\ h[k] = h[r] + Weight(t, k)
        /\ h[m] = h[fix] + Weight(t, m)
        /\ l \in KeyOrNone /\ r \in KeyOrNone /\ fix \in KeyOrNone
        /\ h[l] \in Nat /\ h[r] \in Nat /\ h[fix] \in Nat /\ h[m] \in Nat
    BY <1>1, <1>2, <1>7
  <1>10. /\ Weight(u, m) = Weight(t, k)
         /\ \A x \in ms : x # m => Weight(u, x) = Weight(t, x)
         /\ \A x : Weight(t, x) \in {0, 1}
    BY <1>1, <1>2, <1>4 DEF Weight
  <1> HIDE DEF h2, l, r, fix, p, pm, from, gap
  <1>11. ASSUME NEW x \in ms, NEW q \in Sides
         PROVE  h2[x] = h2[u.child[q][x]] + Weight(u, x)
                          + (IF x = from /\ q = gap THEN Weight(t, m) ELSE 0)
    <2>0. x \in ns /\ x # k /\ x \in Keys /\ x # None
      BY <1>1
    <2>1. CASE x = m /\ q = "left"
      <3>1. u.child[q][x] = l /\ ~(x = from /\ q = gap)
        BY <2>0, <2>1, <1>2, <1>4 DEF from, gap
      <3>2. h2[l] = h[l] /\ h2[x] = h[k] /\ Weight(u, x) = Weight(t, k)
        BY <2>1, <1>2, <1>8, <1>9, <1>10
      <3> QED
        BY <3>1, <3>2, <1>9, <1>10
    <2>2. CASE x = m /\ q = "right" /\ pm # k
      <3>1. u.child[q][x] = r /\ ~(x = from /\ q = gap)
        BY <2>0, <2>2, <1>2, <1>4 DEF from, gap
      <3>2. h2[r] = h[r] /\ h2[x] = h[k] /\ Weight(u, x) = Weight(t, k)
        BY <2>2, <1>2, <1>8, <1>9, <1>10
      <3> QED
        BY <3>1, <3>2, <1>9, <1>10
    <2>3. CASE x = m /\ q = "right" /\ pm = k
      <3>1. u.child[q][x] = fix /\ x = from /\ q = gap
        <4>1. t.child[q][x] = fix
          BY <2>3 DEF fix
        <4>2. x # pm /\ x # p
          BY <2>3, <1>2
        <4> QED
          BY <2>0, <2>3, <4>1, <4>2, <1>4 DEF from, gap
      <3>2. h2[fix] = h[fix] /\ h2[x] = h[k] /\ Weight(u, x) = Weight(t, k)
        BY <2>3, <1>2, <1>3, <1>8, <1>9, <1>10
      <3>3. h[k] = h[m] + Weight(t, k)
        BY <2>3, <1>2, <1>9
      <3> QED
        BY <3>1, <3>2, <3>3, <1>9, <1>10
    <2>4. CASE x = pm /\ q = "left" /\ x # m
      <3>1. u.child[q][x] = fix /\ x = from /\ q = gap /\ pm # k
        BY <2>0, <2>4, <1>4 DEF from, gap
      <3>2. h2[fix] = h[fix] /\ h2[x] = h[x] /\ Weight(u, x) = Weight(t, x)
        BY <2>0, <2>4, <1>1, <1>2, <1>3, <1>8, <1>9, <1>10
      <3>3. h[x] = h[m] + Weight(t, x) /\ h[x] \in Nat
        BY <2>0, <2>4, <3>1, <1>2, <1>7
      <3> QED
        BY <3>1, <3>2, <3>3, <1>9, <1>10
    <2>5. CASE x = p /\ q = SideOf(t, k, p) /\ x # m /\ ~(x = pm /\ q = "left")
      <3>1. u.child[q][x] = m /\ t.child[q][x] = k
        BY <2>0, <2>5, <1>4, <1>5
      <3>2. h2[x] = h[x] /\ Weight(u, x) = Weight(t, x)
        BY <2>0, <2>5, <1>1, <1>8, <1>10
      <3>3. ~(x = from /\ q = gap)
        BY <2>0, <2>5, <1>2 DEF from, gap
      <3>4. h[x] = h[k] + Weight(t, x)
        BY <2>0, <3>1, <1>7
      <3> QED
        BY <3>1, <3>2, <3>3, <3>4, <1>6, <1>8, <1>10
    <2>6. CASE x # m /\ ~(x = pm /\ q = "left") /\ ~(x = p /\ q = SideOf(t, k, p))
      <3>1. u.child[q][x] = t.child[q][x]
        BY <2>0, <2>6, <1>4
      <3>2. t.child[q][x] # m
        BY <2>0, <2>6, <1>3
      <3>3. h2[x] = h[x] /\ h2[t.child[q][x]] = h[t.child[q][x]]
        BY <2>0, <2>6, <3>2, <1>1, <1>7, <1>8
      <3>4. ~(x = from /\ q = gap)
        BY <2>0, <2>6 DEF from, gap
      <3>5. h[x] = h[t.child[q][x]] + Weight(t, x) /\ h[t.child[q][x]] \in Nat
        BY <2>0, <1>7
      <3>6. Weight(u, x) = Weight(t, x) /\ Weight(t, x) \in {0, 1}
        BY <2>6, <1>10
      <3> QED
        BY <3>1, <3>3, <3>4, <3>5, <3>6
    <2> QED
      BY <2>1, <2>2, <2>3, <2>4, <2>5, <2>6, <1>1
  <1>12. ASSUME NEW x \in ms, NEW q \in Sides
         PROVE  h2[x] = Height(u, h2, gap, ga, q, x) + Weight(u, x)
    <2>1. h2[x] \in Nat /\ Weight(u, x) \in {0, 1} /\ h2[u.child[q][x]] \in Nat
      <3>1. x \in ns /\ x # k /\ x \in Keys /\ x # None
        BY <1>1
      <3>2. u.child[q][x] \in KeyOrNone
        BY <3>1, <1>1, <1>2, <1>4, <1>7, <1>9
      <3> QED
        BY <3>1, <3>2, <1>1, <1>8 DEF Weight
    <2>2. (IF x = from /\ q = gap THEN Weight(t, m) ELSE 0)
             = (IF q = gap /\ x = ga THEN 1 ELSE 0)
      BY <1>1, <1>3 DEF Weight
    <2>3. Height(u, h2, gap, ga, q, x)
             = h2[u.child[q][x]] + (IF q = gap /\ x = ga THEN 1 ELSE 0)
      BY DEF Height
    <2>4. (IF q = gap /\ x = ga THEN 1 ELSE 0) \in {0, 1}
      OBVIOUS
    <2> QED
      BY <2>1, <2>2, <2>3, <2>4, <1>11
  <1>13. Balanced(u, ms, h2, gap, ga)
    BY <1>8, <1>12 DEF Balanced
  <1> QED
    BY <1>13 DEF gap, from, pm

\* Only the child of a black successor can clash.
LEMMA LiftedClashes ==
    ASSUME NEW t, NEW ns, NEW sub, Ordered(t, ns, sub), Clashes(t, ns) = {},
           NEW k \in ns, NEW m, Successor(t, k, m), NEW u, Lifted(t, u, k, m),
           NEW x \in Clashes(u, ns \ {k})
    PROVE  t.color[m] = BLACK /\ x = t.child["right"][m]
  <1> DEFINE fix == t.child["right"][m]
             pm == t.parent[m]
             p == t.parent[k]
             l == t.child["left"][k]
             r == t.child["right"][k]
             ms == ns \ {k}
  <1>1. /\ ns \subseteq Keys /\ k # None /\ k \in Keys
        /\ \A y \in ns : y \in Keys /\ y # None /\ t.color[y] \in {RED, BLACK}
        /\ \A q \in Sides : q = "left" \/ q = "right"
    BY NoneApart DEF Ordered, Sides
  <1>2. /\ m \in ns /\ m \in Keys /\ m # k /\ m # None /\ m # p /\ m # t.root
        /\ t.child["left"][m] = None
        /\ l \in ns /\ r \in ns /\ t.parent[l] = k /\ t.parent[r] = k
        /\ pm = k => m = r
    BY SuccessorFacts
  <1>3. fix # None => fix \in ns /\ t.parent[fix] = m
    BY LiftedPlaces
  <1>4. /\ u.root = (IF p = None THEN m ELSE t.root)
        /\ \A y \in Keys :
              u.parent[y] = IF y = k THEN None
                            ELSE IF y = m THEN p
                            ELSE IF y = l \/ (y = r /\ pm # k) THEN m
                            ELSE IF y = fix /\ pm # k THEN pm
                            ELSE t.parent[y]
        /\ \A y \in Keys :
              u.color[y] = IF y = k THEN None ELSE IF y = m THEN t.color[k] ELSE t.color[y]
    BY DEF Lifted
  <1>5. /\ p = None <=> k = t.root
        /\ p # k
        /\ p # None => p \in ns
    BY ParentFacts
  <1> HIDE DEF l, r, fix, p, pm
  <1>6. \A y \in ns : t.color[y] = RED =>
           y # t.root /\ t.parent[y] \in ns /\ t.color[t.parent[y]] = BLACK
    <2> SUFFICES ASSUME NEW y \in ns, t.color[y] = RED
                 PROVE  y # t.root /\ t.parent[y] \in ns /\ t.color[t.parent[y]] = BLACK
      OBVIOUS
    <2>1. y # t.root /\ t.color[t.parent[y]] # RED
      BY ClashIs
    <2>2. t.parent[y] \in ns
      BY <2>1 DEF Ordered
    <2> QED
      BY <2>1, <2>2, <1>1
  <1>7. x \in ns /\ x # k /\ x \in Keys /\ u.color[x] = RED
        /\ (x = u.root \/ u.color[u.parent[x]] = RED)
    BY <1>1 DEF Clashes
  <1>8. RED # BLACK /\ (u.root = m \/ u.root = t.root)
    BY <1>4 DEF RED, BLACK
  <1>9. x # m
    <2>1. SUFFICES ASSUME x = m PROVE FALSE
      OBVIOUS
    <2>2. t.color[k] = RED
      BY <2>1, <1>4, <1>7
    <2>3. p \in ns /\ t.color[p] = BLACK /\ k # t.root
      BY <2>2, <1>6 DEF p
    <2>4. u.parent[x] = p /\ u.root # m
      BY <2>1, <2>3, <1>2, <1>4, <1>5, <1>1
    <2>5. u.color[p] = BLACK
      BY <2>3, <1>1, <1>2, <1>4, <1>5
    <2> QED
      BY <2>1, <2>4, <2>5, <1>7, <1>8
  <1>10. t.color[x] = RED /\ x # u.root /\ u.color[u.parent[x]] = RED
         /\ t.parent[x] \in ns /\ t.color[t.parent[x]] = BLACK /\ x # t.root
    <2>1. t.color[x] = RED
      BY <1>4, <1>7, <1>9
    <2> QED
      BY <2>1, <1>6, <1>7, <1>8, <1>9
  <1>11. ~(x = l \/ (x = r /\ pm # k))
    <2>1. SUFFICES ASSUME x = l \/ (x = r /\ pm # k) PROVE FALSE
      OBVIOUS
    <2>2. u.parent[x] = m
      BY <2>1, <1>4, <1>7, <1>9
    <2>3. t.parent[x] = k
      BY <2>1, <1>2
    <2> QED
      BY <2>2, <2>3, <1>2, <1>4, <1>8, <1>10
  <1>12. x = fix
    <2>1. SUFFICES ASSUME x # fix PROVE FALSE
      OBVIOUS
    <2>2. u.parent[x] = t.parent[x]
      BY <2>1, <1>4, <1>7, <1>9, <1>11
    <2>3. t.parent[x] # m
      <3>1. ASSUME t.parent[x] = m PROVE FALSE
        <4>1. PICK q \in Sides : t.child[q][m] = x
          BY <3>1, <1>7, <1>10 DEF Ordered
        <4> QED
          BY <4>1, <2>1, <1>1, <1>2, <1>7 DEF fix
      <3> QED
        BY <3>1
    <2>4. t.parent[x] \in Keys /\ (u.color[t.parent[x]] = None
                                   \/ u.color[t.parent[x]] = t.color[t.parent[x]])
      BY <2>3, <1>1, <1>4, <1>10
    <2>5. t.parent[x] # k
      <3>1. ASSUME t.parent[x] = k PROVE FALSE
        <4>1. PICK q \in Sides : t.child[q][k] = x
          BY <3>1, <1>7, <1>10 DEF Ordered
        <4>2. x = l \/ x = r
          BY <4>1, <1>1 DEF l, r
        <4> QED
          BY <4>2, <1>2, <1>9, <1>11
      <3> QED
        BY <3>1
    <2> QED
      BY <2>2, <2>3, <2>4, <2>5, <1>4, <1>8, <1>10
  <1>13. t.color[m] = BLACK
    <2>1. t.parent[x] = m
      BY <1>3, <1>7, <1>12, <1>1
    <2> QED
      BY <2>1, <1>10
  <1> QED
    BY <1>12, <1>13 DEF fix

\* treemap_delete of a node with two children leaves what its fixup expects.
LEMMA LiftedDeleted ==
    ASSUME NEW t, NEW ns, NEW sub, Ordered(t, ns, sub),
           NEW h, Balanced(t, ns, h, "left", None), Clashes(t, ns) = {},
           NEW k \in ns, t.child["left"][k] # None, t.child["right"][k] # None
    PROVE  LET gone == Removed(t, k)
           IN  Deleted(Freed(gone.tree, k), ns \ {k}, gone)
  <1> DEFINE m == Extreme(t, t.child["right"][k], "left")
             fix == t.child["right"][m]
             pm == t.parent[m]
             from == IF pm = k THEN m ELSE pm
             gap == IF pm = k THEN "right" ELSE "left"
             gone == Removed(t, k)
             u == Freed(gone.tree, k)
             ms == ns \ {k}
  <1>1. /\ gone.color = t.color[m] /\ gone.fix = fix /\ gone.from = from
    BY DEF Removed
  <1>2. Successor(t, k, m)
    BY DEF Successor
  <1> HIDE DEF m
  <1>3. Lifted(t, u, k, m)
    BY <1>2, LiftedFields
  <1> HIDE DEF gone, u
  <1>4. /\ fix # None => fix \in ms /\ u.parent[fix] = from
        /\ from \in ms /\ from # None /\ u.child[gap][from] = fix
    BY <1>2, <1>3, LiftedPlaces
  <1>5. m \in ns /\ t.color[m] \in {RED, BLACK} /\ None \notin ms
    <2>1. m \in ns
      BY <1>2, SuccessorFacts
    <2> QED
      BY <2>1, NoneApart DEF Ordered
  <1>6. PICK sub2 : Ordered(u, ms, sub2)
    BY <1>2, <1>3, LiftedOrdered
  <1>7. PICK h2 : Balanced(u, ms, h2, gap, IF t.color[m] = BLACK THEN from ELSE None)
    BY <1>2, <1>3, LiftedBalanced
  <1>8. \A x \in Clashes(u, ms) : t.color[m] = BLACK /\ x = fix
    BY <1>2, <1>3, LiftedClashes
  <1>9. gap \in Sides
    BY DEF Sides
  <1> HIDE DEF fix, pm, from, gap
  <1>10. ASSUME t.color[m] = BLACK PROVE SideOf(u, fix, from) = gap
    <2>1. SideOf(u, u.child[gap][from], from) = gap
      BY <1>4, <1>6, <1>7, <1>9, <1>10, GapSide
    <2> QED
      BY <2>1, <1>4
  <1>11. \E h3 : Balanced(u, ms, h3, SideOf(u, fix, from),
                          IF t.color[m] = BLACK THEN from ELSE None)
    <2>1. CASE t.color[m] = BLACK
      BY <2>1, <1>7, <1>10
    <2>2. CASE t.color[m] # BLACK
      <3>1. Balanced(u, ms, h2, gap, None)
        BY <2>2, <1>7
      <3>2. Balanced(u, ms, h2, SideOf(u, fix, from), None)
        BY <3>1, <1>5, NothingShort
      <3> QED
        BY <2>2, <3>2
    <2> QED
      BY <2>1, <2>2
  <1>12. Deleted(u, ms, gone)
    BY <1>1, <1>4, <1>5, <1>6, <1>8, <1>10, <1>11 DEF Deleted
  <1> QED
    BY <1>12 DEF u, gone

-----------------------------------------------------------------------------
(* The fixups as the calls run them *)

\* treemap_delete leaves what its fixup expects.
LEMMA DeletedHolds ==
    ASSUME NEW t, NEW ns, NEW sub, Ordered(t, ns, sub),
           NEW h, Balanced(t, ns, h, "left", None), Clashes(t, ns) = {}, NEW k \in ns
    PROVE  LET gone == Removed(t, k)
           IN  Deleted(Freed(gone.tree, k), ns \ {k}, gone)
  <1>1. CASE t.child["left"][k] = None \/ t.child["right"][k] = None
    BY <1>1, SplicedDeleted
  <1>2. CASE t.child["left"][k] # None /\ t.child["right"][k] # None
    BY <1>2, LiftedDeleted
  <1> QED
    BY <1>1, <1>2

\* A child without a sibling is red: the paths that end at the sibling's place
\* have no black node to match a black child.
LEMMA LoneRed ==
    ASSUME NEW t, NEW ns, NEW sub, Ordered(t, ns, sub),
           NEW h, Balanced(t, ns, h, "left", None),
           NEW k \in ns, NEW q0, NEW only, OnlyChild(t, k, q0, only), only # None
    PROVE  only \in ns /\ only # k /\ t.parent[only] = k /\ t.color[only] = RED
  <1>1. only \in ns /\ only # k /\ t.parent[only] = k
    BY OnlySub
  <1> DEFINE o == Opposite(q0)
  <1>2. /\ q0 \in Sides /\ o \in Sides /\ only = t.child[q0][k] /\ t.child[o][k] = None
        /\ k # None /\ t.color[only] \in {RED, BLACK} /\ only \in Keys
    BY <1>1, SidesTwo, NoneApart DEF OnlyChild, Ordered
  <1>3. h[only] \in Nat /\ h[t.child[q0][only]] \in Nat /\ h[None] = 0
    BY <1>1, <1>2, HeightTypes DEF Balanced
  <1>4. Weight(t, k) \in Nat /\ Weight(t, only) \in Nat
    BY DEF Weight
  <1>5. ASSUME NEW x \in ns, NEW q \in Sides, h[t.child[q][x]] \in Nat
        PROVE  h[x] = h[t.child[q][x]] + Weight(t, x)
    <2>1. h[x] = Height(t, h, "left", None, q, x) + Weight(t, x) /\ x # None
      BY NoneApart DEF Balanced, Ordered
    <2>2. Height(t, h, "left", None, q, x) = h[t.child[q][x]]
      BY <1>5, <2>1 DEF Height
    <2> QED
      BY <2>1, <2>2
  <1>6. Weight(t, only) = 0
    <2>1. h[k] = h[only] + Weight(t, k)
      BY <1>2, <1>3, <1>5
    <2>2. h[k] = h[None] + Weight(t, k)
      BY <1>2, <1>3, <1>5
    <2>3. h[only] = h[t.child[q0][only]] + Weight(t, only)
      BY <1>1, <1>2, <1>3, <1>5
    <2> QED
      BY <1>3, <1>4, <2>1, <2>2, <2>3
  <1> QED
    BY <1>1, <1>2, <1>6 DEF Weight

\* The node where the fixup of a deletion starts is red.
LEMMA FixIsRed ==
    ASSUME NEW t, NEW ns, NEW sub, Ordered(t, ns, sub),
           NEW h, Balanced(t, ns, h, "left", None), NEW k \in ns,
           Removed(t, k).fix # None
    PROVE  LET gone == Removed(t, k)
           IN  Freed(gone.tree, k).color[gone.fix] = RED
  <1> DEFINE gone == Removed(t, k)
             r == Freed(gone.tree, k)
             n == gone.fix
  <1>0. ns \subseteq Keys /\ t \in Trees /\ None \notin ns
    BY NoneApart DEF Ordered
  <1>1. CASE t.child["left"][k] = None \/ t.child["right"][k] = None
    <2> DEFINE l == t.child["left"][k]
               only == IF l = None THEN t.child["right"][k] ELSE l
               q0 == IF l = None THEN "right" ELSE "left"
    <2>1. gone.tree = Transplant(t, k, only) /\ n = only
      BY <1>1 DEF Removed
    <2>2. OnlyChild(t, k, q0, only) /\ only \in KeyOrNone
      BY <1>0, <1>1, LinkTypes DEF OnlyChild, Sides, Opposite
    <2> HIDE DEF only, q0
    <2>3. only # k /\ only \in ns /\ t.color[only] = RED
      BY <2>1, <2>2, LoneRed
    <2>4. Spliced(t, r, k, only)
      BY <1>0, <2>1, <2>2, SplicedFields
    <2>5. r.color[only] = t.color[only]
      BY <1>0, <2>3, <2>4 DEF Spliced
    <2> QED
      BY <2>1, <2>3, <2>5
  <1>2. CASE t.child["left"][k] # None /\ t.child["right"][k] # None
    <2> DEFINE m == Extreme(t, t.child["right"][k], "left")
    <2>1. n = t.child["right"][m] /\ Successor(t, k, m)
      BY <1>2 DEF Removed, Successor
    <2> HIDE DEF m
    <2>2. m \in ns /\ t.child["left"][m] = None /\ m # t.parent[k]
      BY <2>1, SuccessorFacts
    <2>3. OnlyChild(t, m, "right", n)
      BY <2>1, <2>2 DEF OnlyChild, Sides, Opposite
    <2>4. n \in ns /\ n # m /\ t.parent[n] = m /\ t.color[n] = RED
      <3> HIDE DEF n
      <3>1. n # None
        BY DEF n
      <3> QED
        BY <2>2, <2>3, <3>1, LoneRed
    <2>5. Lifted(t, r, k, m)
      BY <2>1, LiftedFields
    <2>6. n # k
      BY <2>2, <2>4
    <2> HIDE DEF r, n
    <2>7. r.color[n] = t.color[n]
      BY <1>0, <2>4, <2>5, <2>6 DEF Lifted
    <2> QED
      BY <2>4, <2>7 DEF r, n
  <1> QED
    BY <1>1, <1>2

\* The fixups end with a node painted black: the root, or a red node where a
\* black one is missing.
LEMMA BlackMends ==
    ASSUME NEW t, NEW ns, NEW sub, Ordered(t, ns, sub),
           NEW h, NEW gs, NEW ga, Balanced(t, ns, h, gs, ga), NEW n \in ns,
           \/ n = t.root /\ ga = None
           \/ n # t.root /\ ga = t.parent[n] /\ gs = SideOf(t, n, ga) /\ t.color[n] = RED,
           \A x \in Clashes(t, ns) : x = n \/ t.parent[x] = n
    PROVE  LET r == Paint(t, {n}, BLACK)
           IN  /\ Ordered(r, ns, sub)
               /\ \E h2 : Balanced(r, ns, h2, "left", None)
               /\ Clashes(r, ns) = {}
  <1> DEFINE r == Paint(t, {n}, BLACK)
             d == IF t.color[n] = RED THEN 1 ELSE 0
             h2 == [x \in KeyOrNone |-> IF x = n THEN h[n] + d ELSE h[x]]
  <1>1. /\ ns \subseteq Keys /\ n \in Keys /\ n # None
        /\ \A x \in ns : x \in Keys /\ x # None /\ t.color[x] \in {RED, BLACK}
        /\ None \in KeyOrNone /\ Keys \subseteq KeyOrNone
        /\ RED # BLACK
    BY NoneApart DEF Ordered, RED, BLACK
  <1>2. /\ Ordered(r, ns, sub)
        /\ r.root = t.root /\ r.parent = t.parent /\ r.child = t.child
        /\ \A x \in Keys : r.color[x] = IF x \in {n} THEN BLACK ELSE t.color[x]
    BY <1>1, PaintOrdered
  <1>3. h \in [KeyOrNone -> Nat] /\ h[None] = 0 /\ d \in {0, 1}
    BY DEF Balanced
  <1> HIDE DEF r, d
  <1>4. /\ h2 \in [KeyOrNone -> Nat] /\ h2[None] = 0 /\ h2[n] = h[n] + d
        /\ \A x \in KeyOrNone : x # n => h2[x] = h[x]
        /\ h[n] \in Nat
    BY <1>1, <1>3
  <1> HIDE DEF h2
  <1>5. ASSUME NEW x \in ns, NEW q \in Sides
        PROVE  h2[x] = Height(r, h2, "left", None, q, x) + Weight(r, x)
    <2> DEFINE c == t.child[q][x]
               gap == IF q = gs /\ x = ga THEN 1 ELSE 0
    <2>1. /\ h[x] = h[c] + gap + Weight(t, x) /\ h[c] \in Nat /\ h[x] \in Nat
          /\ gap \in {0, 1} /\ Weight(t, x) \in {0, 1} /\ c \in KeyOrNone
      <3>1. h[c] \in Nat /\ h[x] \in Nat /\ c \in KeyOrNone
        BY HeightTypes
      <3>2. gap \in {0, 1} /\ Weight(t, x) \in {0, 1}
        BY DEF Weight
      <3>3. h[x] = Height(t, h, gs, ga, q, x) + Weight(t, x)
        BY DEF Balanced
      <3>4. Height(t, h, gs, ga, q, x) = h[c] + gap
        BY DEF Height
      <3> HIDE DEF c, gap
      <3> QED
        BY <3>1, <3>2, <3>3, <3>4
    <2>2. Height(r, h2, "left", None, q, x) = h2[c]
      <3>1. h2[c] \in Nat
        BY <2>1, <1>4
      <3> QED
        BY <3>1, <1>1, <1>2 DEF Height
    <2>3. h2[c] = h[c] + gap
      <3>1. CASE c = n
        <4>1. x = t.parent[n] /\ q = SideOf(t, n, x) /\ n # t.root
          BY <3>1, ParentFacts, <1>1, ChildFacts
        <4>2. gap = 1 /\ d = 1
          BY <4>1 DEF d
        <4> HIDE DEF c, gap
        <4> QED
          BY <3>1, <4>2, <1>4
      <3>2. CASE c # n
        <4>1. gap = 0
          <5>1. ASSUME q = gs, x = ga PROVE FALSE
            <6>1. ga = t.parent[n] /\ gs = SideOf(t, n, ga) /\ ga # None
              BY <5>1, <1>1
            <6>2. t.child[gs][ga] = n
              BY <6>1, ParentFacts
            <6> QED
              BY <5>1, <6>2, <3>2
          <5> QED
            BY <5>1
        <4>2. h2[c] = h[c]
          BY <2>1, <3>2, <1>4
        <4> HIDE DEF c, gap
        <4> QED
          BY <2>1, <4>1, <4>2
      <3> QED
        BY <3>1, <3>2
    <2>4. x # n => h2[x] = h[x] /\ Weight(r, x) = Weight(t, x)
      BY <1>1, <1>2, <1>4 DEF Weight
    <2>5. x = n => h2[x] = h[x] + d /\ Weight(r, x) = Weight(t, x) + d
      BY <1>1, <1>2, <1>4 DEF Weight, d
    <2> HIDE DEF c, gap
    <2> QED
      BY <2>1, <2>2, <2>3, <2>4, <2>5, <1>3
  <1>6. ASSUME NEW x \in Clashes(r, ns) PROVE FALSE
    <2>1. x \in ns /\ r.color[x] = RED /\ (x = r.root \/ r.color[r.parent[x]] = RED)
      BY DEF Clashes
    <2>2. x # n /\ t.color[x] = RED /\ x \in Keys
      BY <2>1, <1>1, <1>2
    <2>3. t.parent[x] # n
      <3>1. ASSUME t.parent[x] = n PROVE FALSE
        <4>1. x # t.root
          BY <2>1, <3>1, <1>1, ParentFacts
        <4> QED
          BY <2>1, <3>1, <4>1, <1>1, <1>2
      <3> QED
        BY <3>1
    <2>4. x \in Clashes(t, ns)
      <3>1. CASE x = t.root
        BY <2>1, <2>2, <3>1 DEF Clashes
      <3>2. CASE x # t.root
        <4>1. t.parent[x] \in Keys
          BY <2>1, <3>2, <1>1 DEF Ordered
        <4>2. t.color[t.parent[x]] = RED
          BY <2>1, <2>3, <3>2, <4>1, <1>2
        <4> QED
          BY <2>1, <2>2, <4>2 DEF Clashes
      <3> QED
        BY <3>1, <3>2
    <2> QED
      BY <2>2, <2>3, <2>4
  <1>7. Balanced(r, ns, h2, "left", None)
    BY <1>4, <1>5 DEF Balanced
  <1> QED
    BY <1>2, <1>6, <1>7 DEF r

\* What is to be found after an iteration that ends at the node n below a,
\* where the black node is now missing, if there is such an a.
Mended(r, ns, n, a) ==
    /\ \E sub2 : Ordered(r, ns, sub2)
    /\ \E h2 : Balanced(r, ns, h2, IF a = None THEN "left" ELSE SideOf(r, n, a), a)
    /\ n \in ns /\ a = r.parent[n]
    /\ a # None => a \in ns /\ r.child[SideOf(r, n, a)][a] = n
    /\ \A x \in Clashes(r, ns) : r.parent[x] = n

\* One iteration of treemap_delete_fixup: the tree once the sibling is black,
\* whether the missing black node is then one of a, and the tree if it is and
\* if it is not.
BlackSibling(t, a, s) ==
    LET red == t.child[Opposite(s)][a]
    IN  IF ColorOf(t, red) = RED
          THEN Rotate(Paint(Paint(t, {red}, BLACK), {a}, RED), a, s)
          ELSE t
\* The three outcomes of an iteration of treemap_delete_fixup.
GapRises(t, a, s) ==
    LET sib == t.child[Opposite(s)][a]
    IN  ColorOf(t, Child(t, sib, s)) = BLACK /\ ColorOf(t, Child(t, sib, Opposite(s))) = BLACK
SiblingRed(t, a, s) == Paint(t, {t.child[Opposite(s)][a]}, RED)
GapClosed(t, a, s) ==
    LET o == Opposite(s)
        sib == t.child[o][a]
        painted == Paint(Paint(t, {Child(t, sib, s)}, BLACK), {sib}, RED)
        t2 == IF ColorOf(t, Child(t, sib, o)) = RED THEN t
              ELSE IF sib = None THEN painted ELSE Rotate(painted, sib, o)
        sib2 == t2.child[o][a]
        t3 == Paint(t2, {sib2}, ColorOf(t2, a))
    IN  Rotate(Paint(t3, {a, Child(t2, sib2, o)}, BLACK), a, s)

\* One iteration of treemap_delete_fixup: the gap moves to the parent or closes.
LEMMA DeleteMends ==
    ASSUME NEW t, NEW ns, NEW sub, Ordered(t, ns, sub),
           NEW h, NEW a \in ns, NEW s \in Sides, Balanced(t, ns, h, s, a),
           Clashes(t, ns) = {}, ColorOf(t, t.child[s][a]) = BLACK
    PROVE  LET t1 == BlackSibling(t, a, s)
               end == GapClosed(t1, a, s)
           IN  IF GapRises(t1, a, s)
                 THEN Mended(SiblingRed(t1, a, s), ns, a, t1.parent[a])
                 ELSE Mended(end, ns, end.root, None)
  <1> DEFINE o == Opposite(s)
             red == t.child[o][a]
             t1 == BlackSibling(t, a, s)
             sib == t1.child[o][a]
             near == Child(t1, sib, s)
             far == Child(t1, sib, o)
             up == SiblingRed(t1, a, s)
  <1>0. None \notin ns /\ (\A q \in Sides : q = s \/ q = o) /\ s \in Sides /\ o \in Sides
        /\ a # None
    BY NoneApart, SidesTwo DEF Ordered
  <1>1. /\ \E sub1 : Ordered(t1, ns, sub1)
        /\ \E h1 : Balanced(t1, ns, h1, s, a)
        /\ Clashes(t1, ns) = {}
        /\ ColorOf(t1, sib) = BLACK
    <2>1. t1 = IF ColorOf(t, red) = RED THEN Rotate(Swapped(t, a, red), a, s) ELSE t
      BY DEF BlackSibling, Swapped
    <2> QED
      BY <2>1, RedSiblingTurned
  <1> HIDE DEF t1
  <1>2. PICK sub1 : Ordered(t1, ns, sub1)
    BY <1>1
  <1>3. PICK h1 : Balanced(t1, ns, h1, s, a)
    BY <1>1
  <1>4. ASSUME ColorOf(t1, near) = BLACK, ColorOf(t1, far) = BLACK
        PROVE  Mended(up, ns, a, t1.parent[a])
    <2> DEFINE p == t1.parent[a]
    <2>1. \A q \in Sides : ColorOf(t1, Child(t1, sib, q)) = BLACK
      BY <1>0, <1>4
    <2>0. up = Paint(t1, {sib}, RED)
      BY DEF SiblingRed
    <2> HIDE DEF sib, up
    <2>2. LET r == Paint(t1, {sib}, RED)
              p1 == t1.parent[a]
          IN  /\ Ordered(r, ns, sub1)
              /\ r.parent = t1.parent /\ r.root = t1.root /\ r.child = t1.child
              /\ \E h2 : Balanced(r, ns, h2, SideOf(r, a, p1), p1)
              /\ \A x \in Clashes(r, ns) : r.parent[x] = a
      <3>1. sib = t1.child[Opposite(s)][a]
        BY DEF sib
      <3>2. a \in ns /\ s \in Sides
        OBVIOUS
      <3> QED
        BY ONLY <3>1, <3>2, <2>1, <1>1, <1>2, <1>3, ShortRises
    <2>3. /\ Ordered(up, ns, sub1)
          /\ up.parent = t1.parent
          /\ \E h2 : Balanced(up, ns, h2, SideOf(up, a, p), p)
          /\ \A x \in Clashes(up, ns) : up.parent[x] = a
      BY <2>0, <2>2
    <2>4. PICK h2 : Balanced(up, ns, h2, SideOf(up, a, p), p)
      BY <2>3
    <2>5. /\ p = up.parent[a]
          /\ p # None => p \in ns /\ up.child[SideOf(up, a, p)][p] = a
      BY <2>3, ParentFacts
    <2> HIDE DEF p
    <2>6. Balanced(up, ns, h2, IF p = None THEN "left" ELSE SideOf(up, a, p), p)
      <3>1. CASE p = None
        BY <2>4, <3>1, <1>0, NothingShort
      <3>2. CASE p # None
        BY <2>4, <3>2
      <3> QED
        BY <3>1, <3>2
    <2>7. Mended(up, ns, a, p)
      BY <2>3, <2>5, <2>6 DEF Mended
    <2> QED
      BY <2>7 DEF p
  <1> DEFINE t2 == IF ColorOf(t1, far) = RED THEN t1
                   ELSE Rotate(Swapped(t1, sib, near), sib, o)
             sib2 == t2.child[o][a]
             end == Rotate(Settled(t2, a, sib2, Child(t2, sib2, o)), a, s)
  <1>5. ASSUME ~(ColorOf(t1, near) = BLACK /\ ColorOf(t1, far) = BLACK)
        PROVE  sib # None /\ Mended(end, ns, end.root, None)
    <2>1. \E q \in Sides : ColorOf(t1, Child(t1, sib, q)) # BLACK
      BY <1>0, <1>5
    <2>2. /\ sib # None
          /\ \E sub2 : Ordered(end, ns, sub2)
          /\ \E h2 : Balanced(end, ns, h2, s, None)
          /\ Clashes(end, ns) = {}
      BY <2>1, <1>1, <1>2, <1>3, ShortSettles
    <2> HIDE DEF end
    <2>3. PICK sub2 : Ordered(end, ns, sub2)
      BY <2>2
    <2>4. PICK h2 : Balanced(end, ns, h2, s, None)
      BY <2>2
    <2>5. Balanced(end, ns, h2, "left", None)
      BY <2>4, <1>0, NothingShort
    <2>6. end.root \in ns /\ end.parent[end.root] = None
      BY <2>3 DEF Ordered
    <2>7. Mended(end, ns, end.root, None)
      BY <2>2, <2>5, <2>6 DEF Mended
    <2> QED
      BY <2>2, <2>7
  <1>6. sib # None => GapClosed(t1, a, s) = end
    BY DEF GapClosed, Swapped, Settled
  <1>7. GapRises(t1, a, s) <=> ColorOf(t1, near) = BLACK /\ ColorOf(t1, far) = BLACK
    BY DEF GapRises
  <1> HIDE DEF end, up
  <1>8. IF GapRises(t1, a, s)
          THEN Mended(up, ns, a, t1.parent[a])
          ELSE Mended(GapClosed(t1, a, s), ns, GapClosed(t1, a, s).root, None)
    BY <1>4, <1>5, <1>6, <1>7
  <1> QED
    BY <1>8 DEF t1, up

-----------------------------------------------------------------------------
(* The nodes of the tree and the chains of parents *)

\* What fails somewhere in the tree fails first at the root or below a node
\* where it does not.
LEMMA TopDown ==
    ASSUME NEW t, NEW ns, NEW sub, Ordered(t, ns, sub),
           NEW Bad, Bad \subseteq ns, Bad # {}
    PROVE  \E x \in Bad : x = t.root \/ (t.parent[x] \in ns /\ t.parent[x] \notin Bad)
  <1> DEFINE Ds == {Cardinality(sub[x]) : x \in Bad}
  <1>1. \A x \in ns : Cardinality(sub[x]) \in 1 .. KeyCount
    BY SubCounts
  <1>2. Ds \subseteq 1 .. KeyCount /\ Ds # {}
    BY <1>1
  <1>3. PICK d \in Ds : \A e \in Ds : e <= d
    <2> HIDE DEF Ds
    <2>1. IsFiniteSet(1 .. KeyCount)
      BY KeysCounted, FS_Interval
    <2>2. IsFiniteSet(Ds)
      BY <1>2, <2>1, FS_Subset
    <2>3. Ds \subseteq Int
      BY <1>2
    <2> QED
      BY <1>2, <2>2, <2>3, GreatestMember
  <1>4. PICK x \in Bad : d = Cardinality(sub[x])
    OBVIOUS
  <1>5. ASSUME x # t.root PROVE t.parent[x] \in ns /\ t.parent[x] \notin Bad
    <2>1. t.parent[x] \in ns
      BY <1>5 DEF Ordered
    <2>2. PICK q \in Sides : t.child[q][t.parent[x]] = x
      BY <1>5 DEF Ordered
    <2>3. x # None
      BY NoneApart DEF Ordered
    <2>4. Cardinality(sub[x]) < Cardinality(sub[t.parent[x]])
      BY <2>1, <2>2, <2>3, SubCounts
    <2>5. Cardinality(sub[x]) \in Int /\ Cardinality(sub[t.parent[x]]) \in Int
      BY <1>1, <2>1
    <2>6. t.parent[x] \in Bad => Cardinality(sub[t.parent[x]]) <= Cardinality(sub[x])
      BY <1>3, <1>4
    <2> QED
      BY <2>1, <2>4, <2>5, <2>6
  <1> QED
    BY <1>5

\* treemap_clear_node comes to every node.
LEMMA ReachedIs ==
    ASSUME NEW t, NEW ns, NEW sub, Ordered(t, ns, sub)
    PROVE  Reached(t) = ns
  <1> DEFINE a == {t.root} \ {None}
             More(seen) == seen \cup ({t.child[s][n] : s \in Sides, n \in seen} \ {None})
             g == [seen \in SUBSET Keys |-> More(seen)]
             Is(f) == f = [d \in 0 .. KeyCount |-> IF d = 0 THEN a ELSE More(f[d - 1])]
             G == CHOOSE f : Is(f)
  <1>1. /\ ns \subseteq Keys /\ t \in Trees /\ None \notin ns
        /\ t.root \in KeyOrNone /\ KeyCount \in Nat
        /\ \A s \in Sides, n \in Keys : t.child[s][n] \in KeyOrNone
    BY KeysCounted, LinkTypes, NoneApart DEF Ordered, Trees, KeyOrNone
  <1>2. Reached(t) = G[KeyCount]
    BY DEF Reached, KeyCount
  <1>3. a \in SUBSET Keys /\ \A seen \in SUBSET Keys : More(seen) \in SUBSET Keys
    BY <1>1 DEF KeyOrNone
  <1>4. \A seen, n : n \in More(seen) <=>
           n \in seen \/ (n # None /\ \E s \in Sides, m \in seen : n = t.child[s][m])
    OBVIOUS
  <1> HIDE DEF a, More
  <1>5. g \in [SUBSET Keys -> SUBSET Keys] /\ \A seen \in SUBSET Keys : g[seen] = More(seen)
    BY <1>3
  <1> HIDE DEF g
  <1>6. PICK f0 : Repeats(f0, KeyCount, a, g)
    BY <1>1, <1>3, <1>5, RepeatsExist
  <1>7. /\ f0 = [d \in 0 .. KeyCount |-> f0[d]]
        /\ \A d \in 0 .. KeyCount : f0[d] = IF d = 0 THEN a ELSE g[f0[d - 1]]
    <2>1. f0 = [d \in 0 .. KeyCount |-> IF d = 0 THEN a ELSE g[f0[d - 1]]]
      BY <1>6 DEF Repeats
    <2> QED
      BY <2>1
  <1>8. \A d \in 0 .. KeyCount : f0[d] \in SUBSET Keys
    <2> DEFINE D == {d \in 0 .. KeyCount : f0[d] \notin SUBSET Keys}
    <2>1. SUFFICES ASSUME D # {} PROVE FALSE
      OBVIOUS
    <2>2. PICK d \in D : \A e \in D : d <= e
      <3>1. D \subseteq Nat
        BY <1>1
      <3> HIDE DEF D
      <3> QED
        BY <2>1, <3>1, LeastNatural
    <2>3. d \in 0 .. KeyCount /\ d # 0 /\ f0[d] \notin SUBSET Keys
      BY <1>3, <1>7
    <2>4. d - 1 \in 0 .. KeyCount /\ ~ (d <= d - 1)
      BY <2>3, <1>1
    <2>5. f0[d - 1] \in SUBSET Keys
      BY <2>2, <2>4
    <2>6. f0[d] = More(f0[d - 1])
      BY <2>3, <2>5, <1>5, <1>7
    <2> QED
      BY <2>3, <2>5, <2>6, <1>3
  <1>9. \A d \in 0 .. KeyCount : f0[d] = IF d = 0 THEN a ELSE More(f0[d - 1])
    <2> SUFFICES ASSUME NEW d \in 0 .. KeyCount
                 PROVE  f0[d] = IF d = 0 THEN a ELSE More(f0[d - 1])
      OBVIOUS
    <2>1. CASE d = 0
      BY <2>1, <1>7
    <2>2. CASE d # 0
      <3>1. d - 1 \in 0 .. KeyCount
        BY <2>2, <1>1
      <3> QED
        BY <2>2, <3>1, <1>5, <1>7, <1>8
    <2> QED
      BY <2>1, <2>2
  <1>10. Is(f0)
    BY <1>7, <1>9
  <1>11. Is(G)
    <2> HIDE DEF Is
    <2> QED
      BY <1>10
  <1>12. \A d \in 0 .. KeyCount : G[d] = IF d = 0 THEN a ELSE More(G[d - 1])
    <2> HIDE DEF G
    <2> QED
      BY <1>11
  <1> HIDE DEF G, Is
  <1> DEFINE Good(d) ==
               /\ G[d] \subseteq ns
               /\ t.root # None => t.root \in G[d]
               /\ \A x \in ns : Cardinality(sub[x]) >= KeyCount - d => x \in G[d]
  <1>13. \A x \in ns : Cardinality(sub[x]) \in 1 .. KeyCount
    BY SubCounts
  <1>14. \A x \in ns : x = t.root \/
            /\ t.parent[x] \in ns /\ \E q \in Sides : x = t.child[q][t.parent[x]]
            /\ Cardinality(sub[x]) < Cardinality(sub[t.parent[x]])
    <2> SUFFICES ASSUME NEW x \in ns, x # t.root
                 PROVE  /\ t.parent[x] \in ns /\ \E q \in Sides : x = t.child[q][t.parent[x]]
                        /\ Cardinality(sub[x]) < Cardinality(sub[t.parent[x]])
      OBVIOUS
    <2>1. t.parent[x] \in ns /\ \E q \in Sides : x = t.child[q][t.parent[x]]
      BY DEF Ordered
    <2> QED
      BY <2>1, <1>1, SubCounts
  <1>15. Good(0)
    <2>1. G[0] = a
      BY <1>1, <1>12
    <2>2. a \subseteq ns /\ (t.root # None => t.root \in a)
      BY DEF a, Ordered
    <2>3. ASSUME NEW x \in ns, Cardinality(sub[x]) >= KeyCount - 0 PROVE x = t.root
      <3>1. SUFFICES ASSUME x # t.root PROVE FALSE
        OBVIOUS
      <3>2. t.parent[x] \in ns /\ Cardinality(sub[x]) < Cardinality(sub[t.parent[x]])
        BY <3>1, <1>14
      <3>3. Cardinality(sub[x]) \in 1 .. KeyCount
            /\ Cardinality(sub[t.parent[x]]) \in 1 .. KeyCount
        BY <3>2, <1>13
      <3> QED
        BY <2>3, <3>2, <3>3, <1>1
    <2> QED
      BY <2>1, <2>2, <2>3, <1>1
  <1>16. ASSUME NEW d \in 0 .. KeyCount, d # 0, Good(d - 1) PROVE Good(d)
    <2>1. G[d] = More(G[d - 1]) /\ G[d - 1] \subseteq ns
      BY <1>12, <1>16
    <2>2. G[d - 1] \subseteq G[d]
      BY <2>1, <1>4
    <2>3. G[d] \subseteq ns
      <3>1. ASSUME NEW n \in G[d], n \notin G[d - 1] PROVE n \in ns
        <4>1. PICK s \in Sides, m \in G[d - 1] : n # None /\ n = t.child[s][m]
          BY <2>1, <3>1, <1>4
        <4> QED
          BY <4>1, <2>1 DEF Ordered
      <3> QED
        BY <2>1, <3>1
    <2>4. ASSUME NEW x \in ns, Cardinality(sub[x]) >= KeyCount - d PROVE x \in G[d]
      <3>1. CASE x = t.root
        BY <3>1, <2>2, <1>1, <1>16
      <3>2. CASE x # t.root
        <4>1. /\ t.parent[x] \in ns /\ \E q \in Sides : x = t.child[q][t.parent[x]]
              /\ Cardinality(sub[x]) < Cardinality(sub[t.parent[x]])
          BY <3>2, <1>14
        <4>2. Cardinality(sub[x]) \in 1 .. KeyCount
              /\ Cardinality(sub[t.parent[x]]) \in 1 .. KeyCount
          BY <4>1, <1>13
        <4>3. Cardinality(sub[t.parent[x]]) >= KeyCount - (d - 1)
          BY <2>4, <4>1, <4>2, <1>1
        <4>4. t.parent[x] \in G[d - 1]
          BY <4>1, <4>3, <1>16
        <4> QED
          BY <4>1, <4>4, <2>1, <1>1, <1>4
      <3> QED
        BY <3>1, <3>2
    <2> QED
      BY <2>2, <2>3, <2>4, <1>16
  <1> HIDE DEF Good
  <1>17. \A d \in 0 .. KeyCount : Good(d)
    <2> DEFINE D == {d \in 0 .. KeyCount : ~Good(d)}
    <2>1. SUFFICES ASSUME D # {} PROVE FALSE
      OBVIOUS
    <2>2. PICK d \in D : \A e \in D : d <= e
      <3>1. D \subseteq Nat
        BY <1>1
      <3> HIDE DEF D
      <3> QED
        BY <2>1, <3>1, LeastNatural
    <2>3. d \in 0 .. KeyCount /\ d # 0 /\ ~Good(d)
      BY <1>15
    <2>4. d - 1 \in 0 .. KeyCount /\ ~ (d <= d - 1)
      BY <2>3, <1>1
    <2>5. Good(d - 1)
      BY <2>2, <2>4
    <2> QED
      BY <2>3, <2>5, <1>16
  <1>18. Good(KeyCount)
    BY <1>1, <1>17
  <1>19. G[KeyCount] = ns
    <2>1. \A x \in ns : Cardinality(sub[x]) >= KeyCount - KeyCount
      BY <1>1, <1>13
    <2> QED
      BY <2>1, <1>18 DEF Good
  <1> QED
    BY <1>2, <1>19

\* The chain of parents of a node is the node and the chain of its parent.
LEMMA AboveIs ==
    ASSUME NEW t, NEW ns, NEW sub, Ordered(t, ns, sub), NEW n \in ns
    PROVE  /\ n \in AtOrAbove(t, n) /\ AtOrAbove(t, n) \subseteq ns
           /\ \A y \in AtOrAbove(t, n) : n \in sub[y]
           /\ AtOrAbove(t, n) = {n} \cup (IF t.parent[n] = None THEN {}
                                         ELSE AtOrAbove(t, t.parent[n]))
           /\ t.parent[n] # None => n \notin AtOrAbove(t, t.parent[n])
  <1> DEFINE next == t.parent
             p == t.parent[n]
             w == Walk(n, next)
             v == Walk(p, next)
  <1>1. /\ ns \subseteq Keys /\ t \in Trees /\ KeyCount \in Nat
        /\ \A x \in ns : x \in Keys /\ x # None /\ x \in KeyOrNone
        /\ None \in KeyOrNone
    BY KeysCounted, NoneApart DEF Ordered
  <1>2. next \in [Keys -> KeyOrNone]
    BY <1>1, NextTypes
  <1> HIDE DEF next, w, v
  <1>3. \A x \in ns : next[x] # None =>
           /\ next[x] \in ns /\ sub[x] \subseteq sub[next[x]] /\ next[x] \notin sub[x]
           /\ Cardinality(sub[x]) < Cardinality(sub[next[x]])
    <2> SUFFICES ASSUME NEW x \in ns, t.parent[x] # None
                 PROVE  LET y == t.parent[x]
                        IN  /\ y \in ns /\ sub[x] \subseteq sub[y] /\ y \notin sub[x]
                            /\ Cardinality(sub[x]) < Cardinality(sub[y])
      BY DEF next
    <2> DEFINE y == t.parent[x]
               q == SideOf(t, x, y)
    <2>1. y \in ns /\ q \in Sides /\ t.child[q][y] = x /\ x # None
      BY ParentFacts
    <2> HIDE DEF y, q
    <2>2. sub[x] \subseteq sub[y] /\ y \notin sub[x]
      BY <2>1, ChildFacts
    <2>3. Cardinality(sub[x]) < Cardinality(sub[y])
      BY <2>1, SubCounts
    <2> QED
      BY <2>1, <2>2, <2>3 DEF y
  <1>4. n # None /\ n \in KeyOrNone /\ p \in KeyOrNone /\ p = next[n]
        /\ (p # None => p \in ns)
    BY <1>1, <1>3, ParentFacts DEF next
  <1>5. /\ DOMAIN w = 0 .. KeyCount /\ w[0] = n
        /\ \A e \in 0 .. KeyCount : e # 0 =>
              w[e] = IF w[e - 1] = None THEN None ELSE next[w[e - 1]]
    BY <1>2, <1>4, WalkSteps DEF w
  <1>6. /\ DOMAIN v = 0 .. KeyCount /\ v[0] = p
        /\ \A e \in 0 .. KeyCount : e # 0 =>
              v[e] = IF v[e - 1] = None THEN None ELSE next[v[e - 1]]
    <2> HIDE DEF p
    <2> QED
      BY <1>2, <1>4, WalkSteps DEF v
  <1>7. \A d \in 0 .. KeyCount : d # 0 => w[d] = v[d - 1]
    <2> DEFINE D == {d \in 0 .. KeyCount : d # 0 /\ w[d] # v[d - 1]}
    <2>1. SUFFICES ASSUME D # {} PROVE FALSE
      OBVIOUS
    <2>2. PICK d \in D : \A e \in D : d <= e
      <3>1. D \subseteq Nat
        BY <1>1
      <3> HIDE DEF D
      <3> QED
        BY <2>1, <3>1, LeastNatural
    <2>3. d \in 0 .. KeyCount /\ d # 0 /\ w[d] # v[d - 1]
      OBVIOUS
    <2>4. d - 1 \in 0 .. KeyCount /\ ~ (d <= d - 1)
      BY <2>3, <1>1
    <2>5. d - 1 # 0
      <3>1. ASSUME d = 1 PROVE FALSE
        <4>1. w[1] = next[n] /\ 1 \in 0 .. KeyCount
          BY <2>3, <3>1, <1>4, <1>5
        <4> QED
          BY <2>3, <3>1, <4>1, <1>4, <1>6
      <3> QED
        BY <2>3, <3>1
    <2>6. w[d - 1] = v[d - 1 - 1]
      BY <2>2, <2>4, <2>5
    <2>7. v[d - 1] = IF v[d - 1 - 1] = None THEN None ELSE next[v[d - 1 - 1]]
      BY <2>4, <2>5, <1>6
    <2>8. w[d] = IF w[d - 1] = None THEN None ELSE next[w[d - 1]]
      BY <2>3, <1>5
    <2> QED
      BY <2>3, <2>6, <2>7, <2>8
  <1>8. v[KeyCount] = None
    <2> DEFINE rank == [x \in ns |-> KeyCount + 1 - Cardinality(sub[x])]
    <2>1. \A x \in ns : Cardinality(sub[x]) \in 1 .. KeyCount
      BY SubCounts
    <2>2. rank \in [ns -> 1 .. KeyCount]
      BY <2>1, <1>1
    <2>3. \A x \in ns : rank[x] = KeyCount + 1 - Cardinality(sub[x])
      OBVIOUS
    <2> HIDE DEF rank
    <2>4. \A x \in ns : next[x] # None => next[x] \in ns /\ rank[next[x]] < rank[x]
      BY <2>1, <2>3, <1>1, <1>3
    <2> HIDE DEF p
    <2> QED
      BY <2>2, <2>4, <1>1, <1>2, <1>4, WalkEnds DEF v
  <1> DEFINE A == {w[d] : d \in 0 .. KeyCount} \ {None}
             B == {v[d] : d \in 0 .. KeyCount} \ {None}
  <1>9. A = {n} \cup B
    <2>1. \A y : y \in A <=> y # None /\ \E d \in 0 .. KeyCount : y = w[d]
      OBVIOUS
    <2>2. \A y : y \in B <=> y # None /\ \E d \in 0 .. KeyCount : y = v[d]
      OBVIOUS
    <2> HIDE DEF A, B
    <2>3. 0 \in 0 .. KeyCount
      BY <1>1
    <2>4. n \in A
      BY <2>1, <2>3, <1>4, <1>5
    <2>5. ASSUME NEW y \in A, y # n PROVE y \in B
      <3>1. PICK d \in 0 .. KeyCount : y = w[d]
        BY <2>1, <2>5
      <3>2. d # 0
        BY <2>5, <3>1, <1>5
      <3>3. d - 1 \in 0 .. KeyCount /\ y = v[d - 1]
        BY <3>1, <3>2, <1>1, <1>7
      <3> QED
        BY <2>1, <2>2, <2>5, <3>3
    <2>6. ASSUME NEW y \in B PROVE y \in A
      <3>1. PICK d \in 0 .. KeyCount : y = v[d] /\ y # None
        BY <2>2, <2>6
      <3>2. d # KeyCount
        BY <3>1, <1>8
      <3>3. d + 1 \in 0 .. KeyCount /\ d + 1 # 0 /\ d + 1 - 1 = d
        BY <3>1, <3>2, <1>1
      <3>4. w[d + 1] = v[d]
        BY <3>3, <1>7
      <3> QED
        BY <2>1, <3>1, <3>3, <3>4
    <2> QED
      BY <2>4, <2>5, <2>6
  <1>10. A = AtOrAbove(t, n) /\ B = AtOrAbove(t, p)
    BY <1>5, <1>6 DEF AtOrAbove, Upward, w, v, next
  <1>11. \A d \in 0 .. KeyCount : w[d] # None => w[d] \in {y \in ns : n \in sub[y]}
    <2> DEFINE T == {y \in ns : n \in sub[y]}
    <2>1. n \in T
      BY DEF Ordered
    <2>2. \A x \in T : next[x] # None => next[x] \in T
      BY <1>3
    <2> HIDE DEF T
    <2>3. \A d \in 0 .. KeyCount : w[d] # None => w[d] \in T
      BY <2>1, <2>2, <1>2, <1>4, WalkStays DEF w
    <2> QED
      BY <2>3 DEF T
  <1>12. p = None => B = {}
    <2> DEFINE T == {}
    <2>1. SUFFICES ASSUME p = None PROVE B = {}
      OBVIOUS
    <2> HIDE DEF p
    <2>2. (p # None => p \in T) /\ \A x \in T \cap Keys : next[x] # None => next[x] \in T
      BY <2>1
    <2> HIDE DEF T
    <2>3. \A d \in 0 .. KeyCount : v[d] # None => v[d] \in T
      BY <2>2, <1>2, <1>4, WalkStays DEF v
    <2> QED
      BY <2>3 DEF T
  <1>13. p # None => n \notin B
    <2>1. SUFFICES ASSUME p # None, n \in B PROVE FALSE
      OBVIOUS
    <2>2. \A d \in 0 .. KeyCount : v[d] # None => v[d] \in {y \in ns : p \in sub[y]}
      <3> DEFINE T == {y \in ns : p \in sub[y]}
      <3>1. p \in T
        BY <2>1, <1>4 DEF Ordered
      <3>2. \A x \in T : next[x] # None => next[x] \in T
        BY <1>3
      <3> HIDE DEF T, p
      <3>3. \A d \in 0 .. KeyCount : v[d] # None => v[d] \in T
        BY <3>1, <3>2, <1>2, <1>4, WalkStays DEF v
      <3> QED
        BY <3>3 DEF T
    <2>3. p \in sub[n]
      BY <2>1, <2>2
    <2> QED
      BY <2>1, <2>3, <1>3, <1>4
  <1>14. A \subseteq {y \in ns : n \in sub[y]}
    BY <1>11
  <1> HIDE DEF A, B, p
  <1>15. /\ n \in A /\ A \subseteq ns /\ \A y \in A : n \in sub[y]
         /\ A = {n} \cup (IF p = None THEN {} ELSE B)
         /\ p # None => n \notin B
    BY <1>9, <1>12, <1>13, <1>14
  <1> QED
    BY <1>10, <1>15 DEF p

-----------------------------------------------------------------------------
(* The inductive invariant: the tree *)

\* In the middle of treemap_delete_fixup the side of a where n is lacks a
\* black node.
Sound(t, ns, p, n, a) ==
    LET ga == IF p = "delete_fixup" THEN a ELSE None
    IN  /\ \E sub : Ordered(t, ns, sub)
        /\ \E h : Balanced(t, ns, h, IF ga = None THEN "left" ELSE SideOf(t, n, a), ga)
        /\ n \in KeyOrNone /\ a \in KeyOrNone
        /\ p \notin {"insert_fixup", "delete_fixup"} => Clashes(t, ns) = {}
        /\ p = "insert_fixup" => /\ n \in ns /\ t.color[n] = RED
                                 /\ \A x \in Clashes(t, ns) : x = n
        /\ p = "delete_fixup" =>
              /\ n # None => n \in ns /\ a = t.parent[n]
              /\ a # None => a \in ns /\ t.child[SideOf(t, n, a)][a] = n
              /\ \A x \in Clashes(t, ns) : n # None /\ (x = n \/ t.parent[x] = n)

TreeInv == Sound(tree, allocated, pc, node, above)

\* Where no fixup runs.
LEMMA SoundIdle ==
    ASSUME NEW t, NEW ns, NEW p, p \notin {"insert_fixup", "delete_fixup"}
    PROVE  \A n, a : Sound(t, ns, p, n, a) <=>
              /\ \E sub : Ordered(t, ns, sub)
              /\ \E h : Balanced(t, ns, h, "left", None)
              /\ n \in KeyOrNone /\ a \in KeyOrNone
              /\ Clashes(t, ns) = {}
  BY DEF Sound

\* Insertions end with the root painted black.
LEMMA RootPainted ==
    ASSUME NEW t, NEW ns, NEW sub, Ordered(t, ns, sub),
           NEW h, Balanced(t, ns, h, "left", None),
           NEW n \in ns, t.color[n] = RED, ~RedAbove(t, n), \A x \in Clashes(t, ns) : x = n
    PROVE  LET r == Paint(t, {t.root}, BLACK)
           IN  /\ \E sub2 : Ordered(r, ns, sub2)
               /\ \E h2 : Balanced(r, ns, h2, "left", None)
               /\ Clashes(r, ns) = {}
  <1>1. t.root \in ns
    BY DEF Ordered
  <1>2. \A x \in Clashes(t, ns) : x = t.root
    <2>1. ASSUME NEW x \in Clashes(t, ns), x # t.root PROVE FALSE
      <3>1. x = n /\ t.color[t.parent[x]] = RED
        BY <2>1 DEF Clashes
      <3>2. t.parent[n] # None
        BY <2>1, <3>1, ParentFacts
      <3> QED
        BY <2>1, <3>1, <3>2 DEF RedAbove, ColorOf
    <2> QED
      BY <2>1
  <1> DEFINE r == Paint(t, {t.root}, BLACK)
  <1>3. /\ Ordered(r, ns, sub)
        /\ \E h2 : Balanced(r, ns, h2, "left", None)
        /\ Clashes(r, ns) = {}
    <2> HIDE DEF r
    <2>1. LET c == Paint(t, {t.root}, BLACK)
          IN  /\ Ordered(c, ns, sub)
              /\ \E h2 : Balanced(c, ns, h2, "left", None)
              /\ Clashes(c, ns) = {}
      BY <1>1, <1>2, BlackMends
    <2> QED
      BY <2>1 DEF r
  <1> QED
    BY <1>3

\* The steps of an insertion keep the tree sound.
LEMMA TreeStepInsert ==
    ASSUME TreeInv, SetInsert \/ InsertFixup \/ InsertFixupEnd,
           call.key \in KeyOrNone
    PROVE  TreeInv'
  <1> DEFINE ns == allocated
             k == call.key
  <1>1. PICK sub : Ordered(tree, ns, sub)
    BY DEF TreeInv, Sound
  <1>2. pc # "delete_fixup"
    BY DEF SetInsert, InsertFixup, InsertFixupEnd
  <1>3. PICK h : Balanced(tree, ns, h, "left", None)
    BY <1>2 DEF TreeInv, Sound
  <1>4. /\ ns \subseteq Keys /\ None \notin ns /\ None \in KeyOrNone
        /\ Keys \subseteq KeyOrNone /\ node \in KeyOrNone /\ above \in KeyOrNone
        /\ pc = "insert_fixup" => /\ node \in ns /\ tree.color[node] = RED
                                  /\ \A x \in Clashes(tree, ns) : x = node
    BY <1>1, NoneApart DEF TreeInv, Sound, Ordered
  <1>5. CASE SetInsert
    <2>1. k \in Keys \ ns /\ Clashes(tree, ns) = {}
      <3>1. k # None /\ ~Found(tree, k) /\ pc = "set"
        BY <1>5 DEF SetInsert
      <3>2. k \in Keys
        BY <3>1 DEF KeyOrNone
      <3> QED
        BY <3>1, <3>2, <1>1, FoundIs DEF TreeInv, Sound
    <2>2. /\ \E sub2 : Ordered(tree', ns \cup {k}, sub2)
          /\ \E h2 : Balanced(tree', ns \cup {k}, h2, "left", None)
          /\ tree'.color[k] = RED
          /\ \A x \in Clashes(tree', ns \cup {k}) : x = k
      <3>1. tree' = Planted(tree, k)
        BY <1>5 DEF SetInsert
      <3> QED
        BY <2>1, <3>1, <1>1, <1>3, PlantedMends
    <2>3. allocated' = ns \cup {k} /\ node' = k /\ pc' = "insert_fixup" /\ above' = above
      BY <1>5 DEF SetInsert
    <2> QED
      BY <2>1, <2>2, <2>3, <1>4 DEF TreeInv, Sound
  <1>6. CASE InsertFixup
    <2>1. node \in ns /\ tree.color[node] = RED /\ RedAbove(tree, node)
          /\ \A x \in Clashes(tree, ns) : x = node
      BY <1>4, <1>6 DEF InsertFixup
    <2>2. LET r == InsertMended(tree, node)
              m == IF ColorOf(tree, Uncle(tree, node)) = RED THEN Grandparent(tree, node)
                   ELSE IF Inside(tree, node) THEN tree.parent[node] ELSE node
          IN  /\ \E sub2 : Ordered(r, ns, sub2)
              /\ \E h2 : Balanced(r, ns, h2, "left", None)
              /\ m \in ns /\ r.color[m] = RED
              /\ \A x \in Clashes(r, ns) : x = m
      BY <2>1, <1>1, <1>3, InsertMends
    <2>3. /\ \E sub2 : Ordered(tree', ns, sub2)
          /\ \E h2 : Balanced(tree', ns, h2, "left", None)
          /\ node' \in ns /\ tree'.color[node'] = RED
          /\ \A x \in Clashes(tree', ns) : x = node'
      BY <2>2, <1>6 DEF InsertFixup
    <2>4. allocated' = ns /\ pc' = "insert_fixup" /\ above' = above
      BY <1>6 DEF InsertFixup
    <2> QED
      BY <2>3, <2>4, <1>4 DEF TreeInv, Sound
  <1>7. CASE InsertFixupEnd
    <2>1. node \in ns /\ tree.color[node] = RED /\ ~RedAbove(tree, node)
          /\ \A x \in Clashes(tree, ns) : x = node
      BY <1>4, <1>7 DEF InsertFixupEnd
    <2>2. tree' = Paint(tree, {tree.root}, BLACK) /\ allocated' = ns /\ pc' = "idle"
          /\ node' = None /\ above' = None
      BY <1>7 DEF InsertFixupEnd, Return
    <2>3. LET r == Paint(tree, {tree.root}, BLACK)
          IN  /\ \E sub2 : Ordered(r, ns, sub2)
              /\ \E h2 : Balanced(r, ns, h2, "left", None)
              /\ Clashes(r, ns) = {}
      BY <2>1, <1>1, <1>3, RootPainted
    <2>4. /\ \E sub2 : Ordered(tree', ns, sub2)
          /\ \E h2 : Balanced(tree', ns, h2, "left", None)
          /\ Clashes(tree', ns) = {}
      BY <2>2, <2>3
    <2> QED
      BY <2>2, <2>4, <1>4 DEF TreeInv, Sound
  <1> QED
    BY <1>5, <1>6, <1>7

\* Unlinking a node leaves a sound tree, in which a child that the removed node
\* had alone is red.
LEMMA DeletedSound ==
    ASSUME NEW t, NEW ns, NEW sub, Ordered(t, ns, sub),
           NEW h, Balanced(t, ns, h, "left", None), Clashes(t, ns) = {}, NEW k \in ns
    PROVE  LET gone == Removed(t, k)
               r == Freed(gone.tree, k)
               ms == ns \ {k}
           IN  /\ gone.color = BLACK => Sound(r, ms, "delete_fixup", gone.fix, gone.from)
               /\ gone.color # BLACK => Sound(r, ms, "idle", None, None)
               /\ gone.fix # None => gone.from = r.parent[gone.fix]
               /\ \A x \in Clashes(r, ms) : x = gone.fix
  <1> DEFINE gone == Removed(t, k)
             r == Freed(gone.tree, k)
             ms == ns \ {k}
             n == gone.fix
             a == gone.from
  <1>1. Deleted(r, ms, gone)
    BY DeletedHolds
  <1>2. /\ ms \subseteq Keys /\ None \notin ms /\ None \in KeyOrNone
        /\ Keys \subseteq KeyOrNone
    BY NoneApart DEF Ordered
  <1> HIDE DEF gone, r, ms
  <1>3. ASSUME gone.color = BLACK PROVE Sound(r, ms, "delete_fixup", n, a)
    <2>1. /\ \E sub2 : Ordered(r, ms, sub2)
          /\ \E h2 : Balanced(r, ms, h2, SideOf(r, n, a), a)
          /\ n # None => n \in ms /\ r.parent[n] = a
          /\ a # None => a \in ms /\ r.child[SideOf(r, n, a)][a] = n
          /\ \A x \in Clashes(r, ms) : x = n
      BY <1>1, <1>3 DEF Deleted
    <2> HIDE DEF n, a
    <2>2. PICK h2 : Balanced(r, ms, h2, SideOf(r, n, a), a)
      BY <2>1
    <2>3. Balanced(r, ms, h2, IF a = None THEN "left" ELSE SideOf(r, n, a), a)
      <3>1. CASE a = None
        BY <1>2, <2>2, <3>1, NothingShort
      <3>2. CASE a # None
        BY <2>2, <3>2
      <3> QED
        BY <3>1, <3>2
    <2>4. n \in KeyOrNone /\ a \in KeyOrNone
      BY <1>2, <2>1
    <2>5. \A x \in Clashes(r, ms) : n # None /\ x = n
      BY <1>2, <2>1 DEF Clashes
    <2> QED
      BY <2>1, <2>3, <2>4, <2>5 DEF Sound
  <1>4. ASSUME gone.color # BLACK PROVE Sound(r, ms, "idle", None, None)
    <2>1. /\ \E sub2 : Ordered(r, ms, sub2)
          /\ \E h2 : Balanced(r, ms, h2, SideOf(r, n, a), None)
          /\ Clashes(r, ms) = {}
      BY <1>1, <1>4 DEF Deleted
    <2>2. \E h2 : Balanced(r, ms, h2, "left", None)
      BY <1>2, <2>1, NothingShort
    <2> QED
      BY <1>2, <2>1, <2>2 DEF Sound
  <1>5. /\ n # None => a = r.parent[n]
        /\ \A x \in Clashes(r, ms) : x = n
    BY <1>1 DEF Deleted
  <1> QED
    BY <1>3, <1>4, <1>5 DEF gone, r, ms

\* Unlinking a node keeps the tree sound.
LEMMA TreeStepDelete ==
    ASSUME TreeInv, Delete, call.key \in KeyOrNone
    PROVE  TreeInv'
  <1> DEFINE ns == allocated
             k == call.key
             gone == Removed(tree, k)
             r == Freed(gone.tree, k)
             ms == ns \ {k}
  <1>1. PICK sub : Ordered(tree, ns, sub)
    BY DEF TreeInv, Sound
  <1>2. pc = "delete"
    BY DEF Delete
  <1>3. PICK h : Balanced(tree, ns, h, "left", None)
    BY <1>2 DEF TreeInv, Sound
  <1>4. Clashes(tree, ns) = {}
    BY <1>2 DEF TreeInv, Sound
  <1>5. k \in ns
    <2>1. k # None /\ Found(tree, k) /\ k \in KeyOrNone
      BY DEF Delete
    <2>2. k \in Keys
      BY <2>1 DEF KeyOrNone
    <2> QED
      BY <2>1, <2>2, <1>1, FoundIs
  <1>6. /\ gone.color = BLACK => Sound(r, ms, "delete_fixup", gone.fix, gone.from)
        /\ gone.color # BLACK => Sound(r, ms, "idle", None, None)
    BY <1>1, <1>3, <1>4, <1>5, DeletedSound
  <1>7. /\ tree' = r /\ allocated' = ms
        /\ IF gone.color = BLACK
             THEN pc' = "delete_fixup" /\ node' = gone.fix /\ above' = gone.from
             ELSE pc' = "idle" /\ node' = None /\ above' = None
    BY DEF Delete, Return
  <1> HIDE DEF gone, r, ms
  <1> QED
    BY <1>6, <1>7 DEF TreeInv

\* An iteration of treemap_delete_fixup does.
LEMMA TreeStepFixup ==
    ASSUME TreeInv, DeleteFixup
    PROVE  TreeInv'
  <1> DEFINE ns == allocated
             s == SideOf(tree, node, above)
             t1 == BlackSibling(tree, above, s)
             end == GapClosed(t1, above, s)
  <1>1. PICK sub : Ordered(tree, ns, sub)
    BY DEF TreeInv, Sound
  <1>2. /\ pc = "delete_fixup" /\ above # None /\ ColorOf(tree, node) = BLACK
        /\ node # tree.root /\ allocated' = ns /\ pc' = "delete_fixup"
    BY DEF DeleteFixup, BlackMissing
  <1>3. IF GapRises(t1, above, s)
          THEN tree' = SiblingRed(t1, above, s) /\ node' = above /\ above' = t1.parent[above]
          ELSE tree' = end /\ node' = tree'.root /\ above' = None
    BY DEF DeleteFixup, BlackSibling, GapRises, SiblingRed, GapClosed
  <1>4. /\ node # None => node \in ns /\ above = tree.parent[node]
        /\ above \in ns /\ tree.child[s][above] = node
        /\ \A x \in Clashes(tree, ns) : node # None /\ (x = node \/ tree.parent[x] = node)
        /\ ns \subseteq Keys /\ None \notin ns /\ RED # BLACK
    BY <1>1, <1>2, NoneApart DEF TreeInv, Sound, Ordered, RED, BLACK
  <1>5. s \in Sides
    BY DEF SideOf, Sides
  <1>6. PICK h : Balanced(tree, ns, h, s, above)
    BY <1>2 DEF TreeInv, Sound
  <1> HIDE DEF s
  <1>7. Clashes(tree, ns) = {}
    <2>1. ASSUME NEW x \in Clashes(tree, ns) PROVE FALSE
      <3>1. node # None /\ (x = node \/ tree.parent[x] = node) /\ tree.color[node] = BLACK
        BY <1>2, <1>4 DEF ColorOf
      <3>2. x \in ns /\ tree.color[x] = RED
            /\ (x = tree.root \/ tree.color[tree.parent[x]] = RED)
        BY DEF Clashes
      <3>3. x # node
        BY <3>1, <3>2, <1>4
      <3>4. x # tree.root
        BY <3>1, <3>2, <3>3, <1>1, ParentFacts
      <3> QED
        BY <3>1, <3>2, <3>3, <3>4, <1>4
    <2> QED
      BY <2>1
  <1>8. IF GapRises(t1, above, s)
          THEN Mended(SiblingRed(t1, above, s), ns, above, t1.parent[above])
          ELSE Mended(end, ns, end.root, None)
    <2>1. /\ Ordered(tree, ns, sub) /\ Balanced(tree, ns, h, s, above)
          /\ Clashes(tree, ns) = {} /\ above \in ns /\ s \in Sides
          /\ ColorOf(tree, tree.child[s][above]) = BLACK
      BY <1>1, <1>2, <1>4, <1>5, <1>6, <1>7
    <2> QED
      BY <2>1, DeleteMends
  <1> HIDE DEF end, t1
  <1>9. Mended(tree', ns, node', above')
    BY <1>3, <1>8
  <1>10. /\ node' \in ns /\ above' \in KeyOrNone
    BY <1>9, <1>4, ParentFacts DEF Mended
  <1> QED
    BY <1>2, <1>4, <1>9, <1>10, NoneApart DEF Mended, TreeInv, Sound

\* A deletion ends with a node painted black that is the root or red.
LEMMA NodePainted ==
    ASSUME NEW t, NEW ns, NEW n, NEW a, Sound(t, ns, "delete_fixup", n, a),
           n # None, n = t.root \/ t.color[n] = RED
    PROVE  LET r == Paint(t, {n}, BLACK)
           IN  /\ \E sub : Ordered(r, ns, sub)
               /\ \E h : Balanced(r, ns, h, "left", None)
               /\ Clashes(r, ns) = {}
  <1> DEFINE r == Paint(t, {n}, BLACK)
             gs == IF a = None THEN "left" ELSE SideOf(t, n, a)
  <1>1. PICK sub : Ordered(t, ns, sub)
    BY DEF Sound
  <1>2. /\ n \in ns /\ a = t.parent[n]
        /\ \A x \in Clashes(t, ns) : x = n \/ t.parent[x] = n
    BY DEF Sound
  <1>3. PICK h : Balanced(t, ns, h, gs, a)
    BY DEF Sound
  <1>4. \/ n = t.root /\ a = None
        \/ n # t.root /\ a = t.parent[n] /\ gs = SideOf(t, n, a) /\ t.color[n] = RED
    BY <1>1, <1>2, ParentFacts
  <1> HIDE DEF r, gs
  <1>5. LET c == Paint(t, {n}, BLACK)
        IN  /\ Ordered(c, ns, sub)
            /\ \E h2 : Balanced(c, ns, h2, "left", None)
            /\ Clashes(c, ns) = {}
    BY <1>1, <1>2, <1>3, <1>4, BlackMends
  <1>6. /\ Ordered(r, ns, sub)
        /\ \E h2 : Balanced(r, ns, h2, "left", None)
        /\ Clashes(r, ns) = {}
    BY <1>5 DEF r
  <1> QED
    BY <1>6 DEF r

\* The last write of treemap_delete_fixup keeps the tree sound.
LEMMA TreeStepFixupEnd ==
    ASSUME TreeInv, DeleteFixupEnd
    PROVE  TreeInv'
  <1> DEFINE ns == allocated
             s == SideOf(tree, node, above)
  <1>1. PICK sub : Ordered(tree, ns, sub)
    BY DEF TreeInv, Sound
  <1>2. /\ pc = "delete_fixup" /\ ~BlackMissing /\ allocated' = ns /\ pc' = "idle"
        /\ node' = None /\ above' = None /\ tree' = Paint(tree, {node}, BLACK)
    BY DEF DeleteFixupEnd, Return
  <1>3. /\ node # None => node \in ns /\ above = tree.parent[node]
        /\ above # None => above \in ns
        /\ \A x \in Clashes(tree, ns) : node # None /\ (x = node \/ tree.parent[x] = node)
        /\ ns \subseteq Keys /\ None \notin ns /\ None \in KeyOrNone
        /\ \A x \in ns : tree.color[x] \in {RED, BLACK}
    BY <1>1, <1>2, NoneApart DEF TreeInv, Sound, Ordered
  <1>4. PICK h : Balanced(tree, ns, h, IF above = None THEN "left" ELSE s, above)
    BY <1>2 DEF TreeInv, Sound
  <1>5. CASE node # None
    <2>1. node = tree.root \/ tree.color[node] = RED
      <3>1. above = None <=> node = tree.root
        BY <1>1, <1>3, <1>5, ParentFacts
      <3> QED
        BY <3>1, <1>2, <1>3, <1>5 DEF BlackMissing, ColorOf
    <2>2. Sound(tree, ns, "delete_fixup", node, above)
      BY <1>2 DEF TreeInv
    <2>3. LET r == Paint(tree, {node}, BLACK)
          IN  /\ \E sub2 : Ordered(r, ns, sub2)
              /\ \E h2 : Balanced(r, ns, h2, "left", None)
              /\ Clashes(r, ns) = {}
      BY <1>5, <2>1, <2>2, NodePainted
    <2> QED
      BY <2>3, <1>2, <1>3 DEF TreeInv, Sound
  <1>6. CASE node = None
    <2>1. above = None
      <3>1. SUFFICES ASSUME above # None PROVE FALSE
        OBVIOUS
      <3>2. tree.root = None
        BY <3>1, <1>2, <1>6 DEF BlackMissing, ColorOf
      <3> QED
        BY <3>1, <3>2, <1>1, <1>3 DEF Ordered
    <2>2. Balanced(tree, ns, h, "left", None) /\ Clashes(tree, ns) = {}
      BY <2>1, <1>3, <1>4, <1>6
    <2> DEFINE r == Paint(tree, {None}, BLACK)
    <2>3. /\ Ordered(r, ns, sub)
          /\ r.root = tree.root /\ r.parent = tree.parent /\ r.child = tree.child
          /\ \A x \in Keys : r.color[x] = IF x \in {None} THEN BLACK ELSE tree.color[x]
      <3> DEFINE S == {None}
      <3>1. S \cap Keys \subseteq ns
        BY NoneApart
      <3> HIDE DEF S
      <3>2. LET c == Paint(tree, S, BLACK)
            IN  /\ Ordered(c, ns, sub)
                /\ c.root = tree.root /\ c.parent = tree.parent /\ c.child = tree.child
                /\ \A x \in Keys : c.color[x] = IF x \in S THEN BLACK ELSE tree.color[x]
        BY ONLY <3>1, <1>1, PaintOrdered
      <3> QED
        BY <3>2 DEF S
    <2> HIDE DEF r
    <2>4. \A x \in ns : r.color[x] = tree.color[x]
      BY <2>3, <1>3
    <2>5. Balanced(r, ns, h, "left", None)
      BY <2>2, <2>3, <2>4 DEF Balanced, Height, Weight
    <2>6. Clashes(r, ns) = {}
      <3>1. ASSUME NEW x \in Clashes(r, ns) PROVE FALSE
        <4>1. x \in ns /\ tree.color[x] = RED
              /\ (x = tree.root \/ r.color[tree.parent[x]] = RED)
          BY <2>3, <2>4 DEF Clashes
        <4>2. x # tree.root => tree.parent[x] \in ns
          BY <4>1, <1>1 DEF Ordered
        <4> QED
          BY <2>2, <2>4, <4>1, <4>2 DEF Clashes
      <3> QED
        BY <3>1
    <2> QED
      BY <2>3, <2>5, <2>6, <1>2, <1>3, <1>6 DEF TreeInv, Sound, r
  <1> QED
    BY <1>5, <1>6

\* The empty tree is sound.
LEMMA EmptySound ==
    /\ \E sub : Ordered(NoTree, {}, sub)
    /\ \E h : Balanced(NoTree, {}, h, "left", None)
    /\ Clashes(NoTree, {}) = {}
  <1>1. NoTree \in Trees /\ NoTree.root = None
    BY NoneApart DEF NoTree, NoNode, Trees
  <1>2. \A n \in Keys : /\ \A s \in Sides : NoTree.child[s][n] = None
                        /\ NoTree.parent[n] = None /\ NoTree.color[n] = None
    BY DEF NoTree, NoNode
  <1> DEFINE sub == [x \in Keys |-> {}]
             h == [x \in KeyOrNone |-> 0]
  <1>3. sub \in [Keys -> SUBSET Keys]
    OBVIOUS
  <1>4. Ordered(NoTree, {}, sub)
    BY <1>1, <1>2, <1>3 DEF Ordered
  <1>5. Balanced(NoTree, {}, h, "left", None)
    BY NoneApart DEF Balanced
  <1>6. Clashes(NoTree, {}) = {}
    BY DEF Clashes
  <1> QED
    BY <1>4, <1>5, <1>6

-----------------------------------------------------------------------------
(* The inductive invariant: the nodes, their values and the calls *)

Holding(ns, vals, v) == {n \in ns : vals[n] = v}

\* The copies of values are those that the nodes ns hold.
Copies(ns, vals, live) ==
    /\ ns \subseteq Keys
    /\ vals \in [Keys -> Values \cup {None}]
    /\ \A n \in ns : vals[n] \in Values
    /\ \A n \in Keys \ ns : vals[n] = None
    /\ live \in [Values -> Int]
    /\ \A v \in Values : live[v] = Cardinality(Holding(ns, vals, v))

\* The values, their copies and the size are those of the allocated nodes.
CopyInv == Copies(allocated, value, liveValues) /\ size = Cardinality(allocated)

\* Nodes are finite in number, and so are those that hold one value.
LEMMA NodesCounted ==
    ASSUME NEW ns, ns \subseteq Keys
    PROVE  /\ IsFiniteSet(ns) /\ Cardinality(ns) \in Nat
           /\ \A vals, v : IsFiniteSet(Holding(ns, vals, v))
  <1>1. IsFiniteSet(ns)
    BY KeysCounted, FS_Subset
  <1>2. \A vals, v : Holding(ns, vals, v) \subseteq ns
    BY DEF Holding
  <1> QED
    BY <1>1, <1>2, FS_Subset, FS_CardinalityType

\* No node but k comes, goes or changes its value; k gives up the value old and
\* gets new, and a copy of each is counted.
Moves(ns, vals, live, ns2, vals2, live2, k, old, new) ==
    /\ old = (IF k \in ns THEN vals[k] ELSE None)
    /\ new = (IF k \in ns2 THEN vals2[k] ELSE None)
    /\ ns2 \ {k} = ns \ {k}
    /\ vals2 \in [Keys -> Values \cup {None}]
    /\ \A n \in Keys \ {k} : vals2[n] = vals[n]
    /\ k \in ns2 => vals2[k] \in Values
    /\ k \notin ns2 => vals2[k] = None
    /\ live2 \in [Values -> Int]
    /\ \A v \in Values : live2[v] = live[v] - (IF v = old THEN 1 ELSE 0)
                                          + (IF v = new THEN 1 ELSE 0)

\* Then the copies remain right.
LEMMA CopiesMove ==
    ASSUME NEW ns, NEW vals, NEW live, Copies(ns, vals, live),
           NEW ns2, NEW vals2, NEW live2, NEW k \in Keys, NEW old, NEW new,
           Moves(ns, vals, live, ns2, vals2, live2, k, old, new)
    PROVE  /\ Copies(ns2, vals2, live2)
           /\ Cardinality(ns2) = Cardinality(ns) - (IF k \in ns THEN 1 ELSE 0)
                                                 + (IF k \in ns2 THEN 1 ELSE 0)
  <1> USE DEF Moves
  <1>1. ns \subseteq Keys /\ ns2 \subseteq Keys
    BY DEF Copies
  <1>2. Cardinality(ns2) = Cardinality(ns) - (IF k \in ns THEN 1 ELSE 0)
                                           + (IF k \in ns2 THEN 1 ELSE 0)
    BY <1>1, NodesCounted, CountOneChange
  <1>3. ASSUME NEW v \in Values
        PROVE  live2[v] = Cardinality(Holding(ns2, vals2, v))
    <2> DEFINE S == Holding(ns, vals, v)
               T == Holding(ns2, vals2, v)
    <2>1. S \ {k} = T \ {k}
      BY <1>1 DEF Holding
    <2>2. (k \in S <=> v = old) /\ (k \in T <=> v = new)
      <3>1. v # None
        BY TreeMapAssumption DEF TreeMapAssumption
      <3> QED
        BY <3>1 DEF Holding
    <2>3. IsFiniteSet(S)
      BY <1>1, NodesCounted
    <2>4. live[v] = Cardinality(S)
      BY DEF Copies
    <2> HIDE DEF S, T
    <2>5. /\ Cardinality(S) \in Nat /\ Cardinality(T) \in Nat
          /\ Cardinality(T) = Cardinality(S) - (IF k \in S THEN 1 ELSE 0)
                                             + (IF k \in T THEN 1 ELSE 0)
      BY ONLY <2>1, <2>3, CountOneChange
    <2>6. live2[v] = Cardinality(T)
      BY <2>2, <2>4, <2>5
    <2> QED
      BY <2>6 DEF T
  <1>4. (\A n \in ns2 : vals2[n] \in Values) /\ (\A n \in Keys \ ns2 : vals2[n] = None)
    BY <1>1 DEF Copies
  <1> QED
    BY <1>1, <1>2, <1>3, <1>4 DEF Copies

\* The node k gets the value v for the one it had.
LEMMA CopiesReplaced ==
    ASSUME NEW ns, NEW vals, NEW live, Copies(ns, vals, live),
           NEW k \in ns, NEW v \in Values, NEW live2,
           \/ live2 = [[live EXCEPT ![v] = @ + 1] EXCEPT ![vals[k]] = @ - 1]
           \/ live2 = [[live EXCEPT ![vals[k]] = @ - 1] EXCEPT ![v] = @ + 1]
    PROVE  Copies(ns, [vals EXCEPT ![k] = v], live2)
  <1> DEFINE w == vals[k]
             vals2 == [vals EXCEPT ![k] = v]
  <1>1. k \in Keys /\ w \in Values /\ live \in [Values -> Int]
        /\ vals \in [Keys -> Values \cup {None}]
    BY DEF Copies
  <1>2. /\ live2 \in [Values -> Int]
        /\ \A x \in Values : live2[x] = live[x] - (IF x = w THEN 1 ELSE 0)
                                                + (IF x = v THEN 1 ELSE 0)
    <2> HIDE DEF w
    <2>1. live2 = [[live EXCEPT ![v] = @ + 1] EXCEPT ![w] = @ - 1]
          \/ live2 = [[live EXCEPT ![w] = @ - 1] EXCEPT ![v] = @ + 1]
      BY DEF w
    <2>2. ASSUME NEW a \in Values, NEW b \in Values, NEW i \in Int, NEW j \in Int,
                 live2 = [[live EXCEPT ![a] = @ + i] EXCEPT ![b] = @ + j]
          PROVE  /\ live2 \in [Values -> Int]
                 /\ \A x \in Values : live2[x] = live[x] + (IF x = a THEN i ELSE 0)
                                                         + (IF x = b THEN j ELSE 0)
      <3> DEFINE l == [live EXCEPT ![a] = @ + i]
      <3>1. l \in [Values -> Int]
            /\ \A x \in Values : l[x] = live[x] + (IF x = a THEN i ELSE 0)
        BY <1>1
      <3>2. live2 = [l EXCEPT ![b] = @ + j]
        BY <2>2
      <3> HIDE DEF l
      <3>3. live2 \in [Values -> Int]
            /\ \A x \in Values : live2[x] = l[x] + (IF x = b THEN j ELSE 0)
        BY <3>1, <3>2
      <3> QED
        BY <3>1, <3>3
    <2>3. \A x \in Int : x - 1 = x + (-1)
      OBVIOUS
    <2>4. CASE live2 = [[live EXCEPT ![v] = @ + 1] EXCEPT ![w] = @ - 1]
      <3> DEFINE l == [live EXCEPT ![v] = @ + 1]
      <3>1. l[w] \in Int /\ l \in [Values -> Int]
        BY <1>1
      <3>2. live2 = [l EXCEPT ![w] = @ + (-1)]
        BY <2>4, <3>1, <2>3
      <3>3. live2 \in [Values -> Int]
            /\ \A x \in Values : live2[x] = live[x] + (IF x = v THEN 1 ELSE 0)
                                                    + (IF x = w THEN -1 ELSE 0)
        BY <1>1, <3>2, <2>2
      <3>4. \A x \in Values : live[x] \in Int
        BY <1>1
      <3> QED
        BY <3>3, <3>4
    <2>5. CASE live2 = [[live EXCEPT ![w] = @ - 1] EXCEPT ![v] = @ + 1]
      <3>1. live[w] \in Int /\ live[w] - 1 = live[w] + (-1)
        BY <1>1
      <3>2. live2 = [[live EXCEPT ![w] = @ + (-1)] EXCEPT ![v] = @ + 1]
        BY <2>5, <3>1
      <3>3. live2 \in [Values -> Int]
            /\ \A x \in Values : live2[x] = live[x] + (IF x = w THEN -1 ELSE 0)
                                                    + (IF x = v THEN 1 ELSE 0)
        BY <1>1, <3>2, <2>2
      <3>4. \A x \in Values : live[x] \in Int
        BY <1>1
      <3> QED
        BY <3>3, <3>4
    <2> QED
      BY <2>1, <2>4, <2>5
  <1>3. /\ vals2 \in [Keys -> Values \cup {None}] /\ vals2[k] = v
        /\ \A n \in Keys \ {k} : vals2[n] = vals[n]
    BY <1>1
  <1>4. /\ w = (IF k \in ns THEN vals[k] ELSE None)
        /\ v = (IF k \in ns THEN vals2[k] ELSE None)
    BY <1>3
  <1> HIDE DEF w, vals2
  <1>5. Copies(ns, vals2, live2)
    <2>1. Moves(ns, vals, live, ns, vals2, live2, k, w, v)
      BY ONLY k \in ns, v \in Values, <1>1, <1>2, <1>3, <1>4 DEF Moves
    <2> QED
      BY ONLY Copies(ns, vals, live), <1>1, <2>1, CopiesMove
  <1> QED
    BY <1>5 DEF vals2

\* A node k comes with the value v.
LEMMA CopiesInserted ==
    ASSUME NEW ns, NEW vals, NEW live, Copies(ns, vals, live),
           NEW k \in Keys \ ns, NEW v \in Values
    PROVE  /\ Copies(ns \cup {k}, [vals EXCEPT ![k] = v], [live EXCEPT ![v] = @ + 1])
           /\ Cardinality(ns \cup {k}) = Cardinality(ns) + 1
  <1> DEFINE vals2 == [vals EXCEPT ![k] = v]
             live2 == [live EXCEPT ![v] = @ + 1]
             ms == ns \cup {k}
             old == None
  <1>1. live \in [Values -> Int] /\ vals \in [Keys -> Values \cup {None}]
        /\ \A x \in Values : x # None
    BY TreeMapAssumption DEF Copies, TreeMapAssumption
  <1>2. /\ live2 \in [Values -> Int]
        /\ \A x \in Values : live2[x] = live[x] - (IF x = old THEN 1 ELSE 0)
                                                + (IF x = v THEN 1 ELSE 0)
    BY <1>1
  <1>3. /\ vals2 \in [Keys -> Values \cup {None}] /\ vals2[k] = v
        /\ \A n \in Keys \ {k} : vals2[n] = vals[n]
    BY <1>1
  <1>4. /\ old = (IF k \in ns THEN vals[k] ELSE None)
        /\ v = (IF k \in ms THEN vals2[k] ELSE None)
        /\ k \in ms /\ k \notin ns /\ ms \ {k} = ns \ {k} /\ k \in Keys
    BY <1>3
  <1>5. Cardinality(ns) \in Nat
    BY NodesCounted DEF Copies
  <1> HIDE DEF vals2, live2, ms, old
  <1>6. /\ Copies(ms, vals2, live2)
        /\ Cardinality(ms) = Cardinality(ns) - (IF k \in ns THEN 1 ELSE 0)
                                             + (IF k \in ms THEN 1 ELSE 0)
    <2>1. Moves(ns, vals, live, ms, vals2, live2, k, old, v)
      BY ONLY v \in Values, <1>2, <1>3, <1>4 DEF Moves
    <2> QED
      BY ONLY Copies(ns, vals, live), <1>4, <2>1, CopiesMove
  <1>7. Cardinality(ms) = Cardinality(ns) + 1
    BY <1>4, <1>5, <1>6
  <1> QED
    BY <1>6, <1>7 DEF vals2, live2, ms

\* The node k goes with its value.
LEMMA CopiesDeleted ==
    ASSUME NEW ns, NEW vals, NEW live, Copies(ns, vals, live), NEW k \in ns
    PROVE  /\ Copies(ns \ {k}, [vals EXCEPT ![k] = None],
                     [live EXCEPT ![vals[k]] = @ - 1])
           /\ Cardinality(ns \ {k}) = Cardinality(ns) - 1
  <1> DEFINE vals2 == [vals EXCEPT ![k] = None]
             live2 == [live EXCEPT ![vals[k]] = @ - 1]
             ms == ns \ {k}
             old == vals[k]
             new == None
  <1>1. live \in [Values -> Int] /\ vals \in [Keys -> Values \cup {None}]
        /\ k \in Keys /\ old \in Values /\ \A x \in Values : x # None
    BY TreeMapAssumption DEF Copies, TreeMapAssumption
  <1>2. /\ live2 \in [Values -> Int]
        /\ \A x \in Values : live2[x] = live[x] - (IF x = old THEN 1 ELSE 0)
                                                + (IF x = new THEN 1 ELSE 0)
    BY <1>1
  <1>3. /\ vals2 \in [Keys -> Values \cup {None}] /\ vals2[k] = None
        /\ \A n \in Keys \ {k} : vals2[n] = vals[n]
    BY <1>1
  <1>4. /\ old = (IF k \in ns THEN vals[k] ELSE None)
        /\ new = (IF k \in ms THEN vals2[k] ELSE None)
        /\ k \notin ms /\ k \in ns /\ ms \ {k} = ns \ {k} /\ k \in Keys
        /\ (k \in ms => vals2[k] \in Values) /\ (k \notin ms => vals2[k] = None)
    BY <1>1, <1>3
  <1>5. Cardinality(ns) \in Nat
    BY NodesCounted DEF Copies
  <1> HIDE DEF vals2, live2, ms, old, new
  <1>6. /\ Copies(ms, vals2, live2)
        /\ Cardinality(ms) = Cardinality(ns) - (IF k \in ns THEN 1 ELSE 0)
                                             + (IF k \in ms THEN 1 ELSE 0)
    <2>1. Moves(ns, vals, live, ms, vals2, live2, k, old, new)
      BY ONLY <1>2, <1>3, <1>4 DEF Moves
    <2> QED
      BY ONLY Copies(ns, vals, live), <1>4, <2>1, CopiesMove
  <1>7. Cardinality(ms) = Cardinality(ns) - 1
    BY <1>4, <1>5, <1>6
  <1> QED
    BY <1>6, <1>7 DEF vals2, live2, ms

\* All nodes go with their values.
LEMMA CopiesCleared ==
    ASSUME NEW ns, NEW vals, NEW live, Copies(ns, vals, live)
    PROVE  /\ Copies({}, [n \in Keys |-> IF n \in ns THEN None ELSE vals[n]],
                     [v \in Values |-> live[v] - Cardinality({n \in ns : vals[n] = v})])
           /\ Cardinality({}) = 0
  <1> DEFINE vals2 == [n \in Keys |-> IF n \in ns THEN None ELSE vals[n]]
             live2 == [v \in Values |-> live[v] - Cardinality({n \in ns : vals[n] = v})]
  <1>1. vals2 \in [Keys -> Values \cup {None}] /\ \A n \in Keys : vals2[n] = None
    BY DEF Copies
  <1>2. \A v \in Values : live2[v] = 0
    <2> SUFFICES ASSUME NEW v \in Values PROVE live2[v] = 0
      OBVIOUS
    <2>1. live[v] = Cardinality(Holding(ns, vals, v)) /\ live[v] \in Int
      BY DEF Copies
    <2> QED
      BY <2>1 DEF Holding
  <1>3. \A v : Holding({}, vals2, v) = {}
    BY DEF Holding
  <1>4. live2 \in [Values -> Int]
    BY <1>2
  <1>5. Cardinality({}) = 0
    BY FS_EmptySet
  <1> HIDE DEF vals2, live2
  <1>6. Copies({}, vals2, live2)
    BY <1>1, <1>2, <1>3, <1>4, <1>5 DEF Copies
  <1> QED
    BY <1>5, <1>6 DEF vals2, live2

\* Where a call stands.
ControlInv ==
    /\ pc \in {"idle", "set", "delete", "clear", "destroy", "insert_fixup",
               "delete_fixup"}
    /\ call \in [op : {"init", "set", "delete", "clear", "destroy"}, key : KeyOrNone,
                 value : Values \cup {None}, ret : {"ok", "error", "pending"}]
    /\ pc = "idle" <=> call.ret # "pending"
    /\ pc \in {"set", "delete", "clear", "destroy"} => call.op = pc
    /\ pc = "insert_fixup" => call.op = "set"
    /\ pc = "delete_fixup" => call.op = "delete"

\* The inductive invariant of TreeMap.
IInv == TreeInv /\ CopyInv /\ ControlInv

\* A search finds the allocated keys, and a clear reaches their nodes.
LEMMA AllocatedFound ==
    ASSUME TreeInv
    PROVE  /\ Reached(tree) = allocated /\ allocated \subseteq Keys
           /\ \A k \in Keys : Found(tree, k) <=> k \in allocated
  <1>1. PICK sub : Ordered(tree, allocated, sub)
    BY DEF TreeInv, Sound
  <1>2. Reached(tree) = allocated
    BY <1>1, ReachedIs
  <1>3. \A k \in Keys : Found(tree, k) <=> k \in allocated
    BY <1>1, FoundIs
  <1>4. allocated \subseteq Keys
    BY <1>1 DEF Ordered
  <1> QED
    BY <1>2, <1>3, <1>4

\* treemap_init establishes it.
LEMMA InitInv == Init => IInv
  <1> SUFFICES ASSUME Init PROVE IInv
    OBVIOUS
  <1>1. TreeInv
    <2>1. pc = "idle" /\ tree = NoTree /\ allocated = {} /\ node = None /\ above = None
      BY DEF Init
    <2> QED
      BY <2>1, EmptySound, NoneApart DEF TreeInv, Sound
  <1>2. CopyInv
    <2>1. \A v \in Values : Holding({}, value, v) = {}
      BY DEF Holding
    <2>2. Cardinality({}) = 0
      BY FS_EmptySet
    <2> QED
      BY <2>1, <2>2 DEF Init, CopyInv, Copies, NoNode
  <1>3. ControlInv
    BY NoneApart DEF Init, ControlInv
  <1> QED
    BY <1>1, <1>2, <1>3 DEF IInv

\* Every step keeps the tree sound.
LEMMA TreeStep ==
    ASSUME IInv, [Next]_vars
    PROVE  TreeInv'
  <1>1. TreeInv /\ call.key \in KeyOrNone /\ node \in KeyOrNone /\ above \in KeyOrNone
    BY DEF IInv, ControlInv, TreeInv, Sound
  <1> DEFINE quiet == /\ pc \notin {"insert_fixup", "delete_fixup"}
                      /\ pc' \notin {"insert_fixup", "delete_fixup"}
                      /\ UNCHANGED <<tree, allocated>>
                      /\ node' \in KeyOrNone /\ above' \in KeyOrNone
  <1>2. ASSUME quiet PROVE TreeInv'
    <2>1. /\ \E sub : Ordered(tree, allocated, sub)
          /\ \E h : Balanced(tree, allocated, h, "left", None)
          /\ Clashes(tree, allocated) = {}
      BY <1>1, <1>2, SoundIdle DEF TreeInv
    <2>2. Sound(tree, allocated, pc', node', above')
      BY <2>1, <1>2, SoundIdle
    <2> QED
      BY <2>2, <1>2 DEF TreeInv
  <1>3. CASE Calls
    <2>1. quiet
      BY <1>1, <1>3 DEF Calls, Call, fixup
    <2> QED
      BY <2>1, <1>2
  <1>4. CASE SetFails \/ SetReplace \/ DeleteMissing
    <2>1. quiet
      BY <1>4, NoneApart DEF SetFails, SetReplace, DeleteMissing, Fail, Return
    <2> QED
      BY <2>1, <1>2
  <1>5. CASE SetInsert \/ InsertFixup \/ InsertFixupEnd
    BY <1>1, <1>5, TreeStepInsert
  <1>6. CASE Delete
    BY <1>1, <1>6, TreeStepDelete
  <1>7. CASE DeleteFixup
    BY <1>1, <1>7, TreeStepFixup
  <1>8. CASE DeleteFixupEnd
    BY <1>1, <1>8, TreeStepFixupEnd
  <1>9. CASE Clear
    <2>1. /\ tree' = NoTree /\ allocated' = allocated \ Reached(tree)
          /\ pc' = "idle" /\ node' = None /\ above' = None
      BY <1>9 DEF Clear, Return
    <2>2. allocated' = {}
      BY <2>1, <1>1, AllocatedFound
    <2> QED
      BY <2>1, <2>2, EmptySound, NoneApart DEF TreeInv, Sound
  <1>10. CASE UNCHANGED vars
    <2>1. tree' = tree /\ allocated' = allocated /\ pc' = pc /\ node' = node /\ above' = above
      BY <1>10 DEF vars, fixup
    <2> QED
      BY <2>1, <1>1 DEF TreeInv
  <1> QED
    BY <1>3, <1>4, <1>5, <1>6, <1>7, <1>8, <1>9, <1>10 DEF Next, Body

\* Every step keeps the copies those of the nodes.
LEMMA CopyStep ==
    ASSUME IInv, [Next]_vars
    PROVE  CopyInv'
  <1>1. /\ TreeInv /\ ControlInv
        /\ Copies(allocated, value, liveValues) /\ size = Cardinality(allocated)
    BY DEF IInv, CopyInv
  <1>2. /\ Reached(tree) = allocated /\ allocated \subseteq Keys
        /\ \A k \in Keys : Found(tree, k) <=> k \in allocated
    BY <1>1, AllocatedFound
  <1>3. ASSUME UNCHANGED <<size, value, allocated, liveValues>> PROVE CopyInv'
    BY <1>1, <1>3 DEF CopyInv
  <1>4. CASE SetReplace
    <2> DEFINE k == call.key
    <2>1. k \in allocated /\ call.value \in Values
      BY <1>1, <1>2, <1>4 DEF SetReplace, ControlInv, KeyOrNone
    <2>2. /\ liveValues' = [[liveValues EXCEPT ![call.value] = @ + 1]
                              EXCEPT ![value[k]] = @ - 1]
          /\ value' = [value EXCEPT ![k] = call.value]
          /\ UNCHANGED <<size, allocated>>
      BY <1>4 DEF SetReplace
    <2> HIDE DEF k
    <2>3. Copies(allocated, value', liveValues')
      BY ONLY <1>1, <2>1, <2>2, CopiesReplaced
    <2> QED
      BY <1>1, <2>2, <2>3 DEF CopyInv
  <1>5. CASE SetInsert
    <2> DEFINE k == call.key
    <2>1. k \in Keys \ allocated /\ call.value \in Values
      BY <1>1, <1>2, <1>5 DEF SetInsert, ControlInv, KeyOrNone
    <2>2. /\ liveValues' = [liveValues EXCEPT ![call.value] = @ + 1]
          /\ value' = [value EXCEPT ![k] = call.value]
          /\ allocated' = allocated \cup {k} /\ size' = size + 1
      BY <1>5 DEF SetInsert
    <2> HIDE DEF k
    <2>3. Copies(allocated', value', liveValues') /\ size' = Cardinality(allocated')
      BY ONLY <1>1, <2>1, <2>2, CopiesInserted
    <2> QED
      BY <2>3 DEF CopyInv
  <1>6. CASE Delete
    <2> DEFINE k == call.key
    <2>1. k \in allocated
      BY <1>1, <1>2, <1>6 DEF Delete, ControlInv, KeyOrNone
    <2>2. /\ liveValues' = [liveValues EXCEPT ![value[k]] = @ - 1]
          /\ value' = [value EXCEPT ![k] = None]
          /\ allocated' = allocated \ {k} /\ size' = size - 1
      BY <1>6 DEF Delete
    <2> HIDE DEF k
    <2>3. Copies(allocated', value', liveValues') /\ size' = Cardinality(allocated')
      BY ONLY <1>1, <2>1, <2>2, CopiesDeleted
    <2> QED
      BY <2>3 DEF CopyInv
  <1>7. CASE Clear
    <2>1. /\ liveValues' = [v \in Values |->
                liveValues[v] - Cardinality({n \in allocated : value[n] = v})]
          /\ allocated' = {} /\ size' = 0
          /\ value' = [n \in Keys |-> IF n \in allocated THEN None ELSE value[n]]
      BY <1>2, <1>7 DEF Clear
    <2>2. Copies(allocated', value', liveValues') /\ size' = Cardinality(allocated')
      BY ONLY <1>1, <2>1, CopiesCleared
    <2> QED
      BY <2>2 DEF CopyInv
  <1>8. CASE Calls
    BY <1>3, <1>8 DEF Calls, Call
  <1>9. CASE SetFails \/ InsertFixup \/ InsertFixupEnd \/ DeleteMissing
              \/ DeleteFixup \/ DeleteFixupEnd
    <2>1. UNCHANGED <<size, value, allocated, liveValues>>
      BY <1>9 DEF SetFails, InsertFixup, InsertFixupEnd, DeleteMissing, DeleteFixup,
                   DeleteFixupEnd, Fail
    <2> QED
      BY <2>1, <1>3
  <1>10. CASE UNCHANGED vars
    BY <1>3, <1>10 DEF vars
  <1> QED
    BY <1>4, <1>5, <1>6, <1>7, <1>8, <1>9, <1>10 DEF Next, Body

\* Every step keeps the control where a call can stand.
LEMMA ControlStep ==
    ASSUME IInv, [Next]_vars
    PROVE  ControlInv'
  <1>1. ControlInv
    BY DEF IInv
  <1>2. CASE Calls
    <2>1. \A e \in Entries : e[1] \in KeyOrNone /\ e[2] \in Values \cup {None}
      BY TreeMapAssumption DEF TreeMapAssumption, KeyOrNone
    <2>2. None \in KeyOrNone /\ KeyOrNone = Keys \cup {None}
      BY NoneApart DEF KeyOrNone
    <2>3. PICK op \in {"set", "delete", "clear", "destroy"}, k \in KeyOrNone,
               v \in Values \cup {None} : Call(op, k, v)
      BY <1>2, <2>1, <2>2 DEF Calls
    <2> QED
      BY <2>3 DEF Call, ControlInv
  <1>3. ASSUME NEW ret \in {"ok", "error"}, Return(ret) PROVE ControlInv'
    <2>1. call' = [call EXCEPT !.ret = ret] /\ pc' = "idle"
      BY <1>3 DEF Return
    <2> QED
      BY <1>1, <2>1 DEF ControlInv
  <1>4. CASE SetFails \/ DeleteMissing
    BY <1>3, <1>4 DEF SetFails, DeleteMissing, Fail
  <1>5. CASE SetReplace \/ InsertFixupEnd \/ DeleteFixupEnd \/ Clear
    BY <1>3, <1>5 DEF SetReplace, InsertFixupEnd, DeleteFixupEnd, Clear
  <1>6. CASE SetInsert
    BY <1>1, <1>6 DEF SetInsert, ControlInv
  <1>7. CASE InsertFixup
    BY <1>1, <1>7 DEF InsertFixup, ControlInv
  <1>8. CASE DeleteFixup
    BY <1>1, <1>8 DEF DeleteFixup, ControlInv
  <1>9. CASE Delete
    <2>1. pc = "delete" /\ ((pc' = "delete_fixup" /\ call' = call) \/ Return("ok"))
      BY <1>9 DEF Delete
    <2> QED
      BY <2>1, <1>1, <1>3 DEF ControlInv
  <1>10. CASE UNCHANGED vars
    BY <1>1, <1>10 DEF vars, ControlInv
  <1> QED
    BY <1>2, <1>4, <1>5, <1>6, <1>7, <1>8, <1>9, <1>10 DEF Next, Body

\* Nothing a call of treemap.c does breaks it.
LEMMA IInvHolds == Spec => []IInv
  <1>1. IInv /\ [Next]_vars => IInv'
    BY TreeStep, CopyStep, ControlStep DEF IInv
  <1> QED
    BY <1>1, InitInv, PTL DEF Spec

-----------------------------------------------------------------------------
(* What follows from it *)

\* A search tree is linked.
LEMMA OrderedLinked ==
    ASSUME NEW t, NEW ns, NEW sub, Ordered(t, ns, sub)
    PROVE  IsLinked(t, ns)
  <1>1. Reached(t) = ns
    BY ReachedIs
  <1>2. \A n \in ns \ {t.root} : n \in {t.child[s][t.parent[n]] : s \in Sides}
    BY DEF Ordered
  <1>3. t.root # None => t.parent[t.root] = None
    BY DEF Ordered
  <1>4. \A n \in ns, s \in Sides : t.child[s][n] # None => t.parent[t.child[s][n]] = n
    BY DEF Ordered
  <1> QED
    BY <1>1, <1>2, <1>3, <1>4 DEF IsLinked

\* The tree has the shape that src/treemap.c relies on, its nodes are those that are
\* allocated, and the copies of values are those of the nodes: nothing is
\* leaked, and nothing freed is reachable.
THEOREM LinkedHolds == Spec => []Linked
  <1>1. IInv => Linked
    <2> SUFFICES ASSUME IInv PROVE Linked
      OBVIOUS
    <2>1. TreeInv /\ CopyInv /\ ControlInv
      BY DEF IInv
    <2>2. PICK sub : Ordered(tree, allocated, sub)
      BY <2>1 DEF TreeInv, Sound
    <2>3. TypeOK
      <3>1. tree \in Trees
        BY <2>2 DEF Ordered
      <3>2. node \in Keys \cup {None} /\ above \in Keys \cup {None}
        BY <2>1 DEF TreeInv, Sound, KeyOrNone
      <3>3. size \in 0 .. Cardinality(Keys)
        <4>1. Cardinality(allocated) <= Cardinality(Keys) /\ IsFiniteSet(allocated)
          BY <2>1, KeysCounted, FS_Subset DEF CopyInv, Copies
        <4>2. Cardinality(allocated) \in Nat
          BY <4>1, FS_CardinalityType
        <4> QED
          BY <2>1, <4>1, <4>2, KeysCounted DEF CopyInv, Copies, KeyCount
      <3> QED
        BY <2>1, <3>1, <3>2, <3>3 DEF TypeOK, CopyInv, Copies, ControlInv
    <2>4. IsLinked(tree, allocated)
      BY <2>2, OrderedLinked
    <2> QED
      BY <2>1, <2>3, <2>4 DEF Linked, CopyInv, Copies, Holding
  <1> QED
    BY <1>1, IInvHolds, PTL

-----------------------------------------------------------------------------
(* The refinement of MapSpec *)

\* The abstract map and call that TreeMap!Map names.
Contents == [k \in Keys |-> At(k)]
MapCall == [call EXCEPT !.ret = IF pc \in {"insert_fixup", "delete_fixup"} THEN "ok"
                                ELSE @]

\* The abstract map holds the values of the allocated nodes.
LEMMA ContentsAre ==
    ASSUME IInv
    PROVE  /\ Contents = value
           /\ \A k \in Keys : (k \in allocated <=> value[k] # None)
           /\ Map!Present(Contents) = allocated /\ size = Cardinality(allocated)
  <1>1. TreeInv /\ CopyInv
    BY DEF IInv
  <1>2. \A k \in Keys : At(k) = value[k]
    BY <1>1, AllocatedFound DEF At, CopyInv, Copies
  <1>3. Contents = value
    BY <1>1, <1>2 DEF Contents, CopyInv, Copies
  <1>4. \A k \in Keys : (k \in allocated <=> value[k] # None)
    BY <1>1, TreeMapAssumption DEF CopyInv, Copies, TreeMapAssumption
  <1> HIDE DEF Contents
  <1>5. Map!Present(Contents) = allocated
    BY <1>1, <1>3, <1>4 DEF Map!Present, CopyInv, Copies
  <1> QED
    BY <1>1, <1>3, <1>4, <1>5 DEF CopyInv, Copies

LEMMA ContentsAreNext ==
    ASSUME IInv'
    PROVE  /\ Contents' = value'
           /\ \A k \in Keys : (k \in allocated' <=> value'[k] # None)
           /\ Map!Present(Contents') = allocated' /\ size' = Cardinality(allocated')
  <1>1. (/\ Contents = value
         /\ \A k \in Keys : (k \in allocated <=> value[k] # None)
         /\ Map!Present(Contents) = allocated /\ size = Cardinality(allocated))'
    BY ContentsAre, PTL
  <1>2. Map!Present(Contents)' = Map!Present(Contents')
    BY DEF Map!Present
  <1> QED
    BY <1>1, <1>2

\* MapSpec counts as TreeMap does.
LEMMA SameCardinality ==
    ASSUME NEW S
    PROVE  Map!Cardinality(S) = Cardinality(S)
  BY DEF Map!Cardinality, Cardinality

\* Every step is one of the abstract map or hidden from it.
LEMMA MapStep ==
    ASSUME IInv, IInv', [Next]_vars
    PROVE  [Map!Next]_(Map!mapVars)
  <1>1. /\ Contents = value /\ (\A k \in Keys : (k \in allocated <=> value[k] # None))
        /\ Map!Present(Contents) = allocated /\ size = Cardinality(allocated)
    BY ContentsAre
  <1>2. /\ Contents' = value' /\ (\A k \in Keys : (k \in allocated' <=> value'[k] # None))
        /\ Map!Present(Contents') = allocated' /\ size' = Cardinality(allocated')
    BY ContentsAreNext
  <1>3. TreeInv /\ CopyInv /\ ControlInv
    BY DEF IInv
  <1>4. /\ MapCall.op = call.op /\ MapCall.key = call.key /\ MapCall.value = call.value
        /\ pc \notin {"insert_fixup", "delete_fixup"} => MapCall = call
        /\ pc \in {"insert_fixup", "delete_fixup"} => MapCall = [call EXCEPT !.ret = "ok"]
        /\ pc' \notin {"insert_fixup", "delete_fixup"} => MapCall' = call'
        /\ pc' \in {"insert_fixup", "delete_fixup"} => MapCall' = [call' EXCEPT !.ret = "ok"]
    <2>1. call' \in [op : {"init", "set", "delete", "clear", "destroy"}, key : KeyOrNone,
                     value : Values \cup {None}, ret : {"ok", "error", "pending"}]
      BY DEF IInv, ControlInv
    <2> QED
      BY <1>3, <2>1 DEF ControlInv, MapCall
  <1> DEFINE Answers(ops, ret, c) ==
               /\ call.op \in ops /\ MapCall.ret = "pending"
               /\ MapCall' = [MapCall EXCEPT !.ret = ret]
               /\ Contents' = c /\ size' = Cardinality(Map!Present(c))
  <1>5. ASSUME NEW ops, NEW ret, NEW c, Answers(ops, ret, c)
        PROVE  Map!Answer(ops, ret, c)
    <2>1. MapCall.op \in ops /\ ~(MapCall.ret # "pending")
          /\ MapCall' = [MapCall EXCEPT !.ret = ret]
          /\ Contents' = c /\ size' = Cardinality(Map!Present(c))
      BY <1>4, <1>5
    <2> QED
      BY <2>1, SameCardinality DEF Map!Answer, Map!Idle, MapCall, Contents
  <1>6. ASSUME NEW ops, NEW ret, pc \notin {"idle", "insert_fixup", "delete_fixup"},
               call.op \in ops, Return(ret)
        PROVE  Answers(ops, ret, Contents')
    <2>1. MapCall = call /\ call.ret = "pending" /\ MapCall' = call'
          /\ call' = [call EXCEPT !.ret = ret]
      BY <1>3, <1>4, <1>6 DEF Return, ControlInv
    <2> QED
      BY <2>1, <1>2, <1>6
  <1>7. ASSUME MapCall' = MapCall, UNCHANGED <<value, size>>
        PROVE  UNCHANGED Map!mapVars
    <2>1. Contents' = Contents /\ size' = size
      BY <1>1, <1>2, <1>7
    <2> QED
      BY <2>1, <1>7 DEF Map!mapVars, Contents, MapCall
  <1> HIDE DEF Answers
  <1>8. CASE Calls
    <2>1. None \in KeyOrNone /\ KeyOrNone = Keys \cup {None}
          /\ \A e \in Entries : e[1] \in KeyOrNone /\ e[2] \in Values \cup {None}
      BY NoneApart, TreeMapAssumption DEF TreeMapAssumption, KeyOrNone
    <2>2. PICK op \in {"set", "delete", "clear", "destroy"}, k \in KeyOrNone,
               v \in Values \cup {None} : Call(op, k, v)
      BY <1>8, <2>1 DEF Calls
    <2>3. MapCall = call /\ MapCall' = call' /\ call.ret # "pending"
      BY <2>2, <1>3, <1>4 DEF Call, ControlInv
    <2>4. Contents' = Contents /\ size' = size
      BY <2>2, <1>1, <1>2 DEF Call
    <2>5. call' = [op |-> op, key |-> k, value |-> v, ret |-> "pending"]
      BY <2>2 DEF Call
    <2>6. Map!Call(op, k, v)
      BY <2>3, <2>4, <2>5 DEF Map!Call, Map!Idle, MapCall, Contents
    <2> QED
      BY <2>1, <2>6 DEF Map!Next
  <1>9. CASE SetFails
    <2>1. pc = "set" /\ Return("error") /\ UNCHANGED <<size, value>> /\ call.op = "set"
      BY <1>3, <1>9 DEF SetFails, Fail, ControlInv
    <2>2. Contents' = Contents
      BY <2>1, <1>1, <1>2
    <2>3. Answers({"set", "reserve"}, "error", Contents)
      BY <2>1, <2>2, <1>6
    <2> QED
      BY <2>3, <1>5 DEF Map!Next, Map!Refuse, Contents
  <1>10. CASE SetReplace \/ SetInsert
    <2>1. pc = "set" /\ call.op = "set" /\ call.key \in Keys /\ call.value \in Values
          /\ value' = [value EXCEPT ![call.key] = call.value]
      BY <1>3, <1>10 DEF SetReplace, SetInsert, ControlInv, KeyOrNone
    <2>2. Contents' = [Contents EXCEPT ![call.key] = call.value]
      BY <2>1, <1>1, <1>2
    <2>3. Answers({"set"}, "ok", Contents')
      <3>1. CASE SetReplace
        BY <2>1, <3>1, <1>6 DEF SetReplace
      <3>2. CASE SetInsert
        <4>1. MapCall = call /\ call.ret = "pending" /\ call' = call
              /\ MapCall' = [call' EXCEPT !.ret = "ok"]
          BY <2>1, <3>2, <1>3, <1>4 DEF SetInsert, ControlInv
        <4> QED
          BY <2>1, <4>1, <1>2 DEF Answers
      <3> QED
        BY <1>10, <3>1, <3>2
    <2>4. Map!Answer({"set"}, "ok", [Contents EXCEPT ![MapCall.key] = MapCall.value])
      BY <2>2, <2>3, <1>4, <1>5
    <2>5. MapCall.key \in Keys /\ MapCall.value \in Values
      BY <2>1, <1>4
    <2> QED
      BY <2>4, <2>5 DEF Map!Next, Map!Set, MapCall, Contents
  <1>11. CASE InsertFixup \/ DeleteFixup
    <2>1. UNCHANGED <<value, size, pc, call>>
      BY <1>11 DEF InsertFixup, DeleteFixup
    <2>2. MapCall' = MapCall
      BY <2>1 DEF MapCall
    <2> QED
      BY <2>1, <2>2, <1>7
  <1>12. CASE InsertFixupEnd \/ DeleteFixupEnd
    <2>1. UNCHANGED <<value, size>> /\ pc \in {"insert_fixup", "delete_fixup"} /\ Return("ok")
      BY <1>12 DEF InsertFixupEnd, DeleteFixupEnd
    <2>2. MapCall' = MapCall
      BY <2>1, <1>4 DEF Return
    <2> QED
      BY <2>1, <2>2, <1>7
  <1>13. CASE DeleteMissing
    <2>1. pc = "delete" /\ Return("error") /\ UNCHANGED <<size, value>> /\ call.op = "delete"
      BY <1>3, <1>13 DEF DeleteMissing, Fail, ControlInv
    <2>2. Contents' = Contents
      BY <2>1, <1>1, <1>2
    <2>3. Answers({"delete"}, "error", Contents)
      BY <2>1, <2>2, <1>6
    <2>4. call.key \notin allocated
      <3>1. call.key = None \/ ~Found(tree, call.key)
        BY <1>13 DEF DeleteMissing
      <3>2. allocated \subseteq Keys /\ \A k \in Keys : Found(tree, k) <=> k \in allocated
        BY <1>3, AllocatedFound
      <3> QED
        BY <3>1, <3>2, NoneApart
    <2>5. MapCall.key \notin Map!Present(Contents)
      BY <2>4, <1>1, <1>4
    <2> QED
      BY <2>3, <2>5, <1>5 DEF Map!Next, Map!DeleteMissing, Contents, MapCall
  <1>14. CASE Delete
    <2> DEFINE k == call.key
    <2>1. pc = "delete" /\ call.op = "delete" /\ k \in Keys /\ k \in allocated
          /\ value' = [value EXCEPT ![k] = None]
      BY <1>3, <1>14, AllocatedFound DEF Delete, ControlInv, KeyOrNone
    <2>2. Contents' = [Contents EXCEPT ![k] = None]
      BY <2>1, <1>1, <1>2
    <2>3. (pc' = "delete_fixup" /\ call' = call) \/ Return("ok")
      BY <1>14 DEF Delete
    <2>4. Answers({"delete"}, "ok", Contents')
      <3>1. CASE Return("ok")
        BY <2>1, <3>1, <1>6
      <3>2. CASE pc' = "delete_fixup" /\ call' = call
        <4>1. MapCall = call /\ call.ret = "pending" /\ call' = call
              /\ MapCall' = [call' EXCEPT !.ret = "ok"]
          BY <2>1, <3>2, <1>3, <1>4 DEF ControlInv
        <4> QED
          BY <2>1, <4>1, <1>2 DEF Answers
      <3> QED
        BY <2>3, <3>1, <3>2
    <2>5. Map!Answer({"delete"}, "ok", [Contents EXCEPT ![MapCall.key] = None])
      BY <2>2, <2>4, <1>4, <1>5
    <2>6. MapCall.key \in Map!Present(Contents)
      BY <2>1, <1>1, <1>4
    <2> QED
      BY <2>5, <2>6 DEF Map!Next, Map!Delete, MapCall, Contents
  <1>15. CASE Clear
    <2>1. pc \in {"clear", "destroy"} /\ call.op \in {"clear", "destroy"} /\ Return("ok")
      BY <1>3, <1>15 DEF Clear, ControlInv
    <2>2. allocated' = {}
      BY <1>3, <1>15, AllocatedFound DEF Clear
    <2>3. Contents' = [k \in Keys |-> None]
      <3>1. \A k \in Keys : value'[k] = None
        BY <2>2, <1>2
      <3>2. value' \in [Keys -> Values \cup {None}]
        BY DEF IInv, CopyInv, Copies
      <3> QED
        BY <3>1, <3>2, <1>2
    <2>4. Answers({"clear", "destroy"}, "ok", Contents')
      BY <2>1, <1>6
    <2> QED
      BY <2>3, <2>4, <1>5 DEF Map!Next, Map!Clear
  <1>16. CASE UNCHANGED vars
    <2>1. UNCHANGED <<value, size, pc, call>>
      BY <1>16 DEF vars
    <2>2. MapCall' = MapCall
      BY <2>1 DEF MapCall
    <2> QED
      BY <2>1, <2>2, <1>7
  <1> QED
    BY <1>8, <1>9, <1>10, <1>11, <1>12, <1>13, <1>14, <1>15, <1>16 DEF Next, Body

\* treemap.c implements a map: for every sequence of calls, what searches,
\* the size and the answers show is a behaviour of MapSpec, and the fixups of
\* the tree are invisible.
THEOREM TreeMapImplementsMap == Spec => ImplementsMap
  <1>1. Init => Map!Init
    <2> SUFFICES ASSUME Init PROVE Map!Init
      OBVIOUS
    <2>1. IInv
      BY InitInv
    <2>2. Contents = [k \in Keys |-> None]
      BY <2>1, ContentsAre DEF Init, NoNode
    <2>3. MapCall = [op |-> "init", key |-> None, value |-> None, ret |-> "ok"]
      BY DEF Init, MapCall
    <2>4. size = 0
      BY DEF Init
    <2> QED
      BY <2>2, <2>3, <2>4 DEF Map!Init, MapCall, Contents
  <1>2. IInv /\ IInv' /\ [Next]_vars => [Map!Next]_(Map!mapVars)
    BY MapStep
  <1>3. Spec => Map!Spec
    BY <1>1, <1>2, IInvHolds, PTL DEF Spec, Map!Spec
  <1> QED
    BY <1>3 DEF ImplementsMap

-----------------------------------------------------------------------------
(* The black nodes on the paths to the missing children *)

\* From the root to a node the height falls as the black nodes add up, but
\* for the short place: below it sh is one more than above.
LEMMA HeightsAdd ==
    ASSUME NEW t, NEW ns, NEW sub, Ordered(t, ns, sub),
           NEW h, NEW gs, NEW ga, Balanced(t, ns, h, gs, ga),
           NEW sh \in [ns -> {0, 1}],
           \A x \in ns \ {t.root}, q \in Sides : t.child[q][t.parent[x]] = x =>
              sh[x] = sh[t.parent[x]] + (IF q = gs /\ t.parent[x] = ga THEN 1 ELSE 0)
    PROVE  \A x \in ns : /\ Blacks(t, x) \in Nat
                         /\ Blacks(t, x) + h[x] + sh[x]
                              = h[t.root] + sh[t.root] + Weight(t, x)
  <1> DEFINE C == h[t.root] + sh[t.root]
             Good(x) == Blacks(t, x) \in Nat /\ Blacks(t, x) + h[x] + sh[x] = C + Weight(t, x)
             Bad == {x \in ns : ~Good(x)}
             B(x) == {m \in AtOrAbove(t, x) : t.color[m] = BLACK}
  <1>1. SUFFICES ASSUME Bad # {} PROVE FALSE
    OBVIOUS
  <1>2. PICK x \in Bad : x = t.root \/ (t.parent[x] \in ns /\ t.parent[x] \notin Bad)
    <2>1. Bad \subseteq ns
      OBVIOUS
    <2> HIDE DEF Bad
    <2> QED
      BY <1>1, <2>1, TopDown
  <1>3. /\ x \in ns /\ ~Good(x) /\ t.root \in ns /\ t.parent[t.root] = None
        /\ ns \subseteq Keys /\ None \notin ns
    BY NoneApart DEF Ordered
  <1>4. \A y \in ns : /\ IsFiniteSet(AtOrAbove(t, y)) /\ IsFiniteSet(B(y))
                      /\ Cardinality(B(y)) \in Nat
    <2> SUFFICES ASSUME NEW y \in ns
                 PROVE  /\ IsFiniteSet(AtOrAbove(t, y)) /\ IsFiniteSet(B(y))
                        /\ Cardinality(B(y)) \in Nat
      OBVIOUS
    <2>1. AtOrAbove(t, y) \subseteq Keys
      BY AboveIs, <1>3
    <2>2. IsFiniteSet(AtOrAbove(t, y))
      BY <2>1, KeysCounted, FS_Subset
    <2>3. B(y) \subseteq AtOrAbove(t, y)
      OBVIOUS
    <2> HIDE DEF B
    <2> QED
      BY <2>2, <2>3, FS_Subset, FS_CardinalityType
  <1>5. \A y \in ns : h[y] \in Nat /\ sh[y] \in {0, 1} /\ Weight(t, y) \in {0, 1}
    BY HeightTypes DEF Weight
  <1>6. \A y : Blacks(t, y) = Cardinality(B(y))
    BY DEF Blacks
  <1>7. CASE x = t.root
    <2>1. AtOrAbove(t, x) = {x}
      BY <1>3, <1>7, AboveIs
    <2>2. Cardinality(B(x)) = Weight(t, x)
      <3>1. CASE t.color[x] = BLACK
        <4>1. B(x) = {x}
          BY <2>1, <3>1
        <4> HIDE DEF B
        <4> QED
          BY <3>1, <4>1, FS_Singleton DEF Weight
      <3>2. CASE t.color[x] # BLACK
        <4>1. B(x) = {}
          BY <2>1, <3>2
        <4> HIDE DEF B
        <4> QED
          BY <3>2, <4>1, FS_EmptySet DEF Weight
      <3> QED
        BY <3>1, <3>2
    <2> HIDE DEF B
    <2>3. Good(x)
      BY <2>2, <1>4, <1>5, <1>6, <1>7, <1>3
    <2> QED
      BY <2>3, <1>3
  <1>8. CASE x # t.root
    <2> DEFINE p == t.parent[x]
               q == SideOf(t, x, p)
               gap == IF q = gs /\ p = ga THEN 1 ELSE 0
    <2>1. p \in ns /\ Good(p) /\ p # None
      BY <1>2, <1>3, <1>8
    <2>2. q \in Sides /\ t.child[q][p] = x
      BY <2>1, <1>3, ParentFacts
    <2>3. AtOrAbove(t, x) = {x} \cup AtOrAbove(t, p) /\ x \notin AtOrAbove(t, p)
      BY <2>1, <1>3, AboveIs
    <2>4. Cardinality(B(x)) = Cardinality(B(p)) + Weight(t, x)
      <3>1. CASE t.color[x] = BLACK
        <4>1. B(x) = B(p) \cup {x} /\ x \notin B(p)
          BY <2>3, <3>1
        <4>2. IsFiniteSet(B(p)) /\ Cardinality(B(p)) \in Nat
          BY <2>1, <1>4
        <4> HIDE DEF B
        <4>3. Cardinality(B(x)) = Cardinality(B(p)) + 1
          BY <4>1, <4>2, FS_AddElement
        <4> QED
          BY <3>1, <4>3 DEF Weight
      <3>2. CASE t.color[x] # BLACK
        <4>1. B(x) = B(p)
          BY <2>3, <3>2
        <4>2. Cardinality(B(p)) \in Nat
          BY <2>1, <1>4
        <4> HIDE DEF B
        <4> QED
          BY <3>2, <4>1, <4>2 DEF Weight
      <3> QED
        BY <3>1, <3>2
    <2>5. sh[x] = sh[p] + gap
      BY <2>2, <1>3, <1>8
    <2>6. h[p] = h[x] + gap + Weight(t, p)
      <3>1. h[p] = Height(t, h, gs, ga, q, p) + Weight(t, p)
        BY <2>1, <2>2 DEF Balanced
      <3>2. Height(t, h, gs, ga, q, p) = h[x] + gap
        BY <2>2 DEF Height
      <3> QED
        BY <3>1, <3>2
    <2>7. gap \in {0, 1}
      OBVIOUS
    <2> HIDE DEF B, p, gap
    <2>8. Blacks(t, p) + h[p] + sh[p] = C + Weight(t, p) /\ Blacks(t, p) \in Nat
      BY <2>1
    <2>9. /\ h[x] \in Nat /\ sh[x] \in {0, 1} /\ Weight(t, x) \in {0, 1}
          /\ h[p] \in Nat /\ sh[p] \in {0, 1} /\ Weight(t, p) \in {0, 1}
          /\ C \in Nat
      BY <2>1, <1>3, <1>5
    <2>10. Blacks(t, x) = Blacks(t, p) + Weight(t, x)
      BY <2>4, <1>6
    <2> HIDE DEF C
    <2>11. Blacks(t, x) \in Nat /\ Blacks(t, x) + h[x] + sh[x] = C + Weight(t, x)
      BY <2>5, <2>6, <2>7, <2>8, <2>9, <2>10
    <2> QED
      BY <2>11, <1>3
  <1> QED
    BY <1>7, <1>8

\* The places for a child that are one black node short in the middle of a
\* deletion: below the node n, or where it would be.
ShortFrom(t, at, n, a) ==
    {e \in Sides \X Keys :
        /\ at = "delete_fixup"
        /\ IF n = None THEN a = None \/ (e[2] = a /\ e[1] = SideOf(t, n, a))
                       ELSE n \in AtOrAbove(t, e[2])}

\* In a sound tree all paths to a missing child have the same number of black
\* nodes, counting the one that a fixup still owes.
LEMMA SoundBlackHeights ==
    ASSUME NEW t, NEW ns, NEW at, NEW n, NEW a, Sound(t, ns, at, n, a)
    PROVE  Cardinality(BlackHeights(t, ns, ShortFrom(t, at, n, a))) <= 1
  <1> DEFINE short == ShortFrom(t, at, n, a)
             ga == IF at = "delete_fixup" THEN a ELSE None
             gs == IF ga = None THEN "left" ELSE SideOf(t, n, a)
             below == at = "delete_fixup" /\ n # None
             sh == [x \in ns |-> IF below /\ n \in AtOrAbove(t, x) THEN 1 ELSE 0]
  <1>1. PICK sub : Ordered(t, ns, sub)
    BY DEF Sound
  <1>2. PICK h : Balanced(t, ns, h, gs, ga)
    BY DEF Sound
  <1>3. /\ at = "delete_fixup" /\ n # None => n \in ns /\ a = t.parent[n]
        /\ at = "delete_fixup" /\ a # None =>
              a \in ns /\ t.child[SideOf(t, n, a)][a] = n
        /\ ns \subseteq Keys /\ None \notin ns
    BY <1>1, NoneApart DEF Sound, Ordered
  <1>4. sh \in [ns -> {0, 1}] /\ \A x \in ns :
           sh[x] = IF below /\ n \in AtOrAbove(t, x) THEN 1 ELSE 0
    OBVIOUS
  <1> HIDE DEF sh
  <1>5. ASSUME NEW x \in ns \ {t.root}, NEW q \in Sides,
               t.child[q][t.parent[x]] = x
        PROVE  sh[x] = sh[t.parent[x]]
                         + (IF q = gs /\ t.parent[x] = ga THEN 1 ELSE 0)
    <2> DEFINE p == t.parent[x]
    <2>1. p \in ns /\ p # None
      BY <1>1, <1>3 DEF Ordered
    <2>2. AtOrAbove(t, x) = {x} \cup AtOrAbove(t, p) /\ x \notin AtOrAbove(t, p)
      BY <1>1, <2>1, AboveIs
    <2>3. q = SideOf(t, x, p)
      BY <1>1, <1>5, <2>1, ParentFacts
    <2> HIDE DEF p
    <2>4. below => (n = x <=> q = gs /\ p = ga)
      <3>1. ASSUME below, n = x PROVE q = gs /\ p = ga
        BY <1>3, <2>1, <2>3, <3>1 DEF p
      <3>2. ASSUME below, q = gs, p = ga PROVE n = x
        <4>1. a = p /\ a # None /\ gs = SideOf(t, n, a)
          BY <2>1, <3>2
        <4> QED
          BY <1>3, <1>5, <3>2, <4>1 DEF p
      <3> QED
        BY <3>1, <3>2
    <2>5. ~below => ~(q = gs /\ p = ga)
      <3>1. ASSUME ~below, q = gs, p = ga PROVE FALSE
        <4>1. at = "delete_fixup" /\ n = None /\ a = p
          BY <2>1, <3>1
        <4>2. t.child[SideOf(t, n, a)][a] = n
          BY <1>3, <2>1, <4>1
        <4>3. t.child[q][p] = None
          BY <2>1, <3>1, <4>1, <4>2
        <4> QED
          BY <1>3, <1>5, <4>3 DEF p
      <3> QED
        BY <3>1
    <2> HIDE DEF below, gs, ga
    <2>6. sh[x] = sh[p] + (IF q = gs /\ p = ga THEN 1 ELSE 0)
      <3>1. CASE ~below
        BY <1>4, <2>1, <2>5, <3>1
      <3>2. CASE below /\ n = x
        BY <1>4, <2>1, <2>2, <2>4, <3>2
      <3>3. CASE below /\ n # x
        BY <1>4, <2>1, <2>2, <2>4, <3>3
      <3> QED
        BY <3>1, <3>2, <3>3
    <2> QED
      BY <2>6 DEF p
  <1> DEFINE C == h[t.root] + sh[t.root]
             every == at = "delete_fixup" /\ n = None /\ a = None
             D == C + (IF every THEN 1 ELSE 0)
  <1>6. \A x \in ns : /\ Blacks(t, x) \in Nat
                      /\ Blacks(t, x) + h[x] + sh[x] = C + Weight(t, x)
    <2> HIDE DEF gs, ga
    <2> QED
      BY <1>1, <1>2, <1>4, <1>5, HeightsAdd
  <1>7. ASSUME NEW q \in Sides, NEW x \in ns, t.child[q][x] = None
        PROVE  Blacks(t, x) + (IF <<q, x>> \in short THEN 1 ELSE 0) = D
    <2> DEFINE gap == IF q = gs /\ x = ga THEN 1 ELSE 0
               e == <<q, x>>
    <2>1. e \in Sides \X Keys /\ e[1] = q /\ e[2] = x
      BY <1>3
    <2>2. e \in short <=> /\ at = "delete_fixup"
                          /\ IF n = None
                               THEN a = None
                                    \/ (x = a /\ q = SideOf(t, n, a))
                               ELSE n \in AtOrAbove(t, x)
      BY <2>1 DEF ShortFrom
    <2>3. h[x] = gap + Weight(t, x)
      <3>1. h[x] = Height(t, h, gs, ga, q, x) + Weight(t, x) /\ h[None] = 0
        BY <1>2 DEF Balanced
      <3>2. Height(t, h, gs, ga, q, x) = gap
        BY <1>7, <3>1 DEF Height
      <3> QED
        BY <3>1, <3>2
    <2>4. (IF e \in short THEN 1 ELSE 0) = sh[x] + gap + (IF every THEN 1 ELSE 0)
      <3>1. CASE at # "delete_fixup"
        BY <1>3, <1>4, <2>2, <3>1
      <3>2. CASE at = "delete_fixup" /\ n # None
        <4>1. gap = 0
          <5>1. ASSUME q = gs, x = ga PROVE FALSE
            <6>1. x = a /\ a # None /\ gs = SideOf(t, n, a)
              BY <1>3, <3>2, <5>1
            <6> QED
              BY <1>3, <1>7, <3>2, <5>1, <6>1
          <5> QED
            BY <5>1
        <4>2. sh[x] = IF e \in short THEN 1 ELSE 0
          BY <1>4, <2>2, <3>2
        <4> HIDE DEF gap, e
        <4> QED
          BY <3>2, <4>1, <4>2
      <3>3. CASE at = "delete_fixup" /\ n = None /\ a = None
        <4>1. sh[x] = 0 /\ gap = 0 /\ e \in short
          BY <1>3, <1>4, <2>2, <3>3
        <4> QED
          BY <3>3, <4>1
      <3>4. CASE at = "delete_fixup" /\ n = None /\ a # None
        <4>1. sh[x] = 0
          BY <1>4, <3>4
        <4>2. e \in short <=> q = gs /\ x = ga
          BY <2>2, <3>4
        <4>3. gap = IF e \in short THEN 1 ELSE 0
          BY <4>2
        <4> HIDE DEF gap, e
        <4> QED
          BY <3>4, <4>1, <4>3
      <3> QED
        BY <3>1, <3>2, <3>3, <3>4
    <2>5. gap \in {0, 1} /\ Weight(t, x) \in {0, 1} /\ sh[x] \in {0, 1}
          /\ Blacks(t, x) \in Nat /\ h[x] \in Nat
          /\ Blacks(t, x) + h[x] + sh[x] = C + Weight(t, x)
      BY <1>1, <1>2, <1>4, <1>6, HeightTypes DEF Weight
    <2>6. C \in Nat
      <3>1. t.root \in ns
        BY <1>1 DEF Ordered
      <3> QED
        BY <3>1, <1>1, <1>2, <1>4, HeightTypes
    <2> HIDE DEF C, gap, e, every
    <2>7. Blacks(t, x) + (IF e \in short THEN 1 ELSE 0) = C + (IF every THEN 1 ELSE 0)
      BY <2>3, <2>4, <2>5, <2>6
    <2> QED
      BY <2>7 DEF e
  <1> HIDE DEF D
  <1>8. BlackHeights(t, ns, short) \subseteq {D}
    <2> SUFFICES ASSUME NEW b \in BlackHeights(t, ns, short) PROVE b = D
      OBVIOUS
    <2>1. PICK e \in Sides \X ns :
             /\ t.child[e[1]][e[2]] = None
             /\ b = Blacks(t, e[2]) + (IF e \in short THEN 1 ELSE 0)
      BY DEF BlackHeights
    <2>2. e = <<e[1], e[2]>> /\ e[1] \in Sides /\ e[2] \in ns
      OBVIOUS
    <2> QED
      BY <1>7, <2>1, <2>2
  <1>9. Cardinality(BlackHeights(t, ns, short)) <= 1
    <2>1. IsFiniteSet({D}) /\ Cardinality({D}) = 1
      BY FS_Singleton
    <2> QED
      BY <1>8, <2>1, FS_Subset
  <1> QED
    BY <1>9

\* No red node has a red parent but where a fixup is about to mend it, and
\* all paths to a missing child have the same number of black nodes, counting
\* the one that treemap_delete_fixup still owes.
THEOREM RedBlackHolds == Spec => []RedBlack
  <1>1. IInv => RedBlack
    <2> SUFFICES ASSUME IInv PROVE RedBlack
      OBVIOUS
    <2>1. TreeInv
      BY DEF IInv
    <2>2. \A n \in Clashes(tree, allocated) :
             \/ pc = "insert_fixup" /\ n = node
             \/ pc = "delete_fixup" /\ node # None /\ node \in {n, tree.parent[n]}
      BY <2>1 DEF TreeInv, Sound
    <2>3. Cardinality(BlackHeights(tree, allocated, ShortFrom(tree, pc, node, above))) <= 1
      BY <2>1, SoundBlackHeights DEF TreeInv
    <2>4. ShortFrom(tree, pc, node, above) = Short
      BY DEF ShortFrom, Short
    <2> QED
      BY <2>2, <2>3, <2>4 DEF RedBlack
  <1> QED
    BY <1>1, IInvHolds, PTL

-----------------------------------------------------------------------------
(* The walks in key order *)

\* e is the first node of S from the side s, NULL for no nodes.
IsFirst(e, s, S) ==
    IF S = {} THEN e = None
    ELSE e \in S /\ \A y \in S : y = e \/ Before(s, e, y)

\* The first node from the left is the least, from the right the greatest.
LEMMA FirstIs ==
    ASSUME NEW S, S \subseteq Keys, NEW e
    PROVE  /\ IsFirst(e, "left", S) => e = Least(S)
           /\ IsFirst(e, "right", S) => e = Greatest(S)
  <1>1. S \subseteq Int
    BY TreeMapAssumption DEF TreeMapAssumption
  <1>2. CASE S = {}
    BY <1>2 DEF IsFirst, Least, Greatest
  <1>3. CASE S # {}
    <2>1. ASSUME IsFirst(e, "left", S) PROVE e = Least(S)
      <3>1. e \in S /\ \A y \in S : e <= y
        <4>1. e \in S /\ \A y \in S : y = e \/ e < y
          BY <1>3, <2>1 DEF IsFirst, Before
        <4> QED
          BY <4>1, <1>1
      <3> DEFINE m == CHOOSE n \in S : \A y \in S : n <= y
      <3>2. m \in S /\ \A y \in S : m <= y
        BY <3>1
      <3>3. m = Least(S)
        BY <1>3 DEF Least
      <3> HIDE DEF m
      <3>4. e <= m /\ m <= e /\ e \in Int /\ m \in Int
        BY <3>1, <3>2, <1>1
      <3> QED
        BY <3>3, <3>4
    <2>2. ASSUME IsFirst(e, "right", S) PROVE e = Greatest(S)
      <3>1. e \in S /\ \A y \in S : y <= e
        <4>1. e \in S /\ \A y \in S : y = e \/ y < e
          BY <1>3, <2>2 DEF IsFirst, Before
        <4> QED
          BY <4>1, <1>1
      <3> DEFINE m == CHOOSE n \in S : \A y \in S : y <= n
      <3>2. m \in S /\ \A y \in S : y <= m
        BY <3>1
      <3>3. m = Greatest(S)
        BY <1>3 DEF Greatest
      <3> HIDE DEF m
      <3>4. e <= m /\ m <= e /\ e \in Int /\ m \in Int
        BY <3>1, <3>2, <1>1
      <3> QED
        BY <3>3, <3>4
    <2> QED
      BY <2>1, <2>2
  <1> QED
    BY <1>2, <1>3

\* What is not in a subtree lies on one side of all of it.
LEMMA OneSide ==
    ASSUME NEW t, NEW ns, NEW sub, Ordered(t, ns, sub), NEW x \in ns,
           NEW y \in ns, y \notin sub[x]
    PROVE  \E q \in Sides : \A z \in sub[x] : Before(q, z, y)
  <1> DEFINE Apart(v, w) == \E q \in Sides : \A z \in sub[v] : Before(q, z, w)
             Bad == {v \in ns : \E w \in ns : w \notin sub[v] /\ ~Apart(v, w)}
  <1>0. ns \subseteq Keys /\ \A v \in ns : v # None /\ sub[v] \subseteq ns
    BY NoneApart DEF Ordered
  <1>1. SUFFICES ASSUME Bad # {} PROVE FALSE
    OBVIOUS
  <1>2. PICK v \in Bad : v = t.root \/ (t.parent[v] \in ns /\ t.parent[v] \notin Bad)
    <2>1. Bad \subseteq ns
      OBVIOUS
    <2> HIDE DEF Bad
    <2> QED
      BY <1>1, <2>1, TopDown
  <1>3. v \in ns
    OBVIOUS
  <1>4. PICK w \in ns : w \notin sub[v] /\ ~Apart(v, w)
    OBVIOUS
  <1>5. v # t.root
    <2>1. ns # {}
      BY <1>3
    <2> QED
      BY <2>1, <1>4 DEF Ordered
  <1> DEFINE p == t.parent[v]
             s == SideOf(t, v, p)
  <1>6. p \in ns /\ s \in Sides /\ t.child[s][p] = v
    BY <1>2, <1>3, <1>5, ParentFacts
  <1>7. p \notin Bad
    BY <1>2, <1>5
  <1>8. w \notin sub[p] => Apart(p, w)
    BY <1>6, <1>7
  <1> HIDE DEF p, s, Bad
  <1>9. sub[v] = Part(s, sub[p], p) /\ sub[v] \subseteq sub[p]
    BY <1>0, <1>3, <1>6, ChildFacts
  <1>10. CASE w \notin sub[p]
    BY <1>4, <1>8, <1>9, <1>10
  <1>11. CASE w \in sub[p]
    <2>1. ~Before(s, w, p)
      BY <1>4, <1>9, <1>11 DEF Part
    <2>2. w = p \/ Before(s, p, w)
      BY <2>1, <1>0, <1>6, BeforeOrder
    <2>3. \A z \in sub[v] : Before(s, z, w)
      <3> SUFFICES ASSUME NEW z \in sub[v] PROVE Before(s, z, w)
        OBVIOUS
      <3>1. z \in Keys /\ Before(s, z, p)
        BY <1>0, <1>3, <1>9 DEF Part
      <3> QED
        BY <3>1, <2>2, <1>0, <1>6, BeforeOrder
    <2> QED
      BY <2>3, <1>4, <1>6
  <1> QED
    BY <1>10, <1>11

\* treemap_next and treemap_prev.
LEMMA NeighborIs ==
    ASSUME NEW t, NEW ns, NEW sub, Ordered(t, ns, sub), NEW n \in ns, NEW s \in Sides
    PROVE  IsFirst(Neighbor(t, n, s), Opposite(s), Part(s, ns, n))
  <1> DEFINE o == Opposite(s)
             c == t.child[s][n]
             Rest == Part(s, ns, n)
  <1>1. /\ ns \subseteq Keys /\ t \in Trees /\ KeyCount \in Nat
        /\ \A x \in ns : /\ x \in Keys /\ x # None /\ x \in KeyOrNone
                         /\ x \in sub[x] /\ sub[x] \subseteq ns
        /\ None \in KeyOrNone /\ o \in Sides
        /\ \A q \in Sides : q = s \/ q = o
    BY KeysCounted, NoneApart, SidesTwo DEF Ordered
  <1>2. \A a, b \in Keys : Before(o, a, b) <=> Before(s, b, a)
    BY BeforeOrder
  <1> HIDE DEF o
  <1>3. \A x, y \in ns : n \in sub[x] /\ y \notin sub[x] /\ Before(s, y, n) =>
           \A z \in sub[x] : Before(o, z, y)
    <2> SUFFICES ASSUME NEW x \in ns, NEW y \in ns, n \in sub[x], y \notin sub[x],
                        Before(s, y, n), NEW z \in sub[x]
                 PROVE  Before(o, z, y)
      OBVIOUS
    <2>1. PICK q \in Sides : \A v \in sub[x] : Before(q, v, y)
      BY OneSide
    <2>2. Before(q, n, y) /\ Before(q, z, y)
      BY <2>1
    <2>3. q # s
      BY <2>2, <1>1, BeforeOrder
    <2> QED
      BY <2>2, <2>3, <1>1
  <1>4. CASE c # None
    <2> DEFINE e == Extreme(t, c, o)
    <2>1. c \in ns /\ sub[c] = Part(s, sub[n], n)
      BY <1>4, ChildFacts
    <2>2. Neighbor(t, n, s) = e
      BY <1>4 DEF Neighbor, o
    <2> HIDE DEF c
    <2>3. e \in ns /\ e \in sub[c] /\ \A y \in sub[c] : y = e \/ Before(o, e, y)
      BY <1>1, <2>1, ExtremeIs
    <2> HIDE DEF e
    <2>4. e \in Rest /\ e \in sub[n]
      BY <2>1, <2>3 DEF Part
    <2>5. ASSUME NEW y \in Rest PROVE y = e \/ Before(o, e, y)
      <3>1. y \in ns /\ Before(s, y, n)
        BY DEF Part
      <3>2. CASE y \in sub[n]
        BY <3>1, <3>2, <2>1, <2>3 DEF Part
      <3>3. CASE y \notin sub[n]
        BY <3>1, <3>3, <2>4, <1>1, <1>3
      <3> QED
        BY <3>2, <3>3
    <2> QED
      BY <2>2, <2>4, <2>5 DEF IsFirst, o
  <1>5. CASE c = None
    <2> DEFINE next == ParentFrom(t, s)
               w == Walk(n, next)
               last == Last(w)
               rank == [x \in ns |-> KeyCount + 1 - Cardinality(sub[x])]
               T == {x \in ns : n \in sub[x] /\ \A y \in sub[x] : y = n \/ Before(s, n, y)}
    <2>1. next \in [Keys -> KeyOrNone]
      BY <1>1, NextTypes
    <2>2. \A x \in ns : next[x] = IF t.parent[x] # None /\ x = t.child[s][t.parent[x]]
                                    THEN t.parent[x] ELSE None
      BY <1>1 DEF ParentFrom
    <2>3. Neighbor(t, n, s) = t.parent[last]
      BY <1>5 DEF Neighbor
    <2> HIDE DEF next, w
    <2>4. \A x \in ns : next[x] # None =>
             /\ next[x] \in ns /\ x = t.child[s][next[x]] /\ t.child[s][next[x]] # None
             /\ sub[x] = Part(s, sub[next[x]], next[x])
             /\ Cardinality(sub[x]) < Cardinality(sub[next[x]])
      <3> SUFFICES ASSUME NEW x \in ns, next[x] # None
                   PROVE  /\ next[x] \in ns /\ x = t.child[s][next[x]]
                          /\ t.child[s][next[x]] # None
                          /\ sub[x] = Part(s, sub[next[x]], next[x])
                          /\ Cardinality(sub[x]) < Cardinality(sub[next[x]])
        OBVIOUS
      <3> DEFINE y == next[x]
      <3>1. y = t.parent[x] /\ y # None /\ x = t.child[s][y]
        BY <2>2
      <3>2. y \in ns
        BY <3>1, ParentFacts
      <3> HIDE DEF y
      <3>3. t.child[s][y] # None
        BY <3>1, <1>1
      <3>4. sub[t.child[s][y]] = Part(s, sub[y], y)
        BY <3>2, <3>3, ChildFacts
      <3>5. Cardinality(sub[t.child[s][y]]) < Cardinality(sub[y])
        BY <3>2, <3>3, SubCounts
      <3> QED
        BY <3>1, <3>2, <3>3, <3>4, <3>5 DEF y
    <2>5. /\ \E d \in 0 .. KeyCount : last = w[d] /\ w[d] # None /\ next[w[d]] = None
          /\ \A d \in 0 .. KeyCount : w[d] # None => w[d] \in ns
      <3>1. \A x \in ns : Cardinality(sub[x]) \in 1 .. KeyCount
        BY SubCounts
      <3>2. rank \in [ns -> 1 .. KeyCount]
        BY <3>1, <1>1
      <3>3. \A x \in ns : rank[x] = KeyCount + 1 - Cardinality(sub[x])
        OBVIOUS
      <3> HIDE DEF rank
      <3>4. \A x \in ns : next[x] # None => next[x] \in ns /\ rank[next[x]] < rank[x]
        BY <3>1, <3>3, <1>1, <2>4
      <3>5. n \in KeyOrNone /\ n # None
        BY <1>1
      <3> QED
        BY <3>2, <3>4, <3>5, <1>1, <2>1, WalkEnds DEF w
    <2>6. n \in T
      <3>1. Part(s, sub[n], n) = {}
        BY <1>5 DEF Ordered
      <3>2. ASSUME NEW y \in sub[n] PROVE y = n \/ Before(s, n, y)
        <4>1. ~Before(s, y, n) /\ y \in Keys
          BY <3>1, <1>1 DEF Part
        <4> QED
          BY <4>1, <1>1, BeforeOrder
      <3> QED
        BY <3>2, <1>1
    <2>7. ASSUME NEW x \in T, next[x] # None PROVE next[x] \in T
      <3> DEFINE p == next[x]
      <3>1. x \in ns /\ n \in sub[x] /\ \A y \in sub[x] : y = n \/ Before(s, n, y)
        OBVIOUS
      <3>2. p \in ns /\ sub[x] = Part(s, sub[p], p)
        BY <2>4, <2>7, <3>1
      <3> HIDE DEF p
      <3>3. n \in sub[p] /\ Before(s, n, p)
        BY <3>1, <3>2 DEF Part
      <3>4. ASSUME NEW y \in sub[p] PROVE y = n \/ Before(s, n, y)
        <4>1. y \in Keys /\ p \in Keys /\ n \in Keys
          BY <3>2, <1>1
        <4>2. CASE Before(s, y, p)
          BY <4>2, <3>1, <3>2 DEF Part
        <4>3. CASE ~Before(s, y, p)
          BY <4>1, <4>3, <3>3, BeforeOrder
        <4> QED
          BY <4>2, <4>3
      <3> QED
        BY <3>2, <3>3, <3>4 DEF p
    <2>8. last \in T /\ next[last] = None
      <3> HIDE DEF T, last
      <3>1. \A d \in 0 .. KeyCount : w[d] # None => w[d] \in T
        <4>1. n \in KeyOrNone /\ (n # None => n \in T)
          BY <1>1, <2>6
        <4>2. \A x \in T \cap Keys : next[x] # None => next[x] \in T
          BY <2>7
        <4> QED
          BY <4>1, <4>2, <2>1, WalkStays DEF w
      <3> QED
        BY <3>1, <2>5
    <2>9. last \in ns /\ n \in sub[last] /\ \A y \in sub[last] : y = n \/ Before(s, n, y)
      BY <2>8
    <2> DEFINE p == t.parent[last]
    <2>10. Neighbor(t, n, s) = p
      BY <2>3
    <2>11. \A y \in sub[last] : ~Before(s, y, n)
      BY <2>9, <1>1, BeforeOrder
    <2> HIDE DEF last, T
    <2>12. CASE p = None
      <3>1. last = t.root
        BY <2>9, <2>12, ParentFacts
      <3>2. sub[last] = ns
        BY <3>1, <2>9 DEF Ordered
      <3>3. Rest = {}
        BY <3>2, <2>11 DEF Part
      <3> QED
        BY <3>3, <2>10, <2>12 DEF IsFirst
    <2>13. CASE p # None
      <3> DEFINE q == SideOf(t, last, p)
      <3>1. p \in ns /\ q \in Sides /\ t.child[q][p] = last
        BY <2>9, <2>13, ParentFacts
      <3>2. t.child[s][p] # last
        BY <2>2, <2>8, <2>9, <2>13
      <3> HIDE DEF p, q
      <3>3. q = o
        BY <3>1, <3>2, <1>1
      <3>4. sub[last] = Part(o, sub[p], p) /\ sub[last] \subseteq sub[p]
        BY <3>1, <3>3, <2>9, <1>1, ChildFacts
      <3>5. Before(o, n, p) /\ n \in sub[p]
        BY <3>4, <2>9 DEF Part
      <3>6. p \in Rest
        BY <3>1, <3>5, <1>1, <1>2 DEF Part
      <3>7. ASSUME NEW y \in Rest PROVE y = p \/ Before(o, p, y)
        <4>1. y \in ns /\ Before(s, y, n) /\ y \notin sub[last]
          BY <2>11 DEF Part
        <4>2. CASE y \in sub[p]
          <5>1. ~Before(o, y, p)
            BY <4>1, <4>2, <3>4 DEF Part
          <5> QED
            BY <5>1, <4>1, <3>1, <1>1, BeforeOrder
        <4>3. CASE y \notin sub[p]
          BY <4>1, <4>3, <3>1, <3>5, <1>1, <1>3
        <4> QED
          BY <4>2, <4>3
      <3> QED
        BY <3>6, <3>7, <2>10 DEF IsFirst, o
    <2> QED
      BY <2>12, <2>13
  <1> QED
    BY <1>4, <1>5

\* The walk of treemap_find_bound_node along next, where B are the keys that
\* are bounds.
ToBound(t, B, next) ==
    /\ B \subseteq Keys
    /\ \A x \in B, y \in Keys : x < y => y \in B
    /\ next \in [Keys -> KeyOrNone]
    /\ \A x \in Keys : next[x] = t.child[IF x \in B THEN "left" ELSE "right"][x]

\* The last bound on it is the first one in the order of the keys.
LEMMA BoundIs ==
    ASSUME NEW t, NEW ns, NEW sub, Ordered(t, ns, sub),
           NEW B, NEW next, ToBound(t, B, next)
    PROVE  LET w == Walk(t.root, next)
               hits == {d \in DOMAIN w : w[d] # None /\ w[d] \in B}
           IN  /\ hits = {} => IsFirst(None, "left", ns \cap B)
               /\ hits # {} =>
                    LET d == CHOOSE d \in hits : \A e \in hits : e <= d
                    IN  IsFirst(w[d], "left", ns \cap B)
  <1> DEFINE w == Walk(t.root, next)
             hits == {d \in DOMAIN w : w[d] # None /\ w[d] \in B}
             Hit(e, d) == e < d /\ w[e] # None /\ w[e] \in B
             Good(d) ==
               /\ w[d] # None => w[d] \in ns
               /\ \A e \in 0 .. KeyCount : Hit(e, d) /\ w[d] # None =>
                     \A y \in sub[w[d]] : y < w[e]
               /\ \A m \in ns \cap B :
                     \/ w[d] # None /\ m \in sub[w[d]]
                     \/ \E e \in 0 .. KeyCount : Hit(e, d) /\ w[e] <= m
  <1> /\ B \subseteq Keys
      /\ \A x \in B, y \in Keys : x < y => y \in B
      /\ next \in [Keys -> KeyOrNone]
      /\ \A x \in Keys : next[x] = t.child[IF x \in B THEN "left" ELSE "right"][x]
    BY DEF ToBound
  <1>1. /\ ns \subseteq Keys /\ t \in Trees /\ t.root \in KeyOrNone /\ Keys \subseteq Int
        /\ \A x \in ns : /\ x \in Keys /\ x # None
                         /\ x \in sub[x] /\ sub[x] \subseteq ns
        /\ KeyCount \in Nat
    BY KeysCounted, NoneApart, LinkTypes, TreeMapAssumption DEF Ordered, TreeMapAssumption
  <1>2. /\ DOMAIN w = 0 .. KeyCount /\ w[0] = t.root
        /\ \A d \in 0 .. KeyCount : d # 0 =>
              w[d] = IF w[d - 1] = None THEN None ELSE next[w[d - 1]]
    BY <1>1, WalkSteps
  <1>3. ASSUME NEW x \in ns, next[x] # None
        PROVE  LET q == IF x \in B THEN "left" ELSE "right"
               IN  next[x] \in ns /\ sub[next[x]] = Part(q, sub[x], x)
    <2> DEFINE q == IF x \in B THEN "left" ELSE "right"
    <2>1. q \in Sides /\ next[x] = t.child[q][x]
      BY <1>1 DEF Sides
    <2> HIDE DEF q
    <2>2. t.child[q][x] # None
      BY <1>3, <2>1
    <2>3. t.child[q][x] \in ns /\ sub[t.child[q][x]] = Part(q, sub[x], x)
      BY <2>1, <2>2, ChildFacts
    <2> QED
      BY <2>1, <2>3 DEF q
  <1>4. ASSUME NEW x \in ns, next[x] = None
        PROVE  LET q == IF x \in B THEN "left" ELSE "right"
               IN  Part(q, sub[x], x) = {}
    <2> DEFINE q == IF x \in B THEN "left" ELSE "right"
    <2>1. q \in Sides /\ t.child[q][x] = None
      BY <1>1, <1>4 DEF Sides
    <2> HIDE DEF q
    <2>2. Part(q, sub[x], x) = {}
      BY <2>1 DEF Ordered
    <2> QED
      BY <2>2 DEF q
  <1>5. \E rank \in [ns -> 1 .. KeyCount] :
           \A x \in ns : next[x] # None => next[x] \in ns /\ rank[next[x]] < rank[x]
    <2> DEFINE rank == [x \in ns |-> Cardinality(sub[x])]
    <2>1. rank \in [ns -> 1 .. KeyCount]
      BY SubCounts
    <2>2. ASSUME NEW x \in ns, next[x] # None
          PROVE  next[x] \in ns /\ rank[next[x]] < rank[x]
      <3> DEFINE q == IF x \in B THEN "left" ELSE "right"
      <3>1. q \in Sides /\ next[x] = t.child[q][x] /\ next[x] \in ns
        BY <1>1, <1>3, <2>2 DEF Sides
      <3> HIDE DEF q
      <3>2. t.child[q][x] # None
        BY <2>2, <3>1
      <3>3. Cardinality(sub[t.child[q][x]]) < Cardinality(sub[x])
        BY <3>1, <3>2, SubCounts
      <3> QED
        BY <3>1, <3>3
    <2> QED
      BY <2>1, <2>2
  <1>6. w[KeyCount] = None
    <2>1. t.root # None => t.root \in ns
      BY DEF Ordered
    <2>2. PICK rank \in [ns -> 1 .. KeyCount] :
             \A x \in ns : next[x] # None => next[x] \in ns /\ rank[next[x]] < rank[x]
      BY <1>5
    <2>3. ns \subseteq Keys /\ t.root \in KeyOrNone
      BY <1>1
    <2> HIDE DEF w
    <2> QED
      BY <2>1, <2>2, <2>3, WalkEnds DEF w
  <1> HIDE DEF w
  <1>7. Good(0)
    <2>1. \A e \in 0 .. KeyCount : ~(e < 0)
      BY <1>1
    <2>2. w[0] # None => w[0] \in ns /\ sub[w[0]] = ns
      BY <1>2 DEF Ordered
    <2>3. w[0] = None => ns = {}
      BY <1>2 DEF Ordered
    <2> QED
      BY <2>1, <2>2, <2>3
  <1>8. ASSUME NEW d \in 0 .. KeyCount, d # 0, Good(d - 1) PROVE Good(d)
    <2> DEFINE x == w[d - 1]
               c == w[d]
    <2>0. /\ d - 1 \in 0 .. KeyCount /\ d - 1 < d
          /\ \A e \in 0 .. KeyCount : e < d => e < d - 1 \/ e = d - 1
          /\ \A e \in 0 .. KeyCount : e < d - 1 => e < d
      BY <1>1, <1>8
    <2>1. c = IF x = None THEN None ELSE next[x]
      BY <1>2, <1>8
    <2>2. /\ x # None => x \in ns
          /\ \A e \in 0 .. KeyCount : Hit(e, d - 1) /\ x # None =>
                     \A y \in sub[x] : y < w[e]
          /\ \A m \in ns \cap B :
                     \/ x # None /\ m \in sub[x]
                     \/ \E e \in 0 .. KeyCount : Hit(e, d - 1) /\ w[e] <= m
      BY <1>8
    <2>3. \A e \in 0 .. KeyCount : Hit(e, d) <=> Hit(e, d - 1) \/ (e = d - 1 /\ x # None /\ x \in B)
      BY <2>0
    <2> HIDE DEF Hit, Good
    <2>4. CASE x = None
      <3>1. c = None
        BY <2>1, <2>4
      <3>2. \A m \in ns \cap B : \E e \in 0 .. KeyCount : Hit(e, d) /\ w[e] <= m
        BY <2>2, <2>3, <2>4
      <3> QED
        BY <3>1, <3>2 DEF Good
    <2>5. CASE x # None
      <3> DEFINE q == IF x \in B THEN "left" ELSE "right"
      <3>0. x \in ns /\ x \in Keys /\ c = next[x] /\ x \in sub[x] /\ sub[x] \subseteq ns
        BY <2>1, <2>2, <2>5, <1>1
      <3>1. c # None => c \in ns /\ sub[c] = Part(q, sub[x], x)
        BY <3>0, <1>3
      <3>2. c = None => Part(q, sub[x], x) = {}
        BY <3>0, <1>4
      <3> HIDE DEF c
      <3>3. ASSUME NEW e \in 0 .. KeyCount, Hit(e, d), c # None, NEW y \in sub[c]
            PROVE  y < w[e]
        <4>1. y \in sub[x] /\ Before(q, y, x)
          BY <3>1, <3>3 DEF Part
        <4>2. CASE Hit(e, d - 1)
          BY <4>1, <4>2, <2>2, <2>5
        <4>3. CASE e = d - 1 /\ x \in B
          BY <4>1, <4>3 DEF Before
        <4> QED
          BY <4>2, <4>3, <3>3, <2>3
      <3>4. ASSUME NEW m \in ns \cap B
            PROVE  \/ c # None /\ m \in sub[c]
                   \/ \E e \in 0 .. KeyCount : Hit(e, d) /\ w[e] <= m
        <4>0. m \in Int /\ x \in Int /\ m \in Keys
          BY <3>0, <1>1
        <4>1. CASE m \notin sub[x]
          BY <4>1, <2>2, <2>3
        <4>2. CASE m \in sub[x] /\ Before(q, m, x)
          <5>1. m \in Part(q, sub[x], x)
            BY <4>2 DEF Part
          <5> QED
            BY <5>1, <3>1, <3>2
        <4>3. CASE ~Before(q, m, x)
          <5>1. x \in B /\ x <= m
            <6>1. CASE x \in B
              <7>1. ~(m < x)
                BY <4>3, <6>1 DEF Before
              <7> QED
                BY <6>1, <7>1, <4>0
            <6>2. CASE x \notin B
              <7>1. ~(x < m)
                BY <4>3, <6>2 DEF Before
              <7>2. m < x \/ m = x
                BY <7>1, <4>0
              <7> QED
                BY <7>2, <6>2, <3>0
            <6> QED
              BY <6>1, <6>2
          <5>2. Hit(d - 1, d) /\ w[d - 1] <= m
            BY <5>1, <2>0, <2>3, <2>5
          <5> QED
            BY <5>2, <2>0
        <4> QED
          BY <4>1, <4>2, <4>3
      <3> QED
        BY <3>1, <3>3, <3>4 DEF Good, c
    <2> QED
      BY <2>4, <2>5
  <1>9. \A d \in 0 .. KeyCount : Good(d)
    <2> HIDE DEF Good
    <2> DEFINE D == {d \in 0 .. KeyCount : ~Good(d)}
    <2>1. SUFFICES ASSUME D # {} PROVE FALSE
      OBVIOUS
    <2>2. PICK d \in D : \A e \in D : d <= e
      <3>1. D \subseteq Nat
        BY <1>1
      <3> HIDE DEF D
      <3> QED
        BY <2>1, <3>1, LeastNatural
    <2>3. d \in 0 .. KeyCount /\ d # 0 /\ ~Good(d)
      BY <1>7
    <2>4. d - 1 \in 0 .. KeyCount /\ ~ (d <= d - 1)
      BY <2>3, <1>1
    <2>5. Good(d - 1)
      BY <2>2, <2>4
    <2> QED
      BY <2>3, <2>5, <1>8
  <1>10. \A m \in ns \cap B : \E e \in hits : w[e] <= m
    <2>1. Good(KeyCount)
      BY <1>1, <1>9
    <2> QED
      BY <2>1, <1>2, <1>6
  <1>11. \A e \in hits : w[e] \in ns \cap B
    BY <1>2, <1>9
  <1>12. CASE hits = {}
    <2>1. ns \cap B = {}
      BY <1>10, <1>12
    <2>2. IsFirst(None, "left", ns \cap B)
      BY <2>1 DEF IsFirst
    <2> QED
      BY <2>2, <1>12 DEF w
  <1>13. CASE hits # {}
    <2>1. \E d \in hits : \A e \in hits : e <= d
      <3>1. hits \subseteq 0 .. KeyCount
        BY <1>2
      <3> HIDE DEF hits
      <3>2. IsFiniteSet(0 .. KeyCount)
        BY <1>1, FS_Interval
      <3>3. IsFiniteSet(hits)
        BY <3>1, <3>2, FS_Subset
      <3>4. hits \subseteq Int
        BY <3>1, <1>1
      <3> QED
        BY <3>3, <3>4, <1>13, GreatestMember
    <2> DEFINE d == CHOOSE d \in hits : \A e \in hits : e <= d
    <2>2. d \in hits /\ \A e \in hits : e <= d
      BY <2>1
    <2> HIDE DEF d
    <2>3. d \in 0 .. KeyCount /\ w[d] # None /\ w[d] \in ns /\ w[d] \in B /\ w[d] \in Int
      BY <2>2, <1>1, <1>2, <1>11
    <2>4. ASSUME NEW e \in hits PROVE w[d] <= w[e]
      <3>1. e \in 0 .. KeyCount /\ w[e] # None /\ w[e] \in B /\ w[e] \in Int /\ e <= d
        BY <2>2, <1>1, <1>2, <1>11
      <3>2. CASE e = d
        BY <3>2, <2>3
      <3>3. CASE e < d
        <4>1. Good(d) /\ Hit(e, d) /\ w[d] \in sub[w[d]]
          BY <3>1, <3>3, <2>3, <1>1, <1>9
        <4>2. w[d] < w[e]
          BY <4>1, <3>1, <2>3
        <4> QED
          BY <4>2, <3>1, <2>3
      <3> QED
        BY <3>1, <3>2, <3>3, <2>3
    <2>5. ASSUME NEW m \in ns \cap B PROVE m = w[d] \/ w[d] < m
      <3>1. PICK e \in hits : w[e] <= m
        BY <1>10
      <3>2. m \in Int /\ w[e] \in Int
        BY <1>1, <1>11
      <3> QED
        BY <3>1, <3>2, <2>3, <2>4
    <2>6. IsFirst(w[d], "left", ns \cap B)
      BY <2>3, <2>5 DEF IsFirst, Before
    <2> QED
      BY <2>6, <1>13 DEF d, w
  <1> QED
    BY <1>12, <1>13 DEF w

\* The walks to the ends of a search tree find its least and greatest nodes.
LEMMA EndsAre ==
    ASSUME NEW t, NEW ns, NEW sub, Ordered(t, ns, sub)
    PROVE  /\ Extreme(t, t.root, "left") = Least(ns)
           /\ Extreme(t, t.root, "right") = Greatest(ns)
  <1>1. ns \subseteq Keys /\ Keys \subseteq Int
    BY TreeMapAssumption DEF Ordered, TreeMapAssumption
  <1>2. \A s \in Sides : IsFirst(Extreme(t, t.root, s), s, ns)
    <2> SUFFICES ASSUME NEW s \in Sides
                 PROVE  IsFirst(Extreme(t, t.root, s), s, ns)
      OBVIOUS
    <2>1. CASE t.root = None
      <3>1. ns = {}
        BY <2>1 DEF Ordered
      <3> QED
        BY <2>1, <3>1 DEF IsFirst, Extreme
    <2>2. CASE t.root # None
      <3> DEFINE r == t.root
                 e == Extreme(t, r, s)
      <3>1. r \in ns /\ sub[r] = ns
        BY <2>2 DEF Ordered
      <3> HIDE DEF r
      <3>2. e \in ns /\ \A y \in sub[r] : y = e \/ Before(s, e, y)
        BY <3>1, ExtremeIs
      <3> HIDE DEF e
      <3>3. IsFirst(e, s, ns)
        BY <3>1, <3>2 DEF IsFirst
      <3> QED
        BY <3>3 DEF e, r
    <2> QED
      BY <2>1, <2>2
  <1>3. /\ Extreme(t, t.root, "left") = Least(ns)
        /\ Extreme(t, t.root, "right") = Greatest(ns)
    <2>1. "left" \in Sides /\ "right" \in Sides
      BY DEF Sides
    <2> QED
      BY <1>1, <1>2, <2>1, FirstIs
  <1> QED
    BY <1>3

\* The walks from a node find the next nodes in the order of the keys.
LEMMA NeighborsAre ==
    ASSUME NEW t, NEW ns, NEW sub, Ordered(t, ns, sub), NEW n \in ns
    PROVE  /\ Neighbor(t, n, "right") = Least({m \in ns : m > n})
           /\ Neighbor(t, n, "left") = Greatest({m \in ns : m < n})
  <1>0. ns \subseteq Keys /\ Keys \subseteq Int
    BY TreeMapAssumption DEF Ordered, TreeMapAssumption
  <1>1. /\ "left" \in Sides /\ "right" \in Sides
        /\ Opposite("left") = "right" /\ Opposite("right") = "left"
    BY DEF Sides, Opposite
  <1>2. /\ Part("right", ns, n) = {m \in ns : m > n}
        /\ Part("left", ns, n) = {m \in ns : m < n}
    BY <1>0 DEF Part, Before
  <1>3. /\ IsFirst(Neighbor(t, n, "right"), Opposite("right"), Part("right", ns, n))
        /\ IsFirst(Neighbor(t, n, "left"), Opposite("left"), Part("left", ns, n))
    BY <1>1, NeighborIs
  <1>4. {m \in ns : m > n} \subseteq Keys /\ {m \in ns : m < n} \subseteq Keys
    BY <1>0
  <1> QED
    BY <1>1, <1>2, <1>3, <1>4, FirstIs

\* treemap_min, treemap_max, treemap_next, treemap_prev, treemap_lower_bound
\* and treemap_upper_bound answer in the order of the keys, for every tree
\* that a sequence of calls can leave.
THEOREM WalksInOrderHolds == Spec => []WalksInOrder
  <1>1. ASSUME IInv PROVE WalksInOrder
    <2> DEFINE ns == allocated
               present == {k \in Keys : At(k) # None}
    <2>1. PICK sub : Ordered(tree, ns, sub)
      BY <1>1 DEF IInv, TreeInv, Sound
    <2>2. ns \subseteq Keys /\ Keys \subseteq Int
      BY <2>1, TreeMapAssumption DEF Ordered, TreeMapAssumption
    <2>3. present = ns
      <3>1. Contents = value /\ \A k \in Keys : (k \in ns <=> value[k] # None)
        BY <1>1, ContentsAre
      <3>2. \A k \in Keys : Contents[k] = At(k)
        BY DEF Contents
      <3> QED
        BY <3>1, <3>2, <2>2
    <2> HIDE DEF ns, present
    <2>5. /\ Extreme(tree, tree.root, "left") = Least(ns)
          /\ Extreme(tree, tree.root, "right") = Greatest(ns)
      BY <2>1, EndsAre
    <2>6. ASSUME NEW n \in ns
          PROVE  /\ Neighbor(tree, n, "right") = Least({m \in ns : m > n})
                 /\ Neighbor(tree, n, "left") = Greatest({m \in ns : m < n})
      BY <2>1, NeighborsAre
    <2>7. ASSUME NEW k \in Keys, NEW strict \in BOOLEAN
          PROVE  Bound(k, strict) = Least({m \in ns : m > k \/ (~strict /\ m = k)})
      <3> DEFINE isBound(n) == n > k \/ (~strict /\ n = k)
                 B == {n \in Keys : isBound(n)}
                 next == [n \in Keys |-> tree.child[IF isBound(n) THEN "left" ELSE "right"][n]]
                 w == Walk(tree.root, next)
                 hits == {d \in DOMAIN w : w[d] # None /\ isBound(w[d])}
                 at == {d \in DOMAIN w : w[d] # None /\ w[d] \in B}
                 last == CHOOSE d \in hits : \A e \in hits : e <= d
      <3>1. Bound(k, strict) = IF hits = {} THEN None ELSE w[last]
        BY DEF Bound
      <3>2. tree \in Trees /\ tree.root \in KeyOrNone
        BY <2>1, LinkTypes DEF Ordered
      <3>3. next \in [Keys -> KeyOrNone]
        <4>1. /\ "left" \in Sides /\ "right" \in Sides
          BY DEF Sides
        <4>2. \A n \in Keys : tree.child["left"][n] \in KeyOrNone
                              /\ tree.child["right"][n] \in KeyOrNone
          BY <3>2, <4>1, LinkTypes
        <4> QED
          BY <4>2
      <3>4. B \subseteq Keys /\ \A x \in B, y \in Keys : x < y => y \in B
        <4> SUFFICES ASSUME NEW x \in B, NEW y \in Keys, x < y PROVE y \in B
          OBVIOUS
        <4>1. x \in Int /\ y \in Int /\ k \in Int /\ (x > k \/ x = k)
          BY <2>2
        <4>2. y > k
          BY <4>1
        <4> QED
          BY <4>2
      <3>5. \A x \in Keys : next[x] = tree.child[IF x \in B THEN "left" ELSE "right"][x]
        OBVIOUS
      <3>6. ns \cap B = {m \in ns : m > k \/ (~strict /\ m = k)} /\ ns \cap B \subseteq Keys
        BY <2>2
      <3>7. \A x \in Keys : x \in B <=> isBound(x)
        OBVIOUS
      <3> HIDE DEF next, B
      <3>8. DOMAIN w = 0 .. KeyCount /\ \A d \in 0 .. KeyCount : w[d] \in KeyOrNone
        BY <3>2, <3>3, WalkSteps
      <3> HIDE DEF w
      <3>9. hits = at
        <4>1. \A d \in DOMAIN w : w[d] # None => (w[d] \in B <=> isBound(w[d]))
          BY <3>7, <3>8 DEF KeyOrNone
        <4> QED
          BY <4>1
      <3>10. /\ at = {} => IsFirst(None, "left", ns \cap B)
             /\ at # {} =>
                  LET d == CHOOSE d \in at : \A e \in at : e <= d
                  IN  IsFirst(w[d], "left", ns \cap B)
        <4> HIDE DEF hits, last
        <4>1. ToBound(tree, B, next)
          BY ONLY <3>3, <3>4, <3>5 DEF ToBound
        <4> QED
          BY ONLY <2>1, <4>1, BoundIs DEF w, at
      <3> HIDE DEF hits, at, last
      <3>11. IsFirst(Bound(k, strict), "left", ns \cap B)
        <4>1. CASE hits = {}
          BY ONLY <4>1, <3>1, <3>9, <3>10
        <4>2. CASE hits # {}
          BY ONLY <4>2, <3>1, <3>9, <3>10 DEF last
        <4> QED
          BY <4>1, <4>2
      <3>12. Bound(k, strict) = Least(ns \cap B)
        BY <3>6, <3>11, FirstIs
      <3> QED
        BY <3>6, <3>12
    <2>8. ASSUME NEW k \in Keys
          PROVE  /\ Bound(k, FALSE) = Least({m \in ns : m >= k})
                 /\ Bound(k, TRUE) = Least({m \in ns : m > k})
      <3>1. {m \in ns : m > k \/ (~FALSE /\ m = k)} = {m \in ns : m >= k}
        <4>1. \A m \in ns : m > k \/ m = k <=> m >= k
          BY <2>2
        <4> QED
          BY <4>1
      <3>3. {m \in ns : m > k \/ (~TRUE /\ m = k)} = {m \in ns : m > k}
        OBVIOUS
      <3>2. /\ Bound(k, FALSE) = Least({m \in ns : m > k \/ (~FALSE /\ m = k)})
            /\ Bound(k, TRUE) = Least({m \in ns : m > k \/ (~TRUE /\ m = k)})
        BY <2>7
      <3> QED
        BY <3>1, <3>2, <3>3
    <2>9. /\ Extreme(tree, tree.root, "left") = Least(present)
          /\ Extreme(tree, tree.root, "right") = Greatest(present)
          /\ \A n \in allocated :
                /\ Neighbor(tree, n, "right") = Least({m \in present : m > n})
                /\ Neighbor(tree, n, "left") = Greatest({m \in present : m < n})
          /\ \A k \in Keys :
                /\ Bound(k, FALSE) = Least({m \in present : m >= k})
                /\ Bound(k, TRUE) = Least({m \in present : m > k})
      BY <2>3, <2>5, <2>6, <2>8 DEF ns
    <2> QED
      BY <2>9 DEF WalksInOrder, present
  <1> QED
    BY <1>1, IInvHolds, PTL

-----------------------------------------------------------------------------
(* The red-black tree of src/legacy/rbtree_typed.h *)

\* It is the same tree, so what holds of the operators of TreeMap holds of its own.
LEMMA LegacyIsSame ==
    /\ \A S : L!Cardinality(S) = Cardinality(S)
    /\ L!RED = RED
    /\ L!BLACK = BLACK
    /\ L!Sides = Sides
    /\ L!NoNode = NoNode
    /\ L!NoTree = NoTree
    /\ \A t, ns, c : L!Paint(t, ns, c) = Paint(t, ns, c)
    /\ \A t, n, s : L!Extreme(t, n, s) = Extreme(t, n, s)
    /\ \A t, k : L!Found(t, k) <=> Found(t, k)
    /\ \A t, n, s : L!Neighbor(t, n, s) = Neighbor(t, n, s)
    /\ \A t, k : L!Planted(t, k) = Planted(t, k)
    /\ \A t, n : L!RedAbove(t, n) <=> RedAbove(t, n)
    /\ \A t, n : L!Grandparent(t, n) = Grandparent(t, n)
    /\ \A t, n : L!InsertMended(t, n) = InsertMended(t, n)
    /\ \A t, k : L!Removed(t, k) = Removed(t, k)
    /\ \A t, n : L!Freed(t, n) = Freed(t, n)
    /\ \A t, n : L!AtOrAbove(t, n) = AtOrAbove(t, n)
    /\ \A t : L!Reached(t) = Reached(t)
    /\ \A t, ns : L!IsLinked(t, ns) <=> IsLinked(t, ns)
    /\ \A t, ns : L!Clashes(t, ns) = Clashes(t, ns)
    /\ \A t, ns, short : L!BlackHeights(t, ns, short) = BlackHeights(t, ns, short)
    /\ \A S : L!Least(S) = Least(S)
    /\ \A S : L!Greatest(S) = Greatest(S)
  <1>1. \A S : L!Cardinality(S) = Cardinality(S)
    BY DEF Cardinality, L!Cardinality
  <1>2. L!RED = RED
    BY DEF RED, L!RED
  <1>3. L!BLACK = BLACK
    BY DEF BLACK, L!BLACK
  <1>4. L!Sides = Sides
    BY DEF Sides, L!Sides
  <1>5. \A s : L!Opposite(s) = Opposite(s)
    BY DEF Opposite, L!Opposite
  <1>6. L!NoNode = NoNode
    BY DEF NoNode, L!NoNode
  <1>7. L!NoTree = NoTree
    BY <1>4, <1>6 DEF NoTree, L!NoTree
  <1>8. \A t, n : L!ColorOf(t, n) = ColorOf(t, n)
    BY <1>3 DEF ColorOf, L!ColorOf
  <1>9. \A t, ns, c : L!Paint(t, ns, c) = Paint(t, ns, c)
    BY DEF Paint, L!Paint
  <1>10. \A t, n, p : L!SideOf(t, n, p) = SideOf(t, n, p)
    BY DEF SideOf, L!SideOf
  <1>11. \A t, p, s, n : L!SetChild(t, p, s, n) = SetChild(t, p, s, n)
    BY DEF SetChild, L!SetChild
  <1>12. \A t, n, p : L!SetParent(t, n, p) = SetParent(t, n, p)
    BY DEF SetParent, L!SetParent
  <1>13. \A t, n, p, c : L!Blank(t, n, p, c) = Blank(t, n, p, c)
    BY <1>4 DEF Blank, L!Blank
  <1>14. \A t, p, s, n : L!Attach(t, p, s, n) = Attach(t, p, s, n)
    BY <1>11 DEF Attach, L!Attach
  <1>15. \A t, p, s, n : L!Link(t, p, s, n) = Link(t, p, s, n)
    BY <1>11, <1>12 DEF Link, L!Link
  <1>16. \A t, old, new : L!Transplant(t, old, new) = Transplant(t, old, new)
    BY <1>10, <1>12, <1>14 DEF Transplant, L!Transplant
  <1>17. \A t, n, s : L!Rotate(t, n, s) = Rotate(t, n, s)
    BY <1>5, <1>15, <1>16 DEF Rotate, L!Rotate
  <1>18. \A n, next : L!Walk(n, next) = Walk(n, next)
    BY <1>1 DEF Walk, L!Walk
  <1>19. \A walk : L!Last(walk) = Last(walk)
    BY DEF Last, L!Last
  <1>20. \A t, n, s : L!Extreme(t, n, s) = Extreme(t, n, s)
    BY <1>18, <1>19 DEF Extreme, L!Extreme
  <1>21. \A t, k : L!Toward(t, k) = Toward(t, k)
    BY DEF Toward, L!Toward
  <1>22. \A t, k : L!Search(t, k) = Search(t, k)
    BY <1>18, <1>21 DEF Search, L!Search
  <1>23. \A t, k : L!Found(t, k) <=> Found(t, k)
    BY <1>22 DEF Found, L!Found
  <1>24. \A t, s : L!ParentFrom(t, s) = ParentFrom(t, s)
    BY DEF ParentFrom, L!ParentFrom
  <1>25. \A t, n, s : L!Neighbor(t, n, s) = Neighbor(t, n, s)
    BY <1>5, <1>18, <1>19, <1>20, <1>24 DEF Neighbor, L!Neighbor
  <1>26. \A t, k : L!Planted(t, k) = Planted(t, k)
    BY <1>2, <1>13, <1>14, <1>19, <1>22 DEF Planted, L!Planted
  <1>27. \A t, n : L!RedAbove(t, n) <=> RedAbove(t, n)
    BY <1>2, <1>8 DEF RedAbove, L!RedAbove
  <1>28. \A t, n : L!Grandparent(t, n) = Grandparent(t, n)
    BY DEF Grandparent, L!Grandparent
  <1>29. \A t, n : L!Uncle(t, n) = Uncle(t, n)
    BY <1>5, <1>10, <1>28 DEF Uncle, L!Uncle
  <1>30. \A t, n : L!Inside(t, n) <=> Inside(t, n)
    BY <1>5, <1>10, <1>28 DEF Inside, L!Inside
  <1>31. \A t, n : L!InsertMended(t, n) = InsertMended(t, n)
    BY <1>2, <1>3, <1>5, <1>8, <1>9, <1>10, <1>17, <1>28, <1>29, <1>30
       DEF InsertMended, L!InsertMended
  <1>32. \A t, k : L!Removed(t, k) = Removed(t, k)
    BY <1>9, <1>15, <1>16, <1>20 DEF Removed, L!Removed
  <1>33. \A t, n : L!Freed(t, n) = Freed(t, n)
    BY <1>13 DEF Freed, L!Freed
  <1>34. \A t, n : L!Upward(t, n) = Upward(t, n)
    BY <1>18 DEF Upward, L!Upward
  <1>35. \A t, n : L!AtOrAbove(t, n) = AtOrAbove(t, n)
    BY <1>34 DEF AtOrAbove, L!AtOrAbove
  <1>36. \A t : L!Reached(t) = Reached(t)
    BY DEF Reached, L!Reached, Sides, L!Sides, Cardinality, L!Cardinality
  <1>37. \A t, ns : L!IsLinked(t, ns) <=> IsLinked(t, ns)
    BY <1>4, <1>36 DEF IsLinked, L!IsLinked
  <1>38. \A t, ns : L!Clashes(t, ns) = Clashes(t, ns)
    BY <1>2 DEF Clashes, L!Clashes
  <1>39. \A t, n : L!Blacks(t, n) = Blacks(t, n)
    BY <1>1, <1>3, <1>35 DEF Blacks, L!Blacks
  <1>40. \A t, ns, short : L!BlackHeights(t, ns, short) = BlackHeights(t, ns, short)
    BY <1>4, <1>39 DEF BlackHeights, L!BlackHeights
  <1>41. \A S : L!Least(S) = Least(S)
    BY DEF Least, L!Least
  <1>42. \A S : L!Greatest(S) = Greatest(S)
    BY DEF Greatest, L!Greatest
  <1> QED
    BY <1>1, <1>2, <1>3, <1>4, <1>6, <1>7, <1>9, <1>20, <1>23, <1>25, <1>26,
       <1>27, <1>28, <1>31, <1>32, <1>33, <1>35, <1>36, <1>37, <1>38, <1>40,
       <1>41, <1>42

\* A deletion whose fixup found no node to start at.
LegacyLost == L!Unlinked /\ lnode = None

\* The tree of the macros is sound as that of TreeMap is, until a deletion is
\* lost: then a black node is missing for good, and nothing follows.
LegacyTree ==
    /\ IF LegacyLost
         THEN (\E sub : Ordered(ltree, lallocated, sub)) /\ Clashes(ltree, lallocated) = {}
         ELSE Sound(ltree, lallocated, lpc, lnode,
                    IF lpc = "delete_fixup" THEN ltree.parent[lnode] ELSE None)
    /\ lpc = "delete_fixup" /\ lnode # None =>
          /\ ltree.color[lnode] = RED
          /\ \A x \in Clashes(ltree, lallocated) : x = lnode

\* The size is written last.
LegacyCopies ==
    /\ Copies(lallocated, lvalue, lliveValues)
    /\ lsize = Cardinality(lallocated) + (IF L!Unlinked THEN 1 ELSE 0)

LegacyControl ==
    /\ lpc \in {"idle", "set", "delete", "destroy", "insert_fixup", "delete_fixup",
                "exited", "crashed"}
    /\ lcall \in [op : {"init", "set", "delete", "destroy"}, key : KeyOrNone,
                  value : Values \cup {None}, ret : {"ok", "error", "pending"}]
    /\ lpc = "idle" <=> lcall.ret # "pending"
    /\ lpc \in {"set", "delete", "destroy"} => lcall.op = lpc
    /\ lpc = "insert_fixup" => lcall.op = "set"
    /\ lpc = "delete_fixup" => lcall.op = "delete"
    /\ lpc = "set" => lcall.key \in Keys /\ lcall.value \in Values
    /\ lpc = "delete" => lcall.key \in Keys
    /\ lpc \notin {"insert_fixup", "delete_fixup"} => lnode = None

\* The inductive invariant of LegacyRBTree.
LegacyInv == LegacyTree /\ LegacyCopies /\ LegacyControl

\* A search finds the allocated keys, and rbtree_free reaches their nodes.
LEMMA LegacyFound ==
    ASSUME LegacyTree
    PROVE  /\ Reached(ltree) = lallocated /\ lallocated \subseteq Keys
           /\ \A k \in Keys : L!Found(ltree, k) <=> k \in lallocated
  <1>1. PICK sub : Ordered(ltree, lallocated, sub)
    BY DEF LegacyTree, Sound
  <1>2. Reached(ltree) = lallocated
    BY <1>1, ReachedIs
  <1>3. \A k \in Keys : Found(ltree, k) <=> k \in lallocated
    BY <1>1, FoundIs
  <1>4. \A k \in Keys : L!Found(ltree, k) <=> Found(ltree, k)
    BY LegacyIsSame
  <1>5. lallocated \subseteq Keys
    BY <1>1 DEF Ordered
  <1> QED
    BY <1>2, <1>3, <1>4, <1>5

\* rbtree_new establishes it.
LEMMA LegacyInitInv == L!Init => LegacyInv
  <1> SUFFICES ASSUME L!Init PROVE LegacyInv
    OBVIOUS
  <1>1. /\ lsize = 0 /\ ltree = NoTree /\ lvalue = NoNode /\ lallocated = {}
        /\ lliveValues = [v \in Values |-> 0] /\ lpc = "idle" /\ lnode = None
        /\ lcall = [op |-> "init", key |-> None, value |-> None, ret |-> "ok"]
    BY LegacyIsSame DEF L!Init
  <1>2. ~L!Unlinked
    BY <1>1 DEF L!Unlinked
  <1>3. LegacyTree
    <2>1. Sound(ltree, lallocated, lpc, lnode, None)
      BY <1>1, EmptySound, NoneApart DEF Sound
    <2> QED
      BY <1>1, <1>2, <2>1 DEF LegacyTree, LegacyLost
  <1>4. LegacyCopies
    <2>1. \A v \in Values : Holding({}, lvalue, v) = {}
      BY DEF Holding
    <2>2. Cardinality({}) = 0
      BY FS_EmptySet
    <2>3. Copies(lallocated, lvalue, lliveValues)
      BY <1>1, <2>1, <2>2 DEF Copies, NoNode
    <2> QED
      BY <1>1, <1>2, <2>2, <2>3 DEF LegacyCopies
  <1>5. LegacyControl
    BY <1>1, NoneApart DEF LegacyControl
  <1> QED
    BY <1>3, <1>4, <1>5 DEF LegacyInv

\* Every step keeps the control where a call can stand.
LEMMA LegacyControlStep ==
    ASSUME LegacyInv, [L!Next]_legacyVars
    PROVE  LegacyControl'
  <1>1. LegacyControl
    BY DEF LegacyInv
  <1>2. CASE L!Calls
    <2>1. \A e \in LegacyEntries : e[1] \in Keys /\ e[2] \in Values
      BY LegacyAssumption DEF LegacyAssumption
    <2>2. None \in KeyOrNone /\ Keys \subseteq KeyOrNone
      BY NoneApart
    <2>3. PICK op \in {"set", "delete", "destroy"}, k \in KeyOrNone,
               v \in Values \cup {None} :
                  /\ L!Call(op, k, v)
                  /\ op = "set" => k \in Keys /\ v \in Values
                  /\ op = "delete" => k \in Keys
      BY <1>2, <2>1, <2>2 DEF L!Calls
    <2>4. /\ lpc = "idle" /\ lpc' = op /\ lnode' = lnode
          /\ lcall' = [op |-> op, key |-> k, value |-> v, ret |-> "pending"]
      BY <2>3 DEF L!Call
    <2> QED
      BY <1>1, <2>3, <2>4 DEF LegacyControl
  <1>3. ASSUME NEW ret \in {"ok", "error"}, L!Return(ret) PROVE LegacyControl'
    <2>1. lcall' = [lcall EXCEPT !.ret = ret] /\ lpc' = "idle" /\ lnode' = None
      BY <1>3 DEF L!Return
    <2> QED
      BY <1>1, <2>1 DEF LegacyControl
  <1>4. CASE L!InsertReplace \/ L!InsertFixupEnd \/ L!DeleteMissing \/ L!DeleteFixup \/ L!Free
    BY <1>3, <1>4 DEF L!InsertReplace, L!InsertFixupEnd, L!DeleteMissing, L!DeleteFixup, L!Free
  <1>5. CASE L!InsertNew
    <2>1. lpc = "set" /\ lpc' = "insert_fixup" /\ lcall' = lcall
      BY <1>5 DEF L!InsertNew
    <2> QED
      BY <1>1, <2>1 DEF LegacyControl
  <1>6. CASE L!InsertFixup
    <2>1. lpc = "insert_fixup" /\ lpc' = lpc /\ lcall' = lcall
      BY <1>6 DEF L!InsertFixup
    <2> QED
      BY <1>1, <2>1 DEF LegacyControl
  <1>7. CASE L!Delete
    <2>1. lpc = "delete" /\ ((lpc' = "delete_fixup" /\ lcall' = lcall) \/ L!Return("ok"))
      BY <1>7 DEF L!Delete
    <2> QED
      BY <2>1, <1>1, <1>3 DEF LegacyControl
  <1>8. ASSUME NEW reason \in {"exited", "crashed"}, L!Ends(reason),
               lpc # "idle", lnode = None
        PROVE  LegacyControl'
    <2>1. lpc' = reason /\ lcall' = lcall /\ lnode' = lnode
      BY <1>8 DEF L!Ends
    <2> QED
      BY <1>1, <1>8, <2>1 DEF LegacyControl
  <1>9. CASE L!InsertExits \/ L!DeleteFixupCrashes \/ L!FreeCrashes
    <2>1. lpc # "idle" /\ lnode = None /\ (L!Ends("exited") \/ L!Ends("crashed"))
      BY <1>1, <1>9 DEF L!InsertExits, L!DeleteFixupCrashes, L!FreeCrashes, LegacyControl
    <2> QED
      BY <2>1, <1>8
  <1>10. CASE UNCHANGED legacyVars
    BY <1>1, <1>10 DEF legacyVars, LegacyControl
  <1> QED
    BY <1>2, <1>4, <1>5, <1>6, <1>7, <1>9, <1>10 DEF L!Next, L!Body

\* Where no fixup runs and no deletion is under way.
LEMMA LegacyIdle ==
    ASSUME LegacyTree, lpc \notin {"insert_fixup", "delete_fixup"}, ~L!Unlinked
    PROVE  /\ \E sub : Ordered(ltree, lallocated, sub)
           /\ \E h : Balanced(ltree, lallocated, h, "left", None)
           /\ Clashes(ltree, lallocated) = {}
  <1>1. Sound(ltree, lallocated, lpc, lnode, None)
    BY DEF LegacyTree, LegacyLost
  <1> QED
    BY <1>1, SoundIdle

\* A tree that the next state has, where no fixup runs.
LEMMA LegacySettled ==
    ASSUME lpc' \notin {"insert_fixup", "delete_fixup", "crashed"}, lnode' = None,
           \E sub : Ordered(ltree', lallocated', sub),
           \E h : Balanced(ltree', lallocated', h, "left", None),
           Clashes(ltree', lallocated') = {}
    PROVE  LegacyTree'
  <1>1. ~(L!Unlinked')
    BY DEF L!Unlinked
  <1>2. Sound(ltree', lallocated', lpc', lnode', None)
    BY SoundIdle, NoneApart
  <1> QED
    BY <1>1, <1>2 DEF LegacyTree, LegacyLost

\* Insertions keep the tree sound.
LEMMA LegacyStepInsert ==
    ASSUME LegacyInv, L!InsertNew \/ L!InsertFixup \/ L!InsertFixupEnd
    PROVE  LegacyTree'
  <1> DEFINE ns == lallocated
             k == lcall.key
  <1>1. /\ LegacyTree /\ lpc \in {"set", "insert_fixup"} /\ ~L!Unlinked
        /\ lpc = "set" => k \in Keys
    BY DEF LegacyInv, LegacyControl, L!InsertNew, L!InsertFixup, L!InsertFixupEnd, L!Unlinked
  <1>2. Sound(ltree, ns, lpc, lnode, None)
    BY <1>1 DEF LegacyTree, LegacyLost
  <1>3. PICK sub : Ordered(ltree, ns, sub)
    BY <1>2 DEF Sound
  <1>4. PICK h : Balanced(ltree, ns, h, "left", None)
    BY <1>1, <1>2 DEF Sound
  <1>5. ns \subseteq Keys /\ Keys \subseteq KeyOrNone /\ None \in KeyOrNone
    BY <1>3, NoneApart DEF Ordered
  <1>6. ASSUME NEW n \in lallocated', lpc' = "insert_fixup", lnode' = n, lallocated' \subseteq Keys,
               \E sub2 : Ordered(ltree', lallocated', sub2),
               \E h2 : Balanced(ltree', lallocated', h2, "left", None),
               ltree'.color[n] = RED, \A x \in Clashes(ltree', lallocated') : x = n
        PROVE  LegacyTree'
    <2>1. ~(L!Unlinked')
      BY <1>6 DEF L!Unlinked
    <2>2. Sound(ltree', lallocated', lpc', lnode', None)
      BY <1>5, <1>6 DEF Sound
    <2> QED
      BY <1>6, <2>1, <2>2 DEF LegacyTree, LegacyLost
  <1>7. CASE L!InsertNew
    <2>1. /\ ~L!Found(ltree, k) /\ lpc = "set" /\ ltree' = Planted(ltree, k)
          /\ lallocated' = ns \cup {k} /\ lpc' = "insert_fixup" /\ lnode' = k
      BY <1>7, LegacyIsSame DEF L!InsertNew
    <2>2. k \in Keys \ ns /\ Clashes(ltree, ns) = {}
      BY <2>1, <1>1, <1>2, LegacyFound DEF Sound
    <2>3. /\ \E sub2 : Ordered(ltree', ns \cup {k}, sub2)
          /\ \E h2 : Balanced(ltree', ns \cup {k}, h2, "left", None)
          /\ ltree'.color[k] = RED
          /\ \A x \in Clashes(ltree', ns \cup {k}) : x = k
      BY <2>1, <2>2, <1>3, <1>4, PlantedMends
    <2> HIDE DEF k
    <2> QED
      BY <2>1, <2>2, <2>3, <1>5, <1>6
  <1>8. CASE L!InsertFixup
    <2>1. /\ lpc = "insert_fixup" /\ RedAbove(ltree, lnode)
          /\ ltree' = InsertMended(ltree, lnode) /\ lnode' = Grandparent(ltree, lnode)
          /\ lallocated' = ns /\ lpc' = lpc
      BY <1>8, LegacyIsSame DEF L!InsertFixup
    <2>2. lnode \in ns /\ ltree.color[lnode] = RED /\ \A x \in Clashes(ltree, ns) : x = lnode
      BY <2>1, <1>2 DEF Sound
    <2>3. LET r == InsertMended(ltree, lnode)
              m == IF ColorOf(ltree, Uncle(ltree, lnode)) = RED THEN Grandparent(ltree, lnode)
                   ELSE IF Inside(ltree, lnode) THEN ltree.parent[lnode] ELSE lnode
          IN  /\ \E sub2 : Ordered(r, ns, sub2)
              /\ \E h2 : Balanced(r, ns, h2, "left", None)
              /\ m \in ns /\ r.color[m] = RED
              /\ \A x \in Clashes(r, ns) : x = m
              /\ Grandparent(ltree, lnode) \in ns
              /\ r.color[Grandparent(ltree, lnode)] = RED
              /\ ColorOf(ltree, Uncle(ltree, lnode)) # RED => Clashes(r, ns) = {}
      BY <2>1, <2>2, <1>3, <1>4, InsertMends
    <2>4. /\ \E sub2 : Ordered(ltree', ns, sub2)
          /\ \E h2 : Balanced(ltree', ns, h2, "left", None)
          /\ lnode' \in ns /\ ltree'.color[lnode'] = RED
          /\ \A x \in Clashes(ltree', ns) : x = lnode'
      BY <2>1, <2>3
    <2> QED
      BY <2>1, <2>4, <1>5, <1>6
  <1>9. CASE L!InsertFixupEnd
    <2>1. /\ lpc = "insert_fixup" /\ ~RedAbove(ltree, lnode)
          /\ ltree' = Paint(ltree, {ltree.root}, BLACK)
          /\ lallocated' = ns /\ lpc' = "idle" /\ lnode' = None
      BY <1>9, LegacyIsSame DEF L!InsertFixupEnd, L!Return
    <2>2. lnode \in ns /\ ltree.color[lnode] = RED /\ \A x \in Clashes(ltree, ns) : x = lnode
      BY <2>1, <1>2 DEF Sound
    <2>3. LET r == Paint(ltree, {ltree.root}, BLACK)
          IN  /\ \E sub2 : Ordered(r, ns, sub2)
              /\ \E h2 : Balanced(r, ns, h2, "left", None)
              /\ Clashes(r, ns) = {}
      BY <2>1, <2>2, <1>3, <1>4, RootPainted
    <2> QED
      BY <2>1, <2>3, LegacySettled
  <1> QED
    BY <1>7, <1>8, <1>9

\* rbt_delete does, until it is lost.
LEMMA LegacyStepDelete ==
    ASSUME LegacyInv, L!Delete
    PROVE  LegacyTree'
  <1> DEFINE ns == lallocated
             k == lcall.key
             gone == Removed(ltree, k)
             r == Freed(gone.tree, k)
             ms == ns \ {k}
  <1>1. /\ LegacyTree /\ lpc = "delete" /\ ~L!Unlinked /\ k \in Keys /\ L!Found(ltree, k)
        /\ lcall.op = "delete"
    BY DEF LegacyInv, LegacyControl, L!Delete, L!Unlinked
  <1>2. PICK sub : Ordered(ltree, ns, sub)
    BY <1>1, LegacyIdle
  <1>3. PICK h : Balanced(ltree, ns, h, "left", None)
    BY <1>1, LegacyIdle
  <1>4. Clashes(ltree, ns) = {}
    BY <1>1, LegacyIdle
  <1>5. k \in ns
    BY <1>1, LegacyFound
  <1>6. /\ ltree' = r /\ lallocated' = ms
        /\ IF gone.color = BLACK
             THEN lpc' = "delete_fixup" /\ lnode' = gone.fix /\ lcall' = lcall
             ELSE lpc' = "idle" /\ lnode' = None
    BY LegacyIsSame DEF L!Delete, L!Return
  <1>7. /\ gone.color = BLACK => Sound(r, ms, "delete_fixup", gone.fix, gone.from)
        /\ gone.color # BLACK => Sound(r, ms, "idle", None, None)
        /\ gone.fix # None => gone.from = r.parent[gone.fix]
        /\ \A x \in Clashes(r, ms) : x = gone.fix
    BY <1>2, <1>3, <1>4, <1>5, DeletedSound
  <1>8. gone.fix # None => r.color[gone.fix] = RED
    BY <1>2, <1>3, <1>5, FixIsRed
  <1> HIDE DEF gone, r
  <1>9. CASE gone.color # BLACK
    <2>1. Sound(ltree', lallocated', "idle", None, None)
      BY <1>6, <1>7, <1>9
    <2>2. /\ \E sub2 : Ordered(ltree', lallocated', sub2)
          /\ \E h2 : Balanced(ltree', lallocated', h2, "left", None)
          /\ Clashes(ltree', lallocated') = {}
      BY <2>1, SoundIdle
    <2> QED
      BY <2>2, <1>6, <1>9, LegacySettled
  <1>10. CASE gone.color = BLACK
    <2>1. L!Unlinked' /\ lpc' = "delete_fixup" /\ lnode' = gone.fix
      BY <1>1, <1>6, <1>10 DEF L!Unlinked
    <2>2. CASE gone.fix = None
      <3>1. \E sub2 : Ordered(ltree', lallocated', sub2)
        BY <1>6, <1>7, <1>10 DEF Sound
      <3>2. Clashes(ltree', lallocated') = {}
        <4>1. None \notin Clashes(r, ms)
          BY <1>2, NoneApart DEF Ordered, Clashes
        <4> QED
          BY <1>6, <1>7, <2>2, <4>1
      <3> QED
        BY <2>1, <2>2, <3>1, <3>2 DEF LegacyTree, LegacyLost
    <2>3. CASE gone.fix # None
      <3>1. Sound(ltree', lallocated', lpc', lnode', ltree'.parent[lnode'])
        BY <1>6, <1>7, <1>10, <2>1, <2>3
      <3>2. ltree'.color[lnode'] = RED /\ \A x \in Clashes(ltree', lallocated') : x = lnode'
        BY <1>6, <1>7, <1>8, <2>1, <2>3
      <3> QED
        BY <2>1, <2>3, <3>1, <3>2 DEF LegacyTree, LegacyLost
    <2> QED
      BY <2>2, <2>3
  <1> QED
    BY <1>9, <1>10

\* Every step keeps the tree sound until a deletion is lost.
LEMMA LegacyTreeStep ==
    ASSUME LegacyInv, [L!Next]_legacyVars
    PROVE  LegacyTree'
  <1>1. LegacyTree /\ LegacyControl
    BY DEF LegacyInv
  <1>2. ASSUME UNCHANGED <<ltree, lallocated>>, ~L!Unlinked, lnode' = None,
               lpc \notin {"insert_fixup", "delete_fixup"},
               lpc' \notin {"insert_fixup", "delete_fixup", "crashed"}
        PROVE  LegacyTree'
    BY <1>1, <1>2, LegacyIdle, LegacySettled
  <1>3. CASE L!Calls
    <2>1. PICK op \in {"set", "delete", "destroy"} : \E k, v : L!Call(op, k, v)
      BY <1>3 DEF L!Calls
    <2>2. UNCHANGED <<ltree, lallocated, lnode>> /\ lpc = "idle" /\ lpc' = op
      BY <2>1 DEF L!Call, L!content
    <2> QED
      BY <1>1, <1>2, <2>2 DEF LegacyControl, L!Unlinked
  <1>4. CASE L!InsertReplace \/ L!InsertExits \/ L!DeleteMissing
    <2>1. /\ UNCHANGED <<ltree, lallocated>> /\ lpc \in {"set", "delete"}
          /\ lpc' \in {"idle", "exited"} /\ (lnode' = None \/ lnode' = lnode)
      BY <1>4 DEF L!InsertReplace, L!InsertExits, L!DeleteMissing, L!Return, L!Ends, L!content
    <2> QED
      BY <1>1, <1>2, <2>1 DEF LegacyControl, L!Unlinked
  <1>5. CASE L!InsertNew \/ L!InsertFixup \/ L!InsertFixupEnd
    BY <1>5, LegacyStepInsert
  <1>6. CASE L!Delete
    BY <1>6, LegacyStepDelete
  <1>7. CASE L!DeleteFixupCrashes
    <2>1. /\ lpc = "delete_fixup" /\ lnode = None /\ lpc' = "crashed"
          /\ UNCHANGED <<ltree, lallocated, lcall, lnode>>
      BY <1>7 DEF L!DeleteFixupCrashes, L!Ends, L!content
    <2>2. LegacyLost /\ LegacyLost'
      BY <1>1, <2>1 DEF LegacyLost, L!Unlinked, LegacyControl
    <2> QED
      BY <1>1, <2>1, <2>2 DEF LegacyTree
  <1>8. CASE L!DeleteFixup
    <2> DEFINE r == Paint(ltree, {lnode}, BLACK)
    <2>1. /\ lpc = "delete_fixup" /\ lnode # None
          /\ lnode = ltree.root \/ ltree.color[lnode] = RED
          /\ ltree' = r /\ lallocated' = lallocated /\ lpc' = "idle" /\ lnode' = None
      BY <1>8, LegacyIsSame DEF L!DeleteFixup, L!Return
    <2>2. Sound(ltree, lallocated, "delete_fixup", lnode, ltree.parent[lnode])
      BY <1>1, <2>1 DEF LegacyTree, LegacyLost
    <2>3. /\ \E sub : Ordered(r, lallocated, sub)
          /\ \E h : Balanced(r, lallocated, h, "left", None)
          /\ Clashes(r, lallocated) = {}
      BY <2>1, <2>2, NodePainted
    <2> HIDE DEF r
    <2> QED
      BY <2>1, <2>3, LegacySettled
  <1>9. CASE L!Free
    <2>1. /\ ltree' = NoTree /\ lallocated' = lallocated \ Reached(ltree)
          /\ lpc' = "idle" /\ lnode' = None
      BY <1>9, LegacyIsSame DEF L!Free, L!Return
    <2>2. lallocated' = {}
      BY <2>1, <1>1, LegacyFound
    <2> QED
      BY <2>1, <2>2, EmptySound, LegacySettled
  <1>10. CASE L!FreeCrashes
    <2>1. /\ lpc = "destroy" /\ lpc' = "crashed"
          /\ UNCHANGED <<ltree, lallocated, lcall, lnode>>
      BY <1>10 DEF L!FreeCrashes, L!Ends, L!content
    <2>2. ~L!Unlinked /\ ~(L!Unlinked') /\ lnode = None
      BY <1>1, <2>1 DEF L!Unlinked, LegacyControl
    <2>3. Sound(ltree', lallocated', lpc', lnode', None)
      BY <1>1, <2>1, <2>2, LegacyIdle, SoundIdle, NoneApart
    <2> QED
      BY <2>1, <2>2, <2>3 DEF LegacyTree, LegacyLost
  <1>11. CASE UNCHANGED legacyVars
    <2>1. LegacyLost' = LegacyLost /\ UNCHANGED <<ltree, lallocated, lpc, lnode>>
      BY <1>11 DEF legacyVars, LegacyLost, L!Unlinked
    <2> QED
      BY <1>1, <2>1 DEF LegacyTree
  <1> QED
    BY <1>3, <1>4, <1>5, <1>6, <1>7, <1>8, <1>9, <1>10, <1>11 DEF L!Next, L!Body

\* Every step keeps the values and the size those of the nodes.
LEMMA LegacyCopyStep ==
    ASSUME LegacyInv, [L!Next]_legacyVars
    PROVE  LegacyCopies'
  <1>1. /\ LegacyTree /\ LegacyControl /\ Copies(lallocated, lvalue, lliveValues)
        /\ lsize = Cardinality(lallocated) + (IF L!Unlinked THEN 1 ELSE 0)
    BY DEF LegacyInv, LegacyCopies
  <1>2. /\ Reached(ltree) = lallocated
        /\ \A k \in Keys : L!Found(ltree, k) <=> k \in lallocated
        /\ Cardinality(lallocated) \in Nat
    BY <1>1, LegacyFound, NodesCounted
  <1>3. ASSUME UNCHANGED <<lvalue, lallocated, lliveValues>>,
               \/ lsize' = lsize /\ (L!Unlinked' <=> L!Unlinked)
               \/ lsize' = lsize - 1 /\ L!Unlinked /\ ~(L!Unlinked')
        PROVE  LegacyCopies'
    BY <1>1, <1>2, <1>3 DEF LegacyCopies
  <1>4. CASE L!InsertReplace
    <2> DEFINE k == lcall.key
    <2>1. k \in lallocated /\ lcall.value \in Values
      BY <1>1, <1>2, <1>4 DEF L!InsertReplace, LegacyControl
    <2>2. /\ lliveValues' = [[lliveValues EXCEPT ![lvalue[k]] = @ - 1]
                               EXCEPT ![lcall.value] = @ + 1]
          /\ lvalue' = [lvalue EXCEPT ![k] = lcall.value]
          /\ UNCHANGED <<lsize, lallocated>> /\ lpc = "set" /\ lpc' = "idle"
      BY <1>4 DEF L!InsertReplace, L!Return
    <2> HIDE DEF k
    <2>3. Copies(lallocated, lvalue', lliveValues')
      BY ONLY <1>1, <2>1, <2>2, CopiesReplaced
    <2> QED
      BY <1>1, <2>2, <2>3 DEF LegacyCopies, L!Unlinked
  <1>5. CASE L!InsertNew
    <2> DEFINE k == lcall.key
    <2>1. k \in Keys \ lallocated /\ lcall.value \in Values
      BY <1>1, <1>2, <1>5 DEF L!InsertNew, LegacyControl
    <2>2. /\ lliveValues' = [lliveValues EXCEPT ![lcall.value] = @ + 1]
          /\ lvalue' = [lvalue EXCEPT ![k] = lcall.value]
          /\ lallocated' = lallocated \cup {k} /\ lsize' = lsize + 1
          /\ lpc = "set" /\ lpc' = "insert_fixup"
      BY <1>5 DEF L!InsertNew
    <2> HIDE DEF k
    <2>3. /\ Copies(lallocated', lvalue', lliveValues')
          /\ Cardinality(lallocated') = Cardinality(lallocated) + 1
      BY ONLY <1>1, <2>1, <2>2, CopiesInserted
    <2> QED
      BY <1>1, <1>2, <2>2, <2>3 DEF LegacyCopies, L!Unlinked
  <1>6. CASE L!Delete
    <2> DEFINE k == lcall.key
    <2>1. k \in lallocated /\ lpc = "delete" /\ lcall.op = "delete"
      BY <1>1, <1>2, <1>6 DEF L!Delete, LegacyControl
    <2>2. /\ lliveValues' = [lliveValues EXCEPT ![lvalue[k]] = @ - 1]
          /\ lvalue' = [lvalue EXCEPT ![k] = None]
          /\ lallocated' = lallocated \ {k}
          /\ \/ lpc' = "delete_fixup" /\ lcall' = lcall /\ lsize' = lsize
             \/ lpc' = "idle" /\ lsize' = lsize - 1
      BY <1>6 DEF L!Delete, L!Return
    <2> HIDE DEF k
    <2>3. /\ Copies(lallocated', lvalue', lliveValues')
          /\ Cardinality(lallocated') = Cardinality(lallocated) - 1
      BY ONLY <1>1, <2>1, <2>2, CopiesDeleted
    <2> QED
      BY <1>1, <1>2, <2>1, <2>2, <2>3 DEF LegacyCopies, L!Unlinked
  <1>7. CASE L!Free
    <2>1. lliveValues' = [v \in Values |->
            lliveValues[v] - Cardinality({n \in lallocated : lvalue[n] = v})]
      BY <1>2, <1>7, LegacyIsSame DEF L!Free
    <2>2. /\ lallocated' = {} /\ lsize' = 0 /\ lpc' = "idle"
          /\ lvalue' = [n \in Keys |-> IF n \in lallocated THEN None ELSE lvalue[n]]
      BY <1>2, <1>7, LegacyIsSame DEF L!Free, L!Return
    <2>3. Copies(lallocated', lvalue', lliveValues') /\ Cardinality(lallocated') = 0
      BY ONLY <1>1, <2>1, <2>2, CopiesCleared
    <2> QED
      BY <2>2, <2>3 DEF LegacyCopies, L!Unlinked
  <1>8. CASE L!Calls
    <2>1. PICK op \in {"set", "delete", "destroy"} : \E k, v : L!Call(op, k, v)
      BY <1>8 DEF L!Calls
    <2>2. UNCHANGED <<lsize, lvalue, lallocated, lliveValues>> /\ lpc = "idle" /\ lpc' = op
      BY <2>1 DEF L!Call, L!content
    <2> QED
      BY <2>2, <1>3 DEF L!Unlinked
  <1>9. CASE L!InsertFixup \/ L!InsertFixupEnd \/ L!DeleteMissing \/ L!InsertExits
    <2>1. /\ UNCHANGED <<lsize, lvalue, lallocated, lliveValues>>
          /\ lpc \in {"insert_fixup", "delete", "set"}
          /\ lpc' \in {"insert_fixup", "idle", "exited"}
      BY <1>9 DEF L!InsertFixup, L!InsertFixupEnd, L!DeleteMissing, L!InsertExits, L!Return,
                  L!Ends, L!content
    <2> QED
      BY <2>1, <1>3 DEF L!Unlinked
  <1>10. CASE L!DeleteFixupCrashes \/ L!FreeCrashes
    <2>1. /\ UNCHANGED <<lsize, lvalue, lallocated, lliveValues, lcall>>
          /\ lpc' = "crashed"
          /\ lpc = "delete_fixup" \/ (lpc = "destroy" /\ lcall.op = "destroy")
      BY <1>1, <1>10 DEF L!DeleteFixupCrashes, L!FreeCrashes, L!Ends, L!content, LegacyControl
    <2> QED
      BY <2>1, <1>3 DEF L!Unlinked
  <1>11. CASE L!DeleteFixup
    <2>1. /\ UNCHANGED <<lvalue, lallocated, lliveValues>> /\ lsize' = lsize - 1
          /\ lpc = "delete_fixup" /\ lpc' = "idle" /\ lcall.op = "delete"
      BY <1>1, <1>11 DEF L!DeleteFixup, L!Return, LegacyControl
    <2> QED
      BY <2>1, <1>3 DEF L!Unlinked
  <1>12. CASE UNCHANGED legacyVars
    BY <1>3, <1>12 DEF legacyVars, L!Unlinked
  <1> QED
    BY <1>4, <1>5, <1>6, <1>7, <1>8, <1>9, <1>10, <1>11, <1>12 DEF L!Next, L!Body

\* Nothing that calls of the macros do breaks it.
LEMMA LegacyInvHolds == SpecEach => []LegacyInv
  <1>1. InitEach => LegacyInv
    BY LegacyInitInv DEF InitEach
  <1>2. LegacyInv /\ [NextEach]_<<vars, legacyVars, turn>> => LegacyInv'
    <2> SUFFICES ASSUME LegacyInv, [NextEach]_<<vars, legacyVars, turn>> PROVE LegacyInv'
      OBVIOUS
    <2>1. [L!Next]_legacyVars
      BY DEF NextEach
    <2> QED
      BY <2>1, LegacyTreeStep, LegacyCopyStep, LegacyControlStep DEF LegacyInv
  <1> QED
    BY <1>1, <1>2, PTL DEF SpecEach

\* What a search finds in the tree are the values of its nodes.
LEMMA LegacyContents ==
    ASSUME LegacyInv
    PROVE  [k \in Keys |-> L!At(k)] = lvalue /\ L!Map!Present(lvalue) = lallocated
           /\ \A k \in Keys : lvalue[k] # None <=> k \in lallocated
  <1>1. LegacyTree /\ Copies(lallocated, lvalue, lliveValues)
    BY DEF LegacyInv, LegacyCopies
  <1>2. \A k \in Keys : L!At(k) = lvalue[k]
    BY <1>1, LegacyFound DEF L!At, Copies
  <1>3. \A k \in Keys : lvalue[k] # None <=> k \in lallocated
    BY <1>1, TreeMapAssumption DEF Copies, TreeMapAssumption
  <1>4. L!Map!Present(lvalue) = lallocated
    BY <1>1, <1>3 DEF L!Map!Present, Copies
  <1> QED
    BY <1>1, <1>2, <1>3, <1>4 DEF Copies

\* The macros keep the shape of a red-black tree, and the walks its order,
\* through all that rbt_delete gets away with.
THEOREM LegacyShapeHolds == SpecEach => []LegacyShape
  <1>1. LegacyInv => LegacyShape
    <2> SUFFICES ASSUME LegacyInv PROVE L!LegacyShape
      BY DEF LegacyShape
    <2>1. LegacyTree /\ LegacyCopies /\ LegacyControl
      BY DEF LegacyInv
    <2>2. PICK sub : Ordered(ltree, lallocated, sub)
      BY <2>1 DEF LegacyTree, Sound
    <2>3. L!IsLinked(ltree, lallocated)
      <3>1. IsLinked(ltree, lallocated)
        BY <2>2, OrderedLinked
      <3> QED
        BY <3>1, LegacyIsSame
    <2>4. /\ lsize = L!Cardinality(lallocated) + (IF L!Unlinked THEN 1 ELSE 0)
          /\ \A v \in Values : lliveValues[v] = L!Cardinality({n \in lallocated : lvalue[n] = v})
      <3>1. \A S : L!Cardinality(S) = Cardinality(S)
        BY LegacyIsSame
      <3> QED
        BY <2>1, <3>1 DEF LegacyCopies, Copies, Holding
    <2>5. \A n \in L!Clashes(ltree, lallocated) :
             lpc \in {"insert_fixup", "delete_fixup"} /\ n = lnode
      <3>1. L!Clashes(ltree, lallocated) = Clashes(ltree, lallocated)
        BY LegacyIsSame
      <3>2. CASE LegacyLost
        BY <2>1, <3>1, <3>2 DEF LegacyTree
      <3>3. CASE ~LegacyLost /\ lpc = "delete_fixup"
        <4>1. lnode # None
          BY <2>1, <3>3 DEF LegacyLost, L!Unlinked, LegacyControl
        <4> QED
          BY <2>1, <3>1, <3>3, <4>1 DEF LegacyTree
      <3>4. CASE ~LegacyLost /\ lpc # "delete_fixup"
        BY <2>1, <3>1, <3>4 DEF LegacyTree, Sound
      <3> QED
        BY <3>2, <3>3, <3>4
    <2>6. lpc = "delete_fixup" /\ lnode # None =>
             lnode = ltree.root \/ ltree.color[lnode] = L!RED
      BY <2>1, LegacyIsSame DEF LegacyTree
    <2>7. ASSUME ~LegacyLost
          PROVE  L!Cardinality(L!BlackHeights(ltree, lallocated, L!Short)) <= 1
      <3> DEFINE a == IF lpc = "delete_fixup" THEN ltree.parent[lnode] ELSE None
                 short == ShortFrom(ltree, lpc, lnode, a)
      <3>1. Sound(ltree, lallocated, lpc, lnode, a)
        BY <2>1, <2>7 DEF LegacyTree
      <3>2. Cardinality(BlackHeights(ltree, lallocated, short)) <= 1
        BY <3>1, SoundBlackHeights
      <3>3. lpc = "delete_fixup" => lnode # None
        BY <2>1, <2>7 DEF LegacyLost, L!Unlinked, LegacyControl
      <3>4. L!Short = short
        <4>1. /\ \A t, n : L!AtOrAbove(t, n) = AtOrAbove(t, n)
              /\ L!Sides = Sides
          BY LegacyIsSame
        <4> QED
          BY <3>3, <4>1 DEF L!Short, ShortFrom
      <3> HIDE DEF short
      <3> QED
        BY <3>2, <3>4, LegacyIsSame
    <2>8. ASSUME lpc = "idle"
          PROVE  LET present == {k \in Keys : L!At(k) # None}
                 IN  /\ L!EndOf("left") = L!Least(present)
                     /\ L!EndOf("right") = L!Greatest(present)
                     /\ \A n \in present :
                           /\ L!Step(n, "right") = L!Least({m \in present : m > n})
                           /\ L!Step(n, "left") = L!Greatest({m \in present : m < n})
      <3> DEFINE present == {k \in Keys : L!At(k) # None}
      <3>1. present = lallocated
        <4>1. /\ [k \in Keys |-> L!At(k)] = lvalue
              /\ \A k \in Keys : lvalue[k] # None <=> k \in lallocated
          BY LegacyContents
        <4>2. \A k \in Keys : L!At(k) = lvalue[k]
          BY <4>1
        <4> QED
          BY <2>2, <4>1, <4>2 DEF Ordered
      <3>2. /\ Extreme(ltree, ltree.root, "left") = Least(lallocated)
            /\ Extreme(ltree, ltree.root, "right") = Greatest(lallocated)
        BY <2>2, EndsAre
      <3>3. \A n \in lallocated :
               /\ Neighbor(ltree, n, "right") = Least({m \in lallocated : m > n})
               /\ Neighbor(ltree, n, "left") = Greatest({m \in lallocated : m < n})
        BY <2>2, NeighborsAre
      <3>4. /\ \A s : L!EndOf(s) = Extreme(ltree, ltree.root, s)
            /\ \A n, s : L!Step(n, s) = Neighbor(ltree, n, s)
            /\ \A S : L!Least(S) = Least(S)
            /\ \A S : L!Greatest(S) = Greatest(S)
        BY LegacyIsSame DEF L!EndOf, L!Step
      <3> HIDE DEF present
      <3>5. /\ L!EndOf("left") = L!Least(present)
            /\ L!EndOf("right") = L!Greatest(present)
            /\ \A n \in present :
                  /\ L!Step(n, "right") = L!Least({m \in present : m > n})
                  /\ L!Step(n, "left") = L!Greatest({m \in present : m < n})
        BY ONLY <3>1, <3>2, <3>3, <3>4
      <3> QED
        BY <3>5 DEF present
    <2> QED
      BY <2>3, <2>4, <2>5, <2>6, <2>7, <2>8 DEF L!LegacyShape, LegacyLost
  <1> QED
    BY <1>1, LegacyInvHolds, PTL

\* The abstract map and call that LegacyRBTree!Map names.
LegacyMapped == [k \in Keys |-> L!At(k)]
LegacyMapSize == IF L!Unlinked THEN lsize - 1 ELSE lsize
LegacyMapCall ==
    [lcall EXCEPT !.ret = IF lpc = "insert_fixup" \/ L!Unlinked THEN "ok" ELSE @]

\* They are the values of the nodes and their number; the answer is certain as
\* soon as the node is linked or unlinked.
LEMMA LegacyMapIs ==
    ASSUME LegacyInv
    PROVE  /\ LegacyMapped = lvalue /\ L!Map!Present(LegacyMapped) = lallocated
           /\ LegacyMapSize = Cardinality(lallocated)
           /\ \A k \in Keys : lvalue[k] # None <=> k \in lallocated
           /\ LegacyMapCall.op = lcall.op /\ LegacyMapCall.key = lcall.key
           /\ LegacyMapCall.value = lcall.value
           /\ LegacyMapCall.ret = IF lpc = "insert_fixup" \/ L!Unlinked THEN "ok" ELSE lcall.ret
           /\ \A ret : [LegacyMapCall EXCEPT !.ret = ret] = [lcall EXCEPT !.ret = ret]
           /\ ~(lpc = "insert_fixup" \/ L!Unlinked) => LegacyMapCall = lcall
           /\ lpc = "insert_fixup" \/ L!Unlinked => LegacyMapCall = [lcall EXCEPT !.ret = "ok"]
  <1>1. LegacyMapped = lvalue /\ L!Map!Present(LegacyMapped) = lallocated
        /\ \A k \in Keys : lvalue[k] # None <=> k \in lallocated
    BY LegacyContents DEF LegacyMapped
  <1>2. LegacyMapSize = Cardinality(lallocated)
    <2>1. Cardinality(lallocated) \in Nat
          /\ lsize = Cardinality(lallocated) + (IF L!Unlinked THEN 1 ELSE 0)
      BY NodesCounted DEF LegacyInv, LegacyCopies, Copies
    <2> QED
      BY <2>1 DEF LegacyMapSize
  <1>3. lcall \in [op : {"init", "set", "delete", "destroy"}, key : KeyOrNone,
                   value : Values \cup {None}, ret : {"ok", "error", "pending"}]
    BY DEF LegacyInv, LegacyControl
  <1>4. /\ LegacyMapCall.op = lcall.op /\ LegacyMapCall.key = lcall.key
        /\ LegacyMapCall.value = lcall.value
        /\ LegacyMapCall.ret = IF lpc = "insert_fixup" \/ L!Unlinked THEN "ok" ELSE lcall.ret
    BY <1>3 DEF LegacyMapCall
  <1>5. /\ \A ret : [LegacyMapCall EXCEPT !.ret = ret] = [lcall EXCEPT !.ret = ret]
        /\ ~(lpc = "insert_fixup" \/ L!Unlinked) => LegacyMapCall = lcall
        /\ lpc = "insert_fixup" \/ L!Unlinked => LegacyMapCall = [lcall EXCEPT !.ret = "ok"]
    BY <1>3 DEF LegacyMapCall
  <1> QED
    BY <1>1, <1>2, <1>4, <1>5

\* Every step is one of the abstract map or hidden from it.
LEMMA LegacyMapStep ==
    ASSUME LegacyInv, LegacyInv', [L!Next]_legacyVars
    PROVE  [L!Map!Next]_(L!Map!mapVars)
  <1>1. /\ LegacyMapped = lvalue /\ L!Map!Present(LegacyMapped) = lallocated
        /\ LegacyMapSize = Cardinality(lallocated)
        /\ \A k \in Keys : lvalue[k] # None <=> k \in lallocated
        /\ LegacyMapCall.op = lcall.op /\ LegacyMapCall.key = lcall.key
        /\ LegacyMapCall.value = lcall.value
        /\ LegacyMapCall.ret = IF lpc = "insert_fixup" \/ L!Unlinked THEN "ok" ELSE lcall.ret
        /\ \A ret : [LegacyMapCall EXCEPT !.ret = ret] = [lcall EXCEPT !.ret = ret]
        /\ ~(lpc = "insert_fixup" \/ L!Unlinked) => LegacyMapCall = lcall
        /\ lpc = "insert_fixup" \/ L!Unlinked => LegacyMapCall = [lcall EXCEPT !.ret = "ok"]
    BY LegacyMapIs
  <1>2. /\ LegacyMapped' = lvalue' /\ L!Map!Present(LegacyMapped') = lallocated'
        /\ LegacyMapSize' = Cardinality(lallocated')
        /\ ~(lpc' = "insert_fixup" \/ L!Unlinked') => LegacyMapCall' = lcall'
        /\ lpc' = "insert_fixup" \/ L!Unlinked' => LegacyMapCall' = [lcall' EXCEPT !.ret = "ok"]
    <2>1. (/\ LegacyMapped = lvalue /\ L!Map!Present(LegacyMapped) = lallocated
           /\ LegacyMapSize = Cardinality(lallocated)
           /\ ~(lpc = "insert_fixup" \/ L!Unlinked) => LegacyMapCall = lcall
           /\ lpc = "insert_fixup" \/ L!Unlinked => LegacyMapCall = [lcall EXCEPT !.ret = "ok"])'
      BY LegacyMapIs, PTL
    <2>2. L!Map!Present(LegacyMapped)' = L!Map!Present(LegacyMapped')
      BY DEF L!Map!Present
    <2> QED
      BY <2>1, <2>2
  <1>3. LegacyTree /\ LegacyCopies /\ LegacyControl
    BY DEF LegacyInv
  <1>4. \A S : L!Map!Cardinality(S) = Cardinality(S)
    BY DEF L!Map!Cardinality, Cardinality
  <1> DEFINE Answers(ops, ret, c) ==
               /\ lcall.op \in ops /\ lcall.ret = "pending"
               /\ ~(lpc = "insert_fixup" \/ L!Unlinked)
               /\ LegacyMapCall' = [lcall EXCEPT !.ret = ret]
               /\ lvalue' = c
  <1>5. ASSUME NEW ops, NEW ret, NEW c, Answers(ops, ret, c)
        PROVE  L!Map!Answer(ops, ret, c)
    <2>1. /\ LegacyMapCall.op \in ops /\ ~(LegacyMapCall.ret # "pending")
          /\ LegacyMapCall' = [LegacyMapCall EXCEPT !.ret = ret]
          /\ LegacyMapped' = c /\ LegacyMapSize' = L!Map!Cardinality(L!Map!Present(c))
      BY <1>1, <1>2, <1>4, <1>5
    <2> QED
      BY <2>1 DEF L!Map!Answer, L!Map!Idle, LegacyMapCall, LegacyMapped, LegacyMapSize
  <1>6. ASSUME LegacyMapCall' = LegacyMapCall, UNCHANGED <<lvalue, lallocated>>
        PROVE  UNCHANGED L!Map!mapVars
    <2>1. LegacyMapped' = LegacyMapped /\ LegacyMapSize' = LegacyMapSize
      BY <1>1, <1>2, <1>6
    <2> QED
      BY <2>1, <1>6 DEF L!Map!mapVars, LegacyMapCall, LegacyMapped, LegacyMapSize
  <1>7. ASSUME NEW ops, NEW ret, lpc \in {"set", "delete", "destroy"}, lcall.op \in ops,
               L!Return(ret)
        PROVE  Answers(ops, ret, lvalue')
    <2>1. /\ lcall.ret = "pending" /\ lpc' = "idle" /\ lcall' = [lcall EXCEPT !.ret = ret]
          /\ ~(lpc = "insert_fixup" \/ L!Unlinked)
          /\ ~(lpc' = "insert_fixup" \/ L!Unlinked')
      BY <1>3, <1>7 DEF LegacyControl, L!Return, L!Unlinked
    <2> QED
      BY <2>1, <1>2, <1>7
  <1>8. ASSUME NEW ops, lpc \in {"set", "delete"}, lcall.op \in ops, lcall' = lcall,
               lpc' = "insert_fixup" \/ L!Unlinked'
        PROVE  Answers(ops, "ok", lvalue')
    <2>1. lcall.ret = "pending" /\ ~(lpc = "insert_fixup" \/ L!Unlinked)
      BY <1>3, <1>8 DEF LegacyControl, L!Unlinked
    <2> QED
      BY <2>1, <1>2, <1>8
  <1> HIDE DEF Answers
  <1>9. CASE L!Calls
    <2>1. None \in KeyOrNone /\ KeyOrNone = Keys \cup {None}
          /\ \A e \in LegacyEntries : e[1] \in Keys /\ e[2] \in Values
      BY NoneApart, LegacyAssumption DEF LegacyAssumption, KeyOrNone
    <2>2. PICK op \in {"set", "delete", "destroy"}, k \in KeyOrNone,
               v \in Values \cup {None} : L!Call(op, k, v)
      BY <1>9, <2>1 DEF L!Calls
    <2>3. /\ lpc = "idle" /\ lpc' = op /\ lcall.ret # "pending"
          /\ lcall' = [op |-> op, key |-> k, value |-> v, ret |-> "pending"]
          /\ UNCHANGED <<lvalue, lallocated>>
      BY <2>2, <1>3 DEF L!Call, L!content, LegacyControl
    <2>4. LegacyMapCall = lcall /\ LegacyMapCall' = lcall'
      BY <2>3, <1>1, <1>2 DEF L!Unlinked
    <2>5. LegacyMapped' = LegacyMapped /\ LegacyMapSize' = LegacyMapSize
      BY <2>3, <1>1, <1>2
    <2>6. L!Map!Call(op, k, v)
      BY <2>3, <2>4, <2>5
         DEF L!Map!Call, L!Map!Idle, LegacyMapCall, LegacyMapped, LegacyMapSize
    <2> QED
      BY <2>1, <2>6 DEF L!Map!Next
  <1>10. CASE L!InsertReplace \/ L!InsertNew
    <2>1. /\ lpc = "set" /\ lcall.op = "set" /\ lcall.key \in Keys /\ lcall.value \in Values
          /\ lvalue' = [lvalue EXCEPT ![lcall.key] = lcall.value]
          /\ L!Return("ok") \/ (lcall' = lcall /\ lpc' = "insert_fixup")
      BY <1>3, <1>10 DEF L!InsertReplace, L!InsertNew, LegacyControl
    <2>2. Answers({"set"}, "ok", lvalue')
      <3>1. lpc \in {"set", "delete"} /\ lcall.op \in {"set"}
        BY <2>1
      <3>2. CASE L!Return("ok")
        BY <3>1, <3>2, <1>7
      <3>3. CASE lcall' = lcall /\ lpc' = "insert_fixup"
        BY <3>1, <3>3, <1>8
      <3> QED
        BY <2>1, <3>2, <3>3
    <2>3. L!Map!Answer({"set"}, "ok",
                       [LegacyMapped EXCEPT ![LegacyMapCall.key] = LegacyMapCall.value])
      BY <2>1, <2>2, <1>1, <1>5
    <2>4. LegacyMapCall.key \in Keys /\ LegacyMapCall.value \in Values
      BY <2>1, <1>1
    <2> QED
      BY <2>3, <2>4 DEF L!Map!Next, L!Map!Set, LegacyMapCall, LegacyMapped
  <1>11. CASE L!InsertExits \/ L!InsertFixup \/ L!DeleteFixupCrashes \/ L!FreeCrashes
    <2>1. /\ UNCHANGED <<lvalue, lallocated, lcall>>
          /\ lpc = "insert_fixup" <=> lpc' = "insert_fixup"
          /\ L!Unlinked <=> L!Unlinked'
      BY <1>3, <1>11 DEF L!InsertExits, L!InsertFixup, L!DeleteFixupCrashes, L!FreeCrashes,
                         L!Ends, L!content, L!Unlinked, LegacyControl
    <2>2. LegacyMapCall' = LegacyMapCall
      BY <2>1, <1>1, <1>2
    <2> QED
      BY <2>1, <2>2, <1>6
  <1>12. CASE L!InsertFixupEnd \/ L!DeleteFixup
    <2>1. /\ UNCHANGED <<lvalue, lallocated>> /\ L!Return("ok")
          /\ lpc = "insert_fixup" \/ L!Unlinked
      BY <1>3, <1>12 DEF L!InsertFixupEnd, L!DeleteFixup, L!Unlinked, LegacyControl
    <2>2. lcall' = [lcall EXCEPT !.ret = "ok"] /\ ~(lpc' = "insert_fixup" \/ L!Unlinked')
      BY <2>1 DEF L!Return, L!Unlinked
    <2>3. LegacyMapCall' = LegacyMapCall
      BY <2>1, <2>2, <1>1, <1>2
    <2> QED
      BY <2>1, <2>3, <1>6
  <1>13. CASE L!DeleteMissing
    <2>1. /\ lpc = "delete" /\ lcall.op = "delete" /\ lcall.key \in Keys /\ L!Return("error")
          /\ UNCHANGED lvalue /\ ~L!Found(ltree, lcall.key)
      BY <1>3, <1>13 DEF L!DeleteMissing, L!content, LegacyControl
    <2>2. Answers({"delete"}, "error", lvalue')
      BY <2>1, <1>7
    <2>3. L!Map!Answer({"delete"}, "error", LegacyMapped)
      BY <2>1, <2>2, <1>1, <1>5
    <2>4. LegacyMapCall.key \notin L!Map!Present(LegacyMapped)
      BY <2>1, <1>1, <1>3, LegacyFound
    <2> QED
      BY <2>3, <2>4 DEF L!Map!Next, L!Map!DeleteMissing, LegacyMapCall, LegacyMapped
  <1>14. CASE L!Delete
    <2>1. /\ lpc = "delete" /\ lcall.op = "delete" /\ lcall.key \in Keys
          /\ lvalue' = [lvalue EXCEPT ![lcall.key] = None] /\ L!Found(ltree, lcall.key)
          /\ L!Return("ok") \/ (lcall' = lcall /\ lpc' = "delete_fixup")
      BY <1>3, <1>14 DEF L!Delete, LegacyControl
    <2>2. Answers({"delete"}, "ok", lvalue')
      <3>1. lpc \in {"set", "delete"} /\ lcall.op \in {"delete"}
        BY <2>1
      <3>2. CASE L!Return("ok")
        BY <3>1, <3>2, <1>7
      <3>3. CASE lcall' = lcall /\ lpc' = "delete_fixup"
        <4>1. L!Unlinked'
          BY <2>1, <3>3 DEF L!Unlinked
        <4> QED
          BY <3>1, <3>3, <4>1, <1>8
      <3> QED
        BY <2>1, <3>2, <3>3
    <2>3. L!Map!Answer({"delete"}, "ok", [LegacyMapped EXCEPT ![LegacyMapCall.key] = None])
      BY <2>1, <2>2, <1>1, <1>5
    <2>4. LegacyMapCall.key \in L!Map!Present(LegacyMapped)
      BY <2>1, <1>1, <1>3, LegacyFound
    <2> QED
      BY <2>3, <2>4 DEF L!Map!Next, L!Map!Delete, LegacyMapCall, LegacyMapped
  <1>15. CASE L!Free
    <2>1. /\ lpc = "destroy" /\ lcall.op = "destroy" /\ L!Return("ok")
          /\ lvalue' = [n \in Keys |-> IF n \in L!Reached(ltree) THEN None ELSE lvalue[n]]
      BY <1>3, <1>15 DEF L!Free, LegacyControl
    <2>2. \A n \in Keys : n \notin L!Reached(ltree) => lvalue[n] = None
      <3>1. L!Reached(ltree) = lallocated
        BY <1>3, LegacyFound, LegacyIsSame
      <3> QED
        BY <3>1, <1>1
    <2>3. lvalue' = [k \in Keys |-> None]
      BY <2>1, <2>2
    <2>4. Answers({"clear", "destroy"}, "ok", lvalue')
      BY <2>1, <1>7
    <2> QED
      BY <2>3, <2>4, <1>5 DEF L!Map!Next, L!Map!Clear
  <1>16. CASE UNCHANGED legacyVars
    <2>1. UNCHANGED <<lvalue, lallocated, lcall>> /\ lpc' = lpc /\ (L!Unlinked' <=> L!Unlinked)
      BY <1>16 DEF legacyVars, L!Unlinked
    <2>2. LegacyMapCall' = LegacyMapCall
      BY <2>1, <1>1, <1>2
    <2> QED
      BY <2>1, <2>2, <1>6
  <1> QED
    BY <1>9, <1>10, <1>11, <1>12, <1>13, <1>14, <1>15, <1>16 DEF L!Next, L!Body

\* The macros implement a map until the program ends: whatever rbt_insert,
\* rbt_delete and rbtree_free do, a search, the size and the answers are those
\* of MapSpec, also in the deletions whose fixup reads through NULL.
THEOREM LegacyTreeImplementsMap == SpecEach => LegacyImplementsMap
  <1>1. InitEach => L!Map!Init
    <2> SUFFICES ASSUME InitEach PROVE L!Map!Init
      OBVIOUS
    <2>1. LegacyInv /\ L!Init
      BY LegacyInitInv DEF InitEach
    <2>2. /\ lvalue = NoNode /\ lallocated = {} /\ lpc = "idle"
          /\ lcall = [op |-> "init", key |-> None, value |-> None, ret |-> "ok"]
      BY <2>1, LegacyIsSame DEF L!Init
    <2>3. LegacyMapped = [k \in Keys |-> None] /\ LegacyMapSize = 0
      BY <2>1, <2>2, LegacyMapIs, FS_EmptySet DEF NoNode
    <2>4. LegacyMapCall = [op |-> "init", key |-> None, value |-> None, ret |-> "ok"]
      BY <2>2 DEF LegacyMapCall, L!Unlinked
    <2> QED
      BY <2>3, <2>4 DEF L!Map!Init, LegacyMapCall, LegacyMapped, LegacyMapSize
  <1>2. LegacyInv /\ LegacyInv' /\ [NextEach]_<<vars, legacyVars, turn>>
           => [turn = "legacy" => [L!Map!Next]_(L!Map!mapVars)]_legacyVars
    <2> SUFFICES ASSUME LegacyInv, LegacyInv', [NextEach]_<<vars, legacyVars, turn>>
                 PROVE  [L!Map!Next]_(L!Map!mapVars)
      OBVIOUS
    <2>1. [L!Next]_legacyVars
      BY DEF NextEach
    <2> QED
      BY <2>1, LegacyMapStep
  <1> QED
    BY <1>1, <1>2, LegacyInvHolds, PTL DEF SpecEach, LegacyImplementsMap
=============================================================================
