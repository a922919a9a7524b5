---------------------------- MODULE RedBlackTree --------------------------
(***************************************************************************)
(* A red-black tree with parent pointers as a value, and what the helpers  *)
(* of src/treemap.c make of it.  src/legacy/rbtree_typed.h has the same    *)
(* tree, the same rotations and the same insertion.                        *)
(*                                                                         *)
(* The code writes every branch of its fixups twice, for the left and for  *)
(* the right; here a side is a parameter.                                  *)
(***************************************************************************)
EXTENDS Integers, FiniteSets

CONSTANTS Nodes,  \* a node is named by the key it holds, an integer
          None    \* NULL

RED == "RED"
BLACK == "BLACK"
Sides == {"left", "right"}
Opposite(s) == IF s = "left" THEN "right" ELSE "left"

NoNode == [n \in Nodes |-> None]
NoTree == [root |-> None, child |-> [s \in Sides |-> NoNode],
           parent |-> NoNode, color |-> NoNode]

-----------------------------------------------------------------------------
(* Helpers *)

\* treemap_color_of and treemap_set_color accept NULL.
ColorOf(t, n) == IF n = None THEN BLACK ELSE t.color[n]
Paint(t, ns, c) ==
    [t EXCEPT !.color = [n \in Nodes |-> IF n \in ns THEN c ELSE t.color[n]]]

\* treemap_left_child and treemap_right_child accept NULL as well.
Child(t, n, s) == IF n = None THEN None ELSE t.child[s][n]

SideOf(t, n, p) == IF n = t.child["left"][p] THEN "left" ELSE "right"

SetChild(t, p, s, n) == [t EXCEPT !.child[s][p] = n]
SetParent(t, n, p) ==
    IF n = None THEN t ELSE [t EXCEPT !.parent[n] = p]

\* The node n without children.
Blank(t, n, p, c) ==
    [t EXCEPT !.child = [s \in Sides |-> [t.child[s] EXCEPT ![n] = None]],
              !.parent[n] = p, !.color[n] = c]

\* Makes n the child of p on the side s; the tree's root for p = None.
Attach(t, p, s, n) ==
    IF p = None THEN [t EXCEPT !.root = n] ELSE SetChild(t, p, s, n)

\* Makes n the child of p on the side s, and p its parent.
Link(t, p, s, n) == SetParent(SetChild(t, p, s, n), n, p)

\* treemap_transplant, which the rotations do as well: new takes the place
\* of old below the parent of old.
Transplant(t, old, new) ==
    LET p == t.parent[old]
    IN  SetParent(Attach(t, p, IF p = None THEN "left" ELSE SideOf(t, old, p), new),
                  new, p)

\* Mutant: the subtree that changes sides keeps its parent.
RotateHalf(t, n, s) ==
    LET up == t.child[Opposite(s)][n]
        lowered == SetChild(t, n, Opposite(s), t.child[s][up])
    IN  Link(Transplant(lowered, n, up), up, s, n)

\* treemap_left_rotate for s = "left", treemap_right_rotate for "right": the
\* child of n on the other side takes the place of n.
Rotate(t, n, s) ==
    LET up == t.child[Opposite(s)][n]
        lowered == Link(t, n, Opposite(s), t.child[s][up])
    IN  Link(Transplant(lowered, n, up), up, s, n)

\* The walk from n along the links of next, as far as a tree can be deep.
Walk(n, next) ==
    LET step == [m \in Nodes \cup {None} |-> IF m = None THEN None ELSE next[m]]
        f[d \in 0 .. Cardinality(Nodes)] == IF d = 0 THEN n ELSE step[f[d - 1]]
    IN  f
Last(walk) ==
    walk[CHOOSE d \in DOMAIN walk :
            walk[d] # None /\ (d + 1 \in DOMAIN walk => walk[d + 1] = None)]

\* treemap_minimum and treemap_maximum of the subtree of n.
Extreme(t, n, s) ==
    IF n = None THEN None ELSE Last(Walk(n, t.child[s]))

\* The nodes a search for k visits, and whether it ends at k.
Toward(t, k) ==
    [n \in Nodes |-> IF n > k THEN t.child["left"][n]
                     ELSE IF n < k THEN t.child["right"][n] ELSE None]
Search(t, k) == Walk(t.root, Toward(t, k))
Found(t, k) == LET path == Search(t, k) IN \E d \in DOMAIN path : path[d] = k

\* The parent of a child on the side s.
ParentFrom(t, s) ==
    [m \in Nodes |-> IF t.parent[m] # None /\ m = t.child[s][t.parent[m]]
                        THEN t.parent[m] ELSE None]

\* treemap_next for s = "right", treemap_prev for s = "left".
Neighbor(t, n, s) ==
    IF t.child[s][n] # None
      THEN Extreme(t, t.child[s][n], Opposite(s))
      ELSE t.parent[Last(Walk(n, ParentFrom(t, s)))]

-----------------------------------------------------------------------------
(* Insertion *)

\* The tree with a new red leaf k where the search for k ended.
Planted(t, k) ==
    LET p == IF t.root = None THEN None ELSE Last(Search(t, k))
    IN  Attach(Blank(t, k, p, RED), p, IF p = None \/ p > k THEN "left" ELSE "right", k)

RedAbove(t, n) == n # t.root /\ ColorOf(t, t.parent[n]) = RED

Grandparent(t, n) == t.parent[t.parent[n]]
Uncle(t, n) ==
    LET g == Grandparent(t, n)
    IN  t.child[Opposite(SideOf(t, t.parent[n], g))][g]

\* n lies between its parent and its uncle.
Inside(t, n) ==
    n = t.child[Opposite(SideOf(t, t.parent[n], Grandparent(t, n)))][t.parent[n]]

\* The tree after one iteration of the loop of treemap_insert_fixup.
InsertMended(t, n) ==
    LET p == t.parent[n]
        g == Grandparent(t, n)
        s == SideOf(t, p, g)
        straight == IF Inside(t, n) THEN Rotate(t, p, s) ELSE t
        top == IF Inside(t, n) THEN n ELSE p
    IN  IF ColorOf(t, Uncle(t, n)) = RED
          THEN Paint(Paint(t, {p, Uncle(t, n)}, BLACK), {g}, RED)
          ELSE Rotate(Paint(Paint(straight, {top}, BLACK), {g}, RED), g, Opposite(s))

-----------------------------------------------------------------------------
(* Deletion *)

\* Mutant: the successor does not take over the right subtree of k.
RemovedNear(t, k) ==
    LET l == t.child["left"][k]
        r == t.child["right"][k]
        m == Extreme(t, r, "left")
        fix == t.child["right"][m]
        placed == Transplant(Transplant(t, m, fix), k, m)
    IN  IF l = None \/ r = None
          THEN LET only == IF l = None THEN r ELSE l
               IN  [tree |-> Transplant(t, k, only), color |-> t.color[k],
                    fix |-> only, from |-> t.parent[k]]
          ELSE [tree |-> Paint(Link(placed, m, "left", l), {m}, t.color[k]),
                color |-> t.color[m], fix |-> fix,
                from |-> IF t.parent[m] = k THEN m ELSE t.parent[m]]

\* The tree without k, the color that went with it, and where the fixup
\* starts: at the node fix below from, which may be NULL.  With two children
\* the next greater node moves into the place of k.
Removed(t, k) ==
    LET l == t.child["left"][k]
        r == t.child["right"][k]
        m == Extreme(t, r, "left")
        fix == t.child["right"][m]
        lifted == IF t.parent[m] = k THEN t ELSE Link(Transplant(t, m, fix), m, "right", r)
        placed == Transplant(lifted, k, m)
    IN  IF l = None \/ r = None
          THEN LET only == IF l = None THEN r ELSE l
               IN  [tree |-> Transplant(t, k, only), color |-> t.color[k],
                    fix |-> only, from |-> t.parent[k]]
          ELSE [tree |-> Paint(Link(placed, m, "left", l), {m}, t.color[k]),
                color |-> t.color[m], fix |-> fix,
                from |-> IF t.parent[m] = k THEN m ELSE t.parent[m]]

\* free of the node n.
Freed(t, n) == Blank(t, n, None, None)

-----------------------------------------------------------------------------
(* Clearing, and the chain of parents *)

\* The chain of parents of n, n first.
Upward(t, n) == Walk(n, t.parent)
AtOrAbove(t, n) ==
    LET up == Upward(t, n) IN {up[d] : d \in DOMAIN up} \ {None}

\* The nodes treemap_clear_node comes to, from the root down.
Reached(t) ==
    LET f[d \in 0 .. Cardinality(Nodes)] ==
            IF d = 0 THEN {t.root} \ {None}
            ELSE LET seen == f[d - 1]
                 IN  seen \cup ({t.child[s][n] : s \in Sides, n \in seen} \ {None})
    IN  f[Cardinality(Nodes)]

-----------------------------------------------------------------------------
(* Shape *)

\* The links make one binary tree of the nodes ns: parents and children
\* agree.
IsLinked(t, ns) ==
    /\ Reached(t) = ns
    /\ t.root # None => t.parent[t.root] = None
    /\ \A n \in ns, s \in Sides :
          t.child[s][n] # None => t.parent[t.child[s][n]] = n
    /\ \A n \in ns \ {t.root} : n \in {t.child[s][t.parent[n]] : s \in Sides}

\* The red nodes at the root or below a red node.
Clashes(t, ns) ==
    {n \in ns : t.color[n] = RED /\ (n = t.root \/ t.color[t.parent[n]] = RED)}

\* The black nodes from n up to the root.
Blacks(t, n) == Cardinality({m \in AtOrAbove(t, n) : t.color[m] = BLACK})

\* The numbers of black nodes on the paths to the missing children, where
\* the places in short, which lack one, count one more.
BlackHeights(t, ns, short) ==
    LET ends == {e \in Sides \X ns : t.child[e[1]][e[2]] = None}
    IN  {Blacks(t, e[2]) + (IF e \in short THEN 1 ELSE 0) : e \in ends}

Least(S) == IF S = {} THEN None ELSE CHOOSE n \in S : \A m \in S : n <= m
Greatest(S) == IF S = {} THEN None ELSE CHOOSE n \in S : \A m \in S : m <= n
=============================================================================
