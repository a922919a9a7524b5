------------------------------ MODULE TreeMap ------------------------------
(***************************************************************************)
(* src/treemap.c: an ordered map in a red-black tree with parent pointers. *)
(*                                                                         *)
(* A node is named by the key it holds.  RedBlackTree has the tree and its *)
(* helpers; here are the calls.  The loops of the fixups take one step per *)
(* iteration; searching is one operator.  A freed node reads as NULL.      *)
(***************************************************************************)
EXTENDS Integers, FiniteSets

CONSTANTS Keys,    \* ordered by key_compare as the integers are
          Values,
          None,    \* NULL: no node, no key, no value
          Entries  \* the pairs that callers pass to treemap_set

ASSUME TreeMapAssumption ==
    /\ Keys \subseteq Int /\ IsFiniteSet(Keys)
    /\ None \notin Keys /\ None \notin Values
    /\ Entries \subseteq (Keys \cup {None}) \X (Values \cup {None})

VARIABLES
    size,           \* struct treemap
    tree,           \* its root and the links and colors of all nodes
    value,          \* the value a node holds
    allocated,      \* the nodes malloc gave and free has not taken back
    liveValues,     \* copies of values made and not yet destroyed
    pc, call,       \* the running call and where it stands
    node, above     \* node and parent of the loops of the fixups

fixup == <<node, above>>
vars == <<size, tree, value, allocated, liveValues, pc, call, fixup>>

INSTANCE RedBlackTree WITH Nodes <- Keys

At(k) == IF Found(tree, k) THEN value[k] ELSE None

-----------------------------------------------------------------------------
Init ==
    /\ size = 0
    /\ tree = NoTree
    /\ value = NoNode
    /\ allocated = {} /\ liveValues = [v \in Values |-> 0]
    /\ pc = "idle" /\ node = None /\ above = None
    /\ call = [op |-> "init", key |-> None, value |-> None, ret |-> "ok"]

Call(op, k, v) ==
    /\ pc = "idle"
    /\ pc' = op
    /\ call' = [op |-> op, key |-> k, value |-> v, ret |-> "pending"]
    /\ UNCHANGED <<size, tree, value, allocated, liveValues, fixup>>

Return(ret) ==
    /\ pc' = "idle"
    /\ call' = [call EXCEPT !.ret = ret]
    /\ node' = None /\ above' = None

Fail ==
    /\ Return("error")
    /\ UNCHANGED <<size, tree, value, allocated, liveValues>>

-----------------------------------------------------------------------------
(* treemap_set *)

\* A NULL key or value, no memory, or a value that cannot be copied.
SetFails ==
    /\ pc = "set"
    /\ Fail

SetReplace ==
    /\ pc = "set" /\ call.key # None /\ call.value # None
    /\ Found(tree, call.key)
    /\ liveValues' = [[liveValues EXCEPT ![call.value] = @ + 1]
                         EXCEPT ![value[call.key]] = @ - 1]
    /\ value' = [value EXCEPT ![call.key] = call.value]
    /\ Return("ok")
    /\ UNCHANGED <<size, tree, allocated>>

\* A new red leaf where the search ended.
SetInsert ==
    /\ pc = "set" /\ call.key # None /\ call.value # None
    /\ ~Found(tree, call.key)
    /\ tree' = Planted(tree, call.key)
    /\ value' = [value EXCEPT ![call.key] = call.value]
    /\ allocated' = allocated \cup {call.key}
    /\ node' = call.key
    /\ liveValues' = [liveValues EXCEPT ![call.value] = @ + 1]
    /\ size' = size + 1
    /\ pc' = "insert_fixup"
    /\ UNCHANGED <<call, above>>

\* One iteration of the loop of treemap_insert_fixup.
InsertFixup ==
    /\ pc = "insert_fixup" /\ RedAbove(tree, node)
    /\ tree' = InsertMended(tree, node)
    /\ node' = IF ColorOf(tree, Uncle(tree, node)) = RED THEN Grandparent(tree, node)
               ELSE IF Inside(tree, node) THEN tree.parent[node] ELSE node
    /\ UNCHANGED <<size, value, allocated, liveValues, pc, call, above>>

InsertFixupEnd ==
    /\ pc = "insert_fixup" /\ ~RedAbove(tree, node)
    /\ tree' = Paint(tree, {tree.root}, BLACK)
    /\ Return("ok")
    /\ UNCHANGED <<size, value, allocated, liveValues>>

-----------------------------------------------------------------------------
(* treemap_delete *)

DeleteMissing ==
    /\ pc = "delete" /\ (call.key # None => ~Found(tree, call.key))
    /\ Fail

Delete ==
    /\ pc = "delete" /\ call.key # None /\ Found(tree, call.key)
    /\ LET k == call.key
           gone == Removed(tree, k)
       IN  /\ tree' = Freed(gone.tree, k)
           /\ liveValues' = [liveValues EXCEPT ![value[k]] = @ - 1]
           /\ value' = [value EXCEPT ![k] = None]
           /\ allocated' = allocated \ {k}
           /\ IF gone.color = BLACK
                THEN /\ pc' = "delete_fixup"
                     /\ node' = gone.fix /\ above' = gone.from
                     /\ UNCHANGED call
                ELSE Return("ok")
    /\ size' = size - 1

BlackMissing ==
    node # tree.root /\ ColorOf(tree, node) = BLACK /\ above # None

\* Mutant: the far nephew is not looked at before the sibling turns red.
DeleteFixupNear ==
    /\ pc = "delete_fixup" /\ BlackMissing
    /\ LET s == SideOf(tree, node, above)
           o == Opposite(s)
           red == tree.child[o][above]
           t1 == IF ColorOf(tree, red) = RED
                   THEN Rotate(Paint(Paint(tree, {red}, BLACK), {above}, RED), above, s)
                   ELSE tree
           sib == t1.child[o][above]
           near == Child(t1, sib, s)
           t2 == Rotate(Paint(Paint(t1, {near}, BLACK), {sib}, RED), sib, o)
           t3 == Paint(t2, {t2.child[o][above]}, ColorOf(t2, above))
       IN  IF ColorOf(t1, near) = BLACK
             THEN /\ tree' = Paint(t1, {sib}, RED)
                  /\ node' = above /\ above' = t1.parent[above]
             ELSE /\ tree' = Rotate(Paint(t3, {above, sib}, BLACK), above, s)
                  /\ node' = tree'.root /\ above' = None
    /\ UNCHANGED <<size, value, allocated, liveValues, pc, call>>

\* One iteration of the loop of treemap_delete_fixup: the side s of above is
\* one black node short.
DeleteFixup ==
    /\ pc = "delete_fixup" /\ BlackMissing
    /\ LET s == SideOf(tree, node, above)
           o == Opposite(s)
           red == tree.child[o][above]
           t1 == IF ColorOf(tree, red) = RED
                   THEN Rotate(Paint(Paint(tree, {red}, BLACK), {above}, RED), above, s)
                   ELSE tree
           sib == t1.child[o][above]
           near == Child(t1, sib, s)
           far == Child(t1, sib, o)
           painted == Paint(Paint(t1, {near}, BLACK), {sib}, RED)
           t2 == IF ColorOf(t1, far) = RED THEN t1
                 ELSE IF sib = None THEN painted ELSE Rotate(painted, sib, o)
           sib2 == t2.child[o][above]
           t3 == Paint(t2, {sib2}, ColorOf(t2, above))
       IN  IF ColorOf(t1, near) = BLACK /\ ColorOf(t1, far) = BLACK
             THEN /\ tree' = Paint(t1, {sib}, RED)
                  /\ node' = above /\ above' = t1.parent[above]
             ELSE /\ tree' = Rotate(Paint(t3, {above, Child(t2, sib2, o)}, BLACK),
                                    above, s)
                  /\ node' = tree'.root /\ above' = None
    /\ UNCHANGED <<size, value, allocated, liveValues, pc, call>>

DeleteFixupEnd ==
    /\ pc = "delete_fixup" /\ ~BlackMissing
    /\ tree' = Paint(tree, {node}, BLACK)
    /\ Return("ok")
    /\ UNCHANGED <<size, value, allocated, liveValues>>

-----------------------------------------------------------------------------
(* treemap_clear, which treemap_destroy calls *)

Clear ==
    /\ pc \in {"clear", "destroy"}
    /\ LET gone == Reached(tree)
       IN  /\ liveValues' = [v \in Values |->
                liveValues[v] - Cardinality({n \in gone : value[n] = v})]
           /\ allocated' = allocated \ gone
           /\ value' = [n \in Keys |-> IF n \in gone THEN None ELSE value[n]]
    /\ tree' = NoTree
    /\ size' = 0
    /\ Return("ok")

-----------------------------------------------------------------------------
(* The functions that walk the tree in order *)

\* Mutant: an equal key is never a bound.
BoundStrict(k, strict) ==
    LET path == Walk(tree.root, [n \in Keys |->
                    tree.child[IF n > k THEN "left" ELSE "right"][n]])
        hits == {d \in DOMAIN path : path[d] # None /\ path[d] > k}
    IN  IF hits = {} THEN None
        ELSE path[CHOOSE d \in hits : \A e \in hits : e <= d]

\* treemap_find_bound_node: the last node of the walk that is a bound.
Bound(k, strict) ==
    LET isBound(n) == n > k \/ (~strict /\ n = k)
        path == Walk(tree.root, [n \in Keys |->
                    tree.child[IF isBound(n) THEN "left" ELSE "right"][n]])
        hits == {d \in DOMAIN path : path[d] # None /\ isBound(path[d])}
    IN  IF hits = {} THEN None
        ELSE path[CHOOSE d \in hits : \A e \in hits : e <= d]

-----------------------------------------------------------------------------
Calls ==
    \/ \E e \in Entries : Call("set", e[1], e[2])
    \/ \E k \in Keys \cup {None} : Call("delete", k, None)
    \/ \E op \in {"clear", "destroy"} : Call(op, None, None)

Body ==
    \/ SetFails \/ SetReplace \/ SetInsert \/ InsertFixup \/ InsertFixupEnd
    \/ DeleteMissing \/ Delete \/ DeleteFixup \/ DeleteFixupEnd
    \/ Clear

Next == Calls \/ Body

Spec == Init /\ [][Next]_vars
-----------------------------------------------------------------------------
(* Properties *)

Trees == [root : Keys \cup {None},
          child : [Sides -> [Keys -> Keys \cup {None}]],
          parent : [Keys -> Keys \cup {None}],
          color : [Keys -> {RED, BLACK, None}]]

\* Every variable stays in its domain.
TypeOK ==
    /\ size \in 0 .. Cardinality(Keys) /\ tree \in Trees
    /\ value \in [Keys -> Values \cup {None}]
    /\ allocated \subseteq Keys /\ liveValues \in [Values -> Int]
    /\ pc \in {"idle", "set", "delete", "clear", "destroy", "insert_fixup",
               "delete_fixup"}
    /\ node \in Keys \cup {None} /\ above \in Keys \cup {None}

\* The links make one binary tree of all nodes that are allocated: no node
\* is leaked or used after free, parents and children agree, and the value
\* copies are those of the nodes.
Linked ==
    /\ TypeOK
    /\ IsLinked(tree, allocated) /\ size = Cardinality(allocated)
    /\ \A v \in Values :
          liveValues[v] = Cardinality({n \in allocated : value[n] = v})

\* The places for a child that lie where delete_fixup still has to make up
\* for a black node.
Short ==
    {e \in Sides \X Keys :
        /\ pc = "delete_fixup"
        /\ IF node = None
             THEN above = None \/ (e[2] = above /\ e[1] = SideOf(tree, node, above))
             ELSE node \in AtOrAbove(tree, e[2])}

\* The red-black shape, and in the middle of a fixup the one exception the
\* loop is about to mend: no other red node has a red parent, and all paths
\* to a missing child have the same number of black nodes.
RedBlack ==
    /\ \A n \in Clashes(tree, allocated) :
          \/ pc = "insert_fixup" /\ n = node
          \/ pc = "delete_fixup" /\ node # None /\ node \in {n, tree.parent[n]}
    /\ Cardinality(BlackHeights(tree, allocated, Short)) <= 1

\* Between calls the map is walked in the order of its keys: the ends, the
\* neighbors of every node and the bounds of every key are those of the set
\* of keys stored.
WalksInOrder ==
    pc = "idle" =>
        LET present == {k \in Keys : At(k) # None}
        IN  /\ Extreme(tree, tree.root, "left") = Least(present)
            /\ Extreme(tree, tree.root, "right") = Greatest(present)
            /\ \A n \in allocated :
                  /\ Neighbor(tree, n, "right") = Least({m \in present : m > n})
                  /\ Neighbor(tree, n, "left") = Greatest({m \in present : m < n})
            /\ \A k \in Keys :
                  /\ Bound(k, FALSE) = Least({m \in present : m >= k})
                  /\ Bound(k, TRUE) = Least({m \in present : m > k})

\* Callers see a map.  Once a node is linked or unlinked the answer of the
\* call is certain, and the fixups change nothing a caller can see.
Map == INSTANCE MapSpec WITH
          contents <- [k \in Keys |-> At(k)],
          call <- [call EXCEPT !.ret =
                     IF pc \in {"insert_fixup", "delete_fixup"} THEN "ok" ELSE @]
ImplementsMap == Map!Spec
=============================================================================
