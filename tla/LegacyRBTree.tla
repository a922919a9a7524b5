--------------------------- MODULE LegacyRBTree ---------------------------
(***************************************************************************)
(* src/legacy/rbtree_typed.h: the red-black tree as macros.                *)
(*                                                                         *)
(* The tree owns the values it is given.  A node is named by the key it    *)
(* holds: rbt_delete of a node with two children moves the successor's key *)
(* and value there and frees the successor's node, which leaves the tree   *)
(* that treemap_delete makes by moving the node itself.                    *)
(***************************************************************************)
EXTENDS Integers, FiniteSets

CONSTANTS Keys,    \* integers, in the order of key_cmp_func
          Values,
          None,    \* NULL
          Entries  \* the keys and values that callers pass to rbt_insert

VARIABLES
    size, tree,     \* struct rbtree
    value,          \* the value a node holds
    allocated,      \* the nodes malloc gave and free has not taken back
    liveValues,     \* values given to the tree and not yet freed
    pc, call,       \* the running call and where it stands
    node            \* the argument of the two fixups

content == <<size, tree, value, allocated, liveValues>>
vars == <<content, pc, call, node>>

INSTANCE RedBlackTree WITH Nodes <- Keys

\* rbt_find
At(k) == IF Found(tree, k) THEN value[k] ELSE None

\* rbt_update_begin for s = "left", rbt_update_end for s = "right".
EndOf(s) == Extreme(tree, tree.root, s)

\* rbt_increment for s = "right", rbt_decrement for s = "left".
Step(n, s) == Neighbor(tree, n, s)

-----------------------------------------------------------------------------
\* rbtree_new
Init ==
    /\ size = 0 /\ tree = NoTree /\ value = NoNode
    /\ allocated = {} /\ liveValues = [v \in Values |-> 0]
    /\ pc = "idle" /\ node = None
    /\ call = [op |-> "init", key |-> None, value |-> None, ret |-> "ok"]

Call(op, k, v) ==
    /\ pc = "idle"
    /\ pc' = op
    /\ call' = [op |-> op, key |-> k, value |-> v, ret |-> "pending"]
    /\ UNCHANGED <<content, node>>

\* The macros return nothing: "error" is a key that rbt_delete did not find.
Return(ret) ==
    /\ pc' = "idle"
    /\ call' = [call EXCEPT !.ret = ret]
    /\ node' = None

\* The program is over: pc keeps the reason.
Ends(reason) == pc' = reason /\ UNCHANGED <<content, call, node>>

-----------------------------------------------------------------------------
(* rbt_insert *)

InsertReplace ==
    /\ pc = "set" /\ Found(tree, call.key)
    /\ liveValues' = [[liveValues EXCEPT ![value[call.key]] = @ - 1]
                         EXCEPT ![call.value] = @ + 1]
    /\ value' = [value EXCEPT ![call.key] = call.value]
    /\ Return("ok")
    /\ UNCHANGED <<size, tree, allocated>>

InsertNew ==
    /\ pc = "set" /\ ~Found(tree, call.key)
    /\ tree' = Planted(tree, call.key)
    /\ value' = [value EXCEPT ![call.key] = call.value]
    /\ allocated' = allocated \cup {call.key}
    /\ liveValues' = [liveValues EXCEPT ![call.value] = @ + 1]
    /\ size' = size + 1
    /\ pc' = "insert_fixup" /\ node' = call.key
    /\ UNCHANGED call

\* exit(1) without memory.
InsertExits == pc = "set" /\ ~Found(tree, call.key) /\ Ends("exited")

\* One iteration of the loop of _rbt_insert_fixup.  With a black uncle it
\* leaves node at the grandparent, whose new parent is black.
InsertFixup ==
    /\ pc = "insert_fixup" /\ RedAbove(tree, node)
    /\ tree' = InsertMended(tree, node)
    /\ node' = Grandparent(tree, node)
    /\ UNCHANGED <<size, value, allocated, liveValues, pc, call>>

\* Mutant: the root stays red.
InsertFixupEndRed ==
    /\ pc = "insert_fixup" /\ ~RedAbove(tree, node)
    /\ Return("ok")
    /\ UNCHANGED content

InsertFixupEnd ==
    /\ pc = "insert_fixup" /\ ~RedAbove(tree, node)
    /\ tree' = Paint(tree, {tree.root}, BLACK)
    /\ Return("ok")
    /\ UNCHANGED <<size, value, allocated, liveValues>>

-----------------------------------------------------------------------------
(* rbt_delete, which asserts that the tree is not empty *)

DeleteMissing ==
    /\ pc = "delete" /\ ~Found(tree, call.key)
    /\ Return("error")
    /\ UNCHANGED content

\* Mutant: the key moves up from the successor, its value does not.
DeleteKeepsValue ==
    /\ pc = "delete" /\ Found(tree, call.key)
    /\ LET gone == Removed(tree, call.key)
           next == Extreme(tree, tree.child["right"][call.key], "left")
       IN  /\ tree' = Freed(gone.tree, call.key)
           /\ value' = IF {tree.child[s][call.key] : s \in Sides} \cap {None} = {}
                         THEN [value EXCEPT ![next] = value[call.key],
                                            ![call.key] = None]
                         ELSE [value EXCEPT ![call.key] = None]
           /\ IF gone.color = BLACK
                THEN pc' = "delete_fixup" /\ node' = gone.fix /\ UNCHANGED <<call, size>>
                ELSE Return("ok") /\ size' = size - 1
    /\ liveValues' = [liveValues EXCEPT ![value[call.key]] = @ - 1]
    /\ allocated' = allocated \ {call.key}

\* The key, its value and a node are gone; the fixup starts at the only child
\* the removed node had, or at NULL.
Delete ==
    /\ pc = "delete" /\ Found(tree, call.key)
    /\ LET gone == Removed(tree, call.key)
       IN  /\ tree' = Freed(gone.tree, call.key)
           /\ IF gone.color = BLACK
                THEN pc' = "delete_fixup" /\ node' = gone.fix /\ UNCHANGED <<call, size>>
                ELSE Return("ok") /\ size' = size - 1
    /\ liveValues' = [liveValues EXCEPT ![value[call.key]] = @ - 1]
    /\ value' = [value EXCEPT ![call.key] = None]
    /\ allocated' = allocated \ {call.key}

\* _rbt_delete_fixup reads or writes the color of its node.
DeleteFixupCrashes == pc = "delete_fixup" /\ node = None /\ Ends("crashed")

\* The loop of _rbt_delete_fixup ends at once: a child that is there is red,
\* which LegacyShape states.
DeleteFixup ==
    /\ pc = "delete_fixup" /\ node # None
    /\ node = tree.root \/ tree.color[node] = RED
    /\ tree' = Paint(tree, {node}, BLACK)
    /\ size' = size - 1
    /\ Return("ok")
    /\ UNCHANGED <<value, allocated, liveValues>>

-----------------------------------------------------------------------------
(* rbtree_free, and rbtree_new for the next tree *)

Free ==
    /\ pc = "destroy"
    /\ tree' = NoTree /\ size' = 0
    /\ value' = [n \in Keys |-> IF n \in Reached(tree) THEN None ELSE value[n]]
    /\ allocated' = allocated \ Reached(tree)
    /\ liveValues' = [v \in Values |->
          liveValues[v] - Cardinality({n \in Reached(tree) : value[n] = v})]
    /\ Return("ok")

\* The walk climbs back through nodes that were freed before their right
\* subtrees; what it reads there may still be the links, or anything.
FreeCrashes ==
    /\ pc = "destroy"
    /\ \E n \in Reached(tree) : tree.child["right"][n] # None
    /\ Ends("crashed")

-----------------------------------------------------------------------------
Calls ==
    \/ \E e \in Entries : Call("set", e[1], e[2])
    \/ tree.root # None /\ \E k \in Keys : Call("delete", k, None)
    \/ Call("destroy", None, None)

Body ==
    \/ InsertReplace \/ InsertNew \/ InsertExits \/ InsertFixup \/ InsertFixupEnd
    \/ DeleteMissing \/ Delete \/ DeleteFixupCrashes \/ DeleteFixup
    \/ Free \/ FreeCrashes

Next == Calls \/ Body

Spec == Init /\ [][Next]_vars
-----------------------------------------------------------------------------
(* Properties *)

\* A deletion that has unlinked its node, and may never return.
Unlinked == call.op = "delete" /\ pc \in {"delete_fixup", "crashed"}

\* The places for a child that are one black node short.
Short ==
    {e \in Sides \X Keys :
        pc = "delete_fixup" /\ node # None /\ node \in AtOrAbove(tree, e[2])}

\* Whatever the code of rbt_delete gets away with leaves a sound tree: links,
\* order, size and values agree and the colors are those of a red-black tree,
\* but for the node a fixup stands at.  A fixup that starts at a node at all
\* ends there: its loop, which reads children that may be NULL, never turns.
LegacyShape ==
    /\ IsLinked(tree, allocated)
    /\ size = Cardinality(allocated) + (IF Unlinked THEN 1 ELSE 0)
    /\ \A v \in Values : liveValues[v] = Cardinality({n \in allocated : value[n] = v})
    /\ \A n \in Clashes(tree, allocated) :
          pc \in {"insert_fixup", "delete_fixup"} /\ n = node
    /\ pc = "delete_fixup" /\ node # None =>
          node = tree.root \/ tree.color[node] = RED
    /\ ~(Unlinked /\ node = None) =>
          Cardinality(BlackHeights(tree, allocated, Short)) <= 1
    /\ pc = "idle" =>
          LET present == {k \in Keys : At(k) # None}
          IN  /\ EndOf("left") = Least(present) /\ EndOf("right") = Greatest(present)
              /\ \A n \in present : /\ Step(n, "right") = Least({m \in present : m > n})
                                    /\ Step(n, "left") = Greatest({m \in present : m < n})

\* src/legacy/rbtree_typed.h:229 says that the node of a deletion fixup "is
\* always a black node.  Initially, it is the former child of the deleted
\* node": then there is one.
FixupHasNode == pc = "delete_fixup" => node # None

\* Callers see a map until the program ends.  The size is written last.
Map == INSTANCE MapSpec WITH
          contents <- [k \in Keys |-> At(k)],
          size <- IF Unlinked THEN size - 1 ELSE size,
          call <- [call EXCEPT !.ret =
                     IF pc = "insert_fixup" \/ Unlinked THEN "ok" ELSE @]
ImplementsMap == Map!Spec
=============================================================================
