---------------------------- MODULE RadixMapCopy ----------------------------
(***************************************************************************)
(* radixmap_copy and radixmap_clone of src/radixmap.c, with RadixMap as    *)
(* the map they copy from.  The copy of a node goes by the name of the     *)
(* node.  The recursion of radixmap_node_clone_chain takes a step for each *)
(* node it allocates, each link it returns to and each level it unwinds.   *)
(***************************************************************************)
EXTENDS RadixMap

CONSTANT MaxCopied \* bound of this model: no larger tree is copied, and
                   \* only after a refused call, which changed nothing

VARIABLES
    phase,  \* "none", "copying", "failed" or "done"
    frames, \* the calls of clone_chain that run: a node, and the link next
    clone,  \* the fields of the copies
    made,   \* the nodes whose copy is allocated
    copies  \* copies of values in the clone, not yet destroyed

copyVars == <<phase, frames, clone, made, copies>>

\* The link clone_chain comes to next: NULL for a NULL link is answered at
\* once, and "end" is where it returns.
AfterChild(n) == [node |-> n, link |-> IF tree[n].next # None THEN "next" ELSE "end"]
Frame(n) ==
    IF tree[n].child # None THEN [node |-> n, link |-> "child"] ELSE AfterChild(n)
Onward(f) ==
    IF f.link = "child" THEN AfterChild(f.node) ELSE [f EXCEPT !.link = "end"]

Top == Last(frames)
Target == tree[Top.node][Top.link] \* where the link of the source leads

NoCopy ==
    /\ phase = "none" /\ frames = <<>> /\ made = {}
    /\ clone = [n \in Nodes |-> Blank] /\ copies = [v \in Values |-> 0]

CopyInit == Init /\ NoCopy

\* A node, and a copy of the value if the source has one; no links as yet.
CopyNode(n) ==
    /\ made' = made \cup {n}
    /\ clone' = [clone EXCEPT ![n] = NodeOf(tree[n].segment, tree[n].value)]
    /\ copies' = [v \in Values |->
                     IF tree[n].value = v THEN copies[v] + 1 ELSE copies[v]]
    /\ frames' = Append(frames, Frame(n))

\* radixmap_copy makes the root of a temporary map first.
CopyBegin ==
    /\ pc = "idle" /\ phase = "none" /\ call.op = "delete" /\ call.key = None
    /\ root # None /\ Cardinality(allocated) <= MaxCopied
    /\ CopyNode(root)
    /\ phase' = "copying"

\* radixmap_node_clone_chain is called for the link of the top frame,
CopyEnter ==
    /\ phase = "copying" /\ Top.link # "end"
    /\ CopyNode(Target)
    /\ UNCHANGED phase

\* finds no memory for the node or cannot copy its value,
CopyFails ==
    /\ phase = "copying" /\ Top.link # "end"
    /\ phase' = "failed"
    /\ UNCHANGED <<frames, clone, made, copies>>

\* or returns the copy of a node whose links are done to the frame below.
CopyReturn ==
    /\ phase = "copying" /\ Top.link = "end" /\ Len(frames) > 1
    /\ LET f == frames[Len(frames) - 1]
       IN  /\ clone' = [clone EXCEPT ![f.node][f.link] = Top.node]
           /\ frames' = Append(SubSeq(frames, 1, Len(frames) - 2), Onward(f))
    /\ UNCHANGED <<phase, made, copies>>

CopyEnd ==
    /\ phase = "copying" /\ Top.link = "end" /\ Len(frames) = 1
    /\ phase' = "done" /\ frames' = <<>>
    /\ UNCHANGED <<clone, made, copies>>

\* radixmap_node_free_chain of the copies ns.
Release(ns) ==
    /\ made' = made \ ns
    /\ clone' = Free(clone, ns)
    /\ copies' = [v \in Values |->
                     copies[v] - Cardinality({n \in ns : clone[n].value = v})]

\* Mutant: a node is freed, but not the links it already has.
UnwindNode ==
    /\ phase = "failed"
    /\ Release({Top.node})
    /\ frames' = Front(frames)
    /\ phase' = IF Len(frames) = 1 THEN "none" ELSE phase

\* A level that got NULL for a link frees its node with all that is linked
\* to it, and fails in turn; radixmap_copy destroys its temporary map.
Unwind ==
    /\ phase = "failed"
    /\ Release(Chain(clone, Top.node))
    /\ frames' = Front(frames)
    /\ phase' = IF Len(frames) = 1 THEN "none" ELSE phase

\* The caller frees the copy when it has no more use for it.
CopyFree ==
    /\ phase = "done"
    /\ Release(Chain(clone, root))
    /\ phase' = "none"
    /\ UNCHANGED frames

CopyNext ==
    \/ phase = "none" /\ Next /\ UNCHANGED copyVars
    \/ /\ \/ CopyBegin \/ CopyEnter \/ CopyFails \/ CopyReturn
          \/ CopyEnd \/ Unwind \/ CopyFree
       /\ UNCHANGED vars

CopySpec == CopyInit /\ [][CopyNext]_<<vars, copyVars>>
-----------------------------------------------------------------------------
(* Properties *)

\* A finished copy has a node for every node of its source, with the same
\* segment, value and links; one that failed, wherever in the recursion, has
\* given back every node and every value it had copied.
CopyExact ==
    /\ phase = "none" => NoCopy
    /\ phase = "done" => made = Linked /\ \A n \in made : clone[n] = tree[n]
    /\ \A v \in Values : copies[v] = Cardinality({n \in made : clone[n].value = v})
=============================================================================
