------------------------------ MODULE RadixMap ------------------------------
(***************************************************************************)
(* src/radixmap.c: a map from strings in a compressed radix tree.  Every   *)
(* node but the root carries a nonempty segment of the keys below it; the  *)
(* children of a node are a list.  A string is a sequence of characters.   *)
(*                                                                         *)
(* A split takes a step for each node it allocates, a deletion one for     *)
(* every level of its recursion; finding a key is one operator.            *)
(***************************************************************************)
EXTENDS Integers, SequencesExt

CONSTANTS Keys,     \* a set of strings
          Values,
          None,     \* NULL
          Entries,  \* the pairs that callers pass to radixmap_set
          MaxNodes  \* memory: no more nodes than this

ASSUME RadixMapAssumption ==
    /\ None \notin Keys /\ None \notin Values
    /\ Entries \subseteq (Keys \cup {None}) \X (Values \cup {None})
    /\ MaxNodes \in Nat \ {0} /\ None \notin 1 .. MaxNodes

VARIABLES
    size, root,   \* struct radixmap
    tree,         \* the fields of all nodes
    allocated,    \* the nodes malloc gave and free has not taken back
    liveValues,   \* copies of values made and not yet destroyed
    pc, call,     \* the running call and where it stands
    prefix, leaf, \* locals of radixmap_split_insert
    path,         \* the levels of radixmap_delete_node still to return
    unmerged      \* nodes that could not be merged for want of memory

vars == <<size, root, tree, allocated, liveValues, pc, call, prefix, leaf,
          path, unmerged>>

Nodes == 1 .. MaxNodes
Pointers == Nodes \cup {None}

-----------------------------------------------------------------------------
(* The tree as a value *)

\* op(x), where TLC evaluates x only once.
With(x, op(_)) == CHOOSE y \in {op(z) : z \in {x}} : TRUE

Strings == Seq(UNION {Range(k) : k \in Keys})

Fields == [segment : Strings,
           child : Pointers, next : Pointers, value : Values \cup {None}]
Blank == [segment |-> <<>>, child |-> None, next |-> None, value |-> None]

\* A list of siblings from n on.
Siblings(t, n) ==
    LET list[m \in Pointers] == IF m = None THEN <<>> ELSE <<m>> \o list[t[m].next]
    IN  list[n]
Children(t, n) == Siblings(t, t[n].child)

\* radixmap_find_child_link: the first child whose segment starts with ch.
ChildFor(t, n, ch) ==
    LET search[m \in Pointers] ==
            IF m = None \/ Head(t[m].segment) = ch THEN m ELSE search[t[m].next]
    IN  search[t[n].child]

\* radixmap_common_prefix_len
CommonPrefixLen(s, k) == Len(LongestCommonPrefix({s, k}))

\* Every link that leads to n leads to m instead.
Redirect(t, n, m) ==
    [x \in Nodes |->
        [t[x] EXCEPT !.child = IF @ = n THEN m ELSE @,
                     !.next = IF @ = n THEN m ELSE @]]

\* n at the end of the list of the children of p.
AppendChild(t, p, n) ==
    IF t[p].child = None THEN [t EXCEPT ![p].child = n]
                         ELSE [t EXCEPT ![Last(Children(t, p))].next = n]

\* The descent along k as long as whole segments match: the nodes it passes
\* and the rest of k that is left.
Descent(k) ==
    LET down[nodes \in Seq(Nodes), rest \in Strings] ==
            IF rest = <<>> THEN [nodes |-> nodes, rest |-> rest]
            ELSE With(ChildFor(tree, Last(nodes), Head(rest)), LAMBDA c :
                    IF c = None \/ ~IsPrefix(tree[c].segment, rest)
                      THEN [nodes |-> nodes, rest |-> rest]
                      ELSE down[Append(nodes, c),
                                SubSeq(rest, Len(tree[c].segment) + 1, Len(rest))])
    IN  down[<<root>>, k]

\* radixmap_match_exact_const and radixmap_at
At(k) ==
    IF root = None THEN None
    ELSE With(Descent(k), LAMBDA at :
            IF at.rest = <<>> THEN tree[Last(at.nodes)].value ELSE None)

\* Mutant: a prefix must end where a segment ends.
HasPrefixWhole(p) ==
    IF root = None THEN FALSE
    ELSE IF p = <<>> THEN size # 0
    ELSE Descent(p).rest = <<>>

\* radixmap_has_prefix
HasPrefix(p) ==
    IF root = None THEN FALSE
    ELSE IF p = <<>> THEN size # 0
    ELSE \E at \in {Descent(p)} :
            at.rest = <<>> \/ LET c == ChildFor(tree, Last(at.nodes), Head(at.rest))
                              IN  c # None /\ IsPrefix(at.rest, tree[c].segment)

-----------------------------------------------------------------------------
Init ==
    /\ size = 0 /\ root = 1
    /\ tree = [n \in Nodes |-> Blank]
    /\ allocated = {root}
    /\ liveValues = [v \in Values |-> 0]
    /\ pc = "idle" /\ prefix = None /\ leaf = None /\ path = <<>>
    /\ unmerged = {}
    /\ call = [op |-> "init", key |-> None, value |-> None, ret |-> "ok"]

Call(op, k, v) ==
    /\ pc = "idle"
    /\ pc' = op
    /\ call' = [op |-> op, key |-> k, value |-> v, ret |-> "pending"]
    /\ UNCHANGED <<size, root, tree, allocated, liveValues, prefix, leaf, path,
                   unmerged>>

Return(ret) ==
    /\ pc' = "idle"
    /\ call' = [call EXCEPT !.ret = ret]
    /\ prefix' = None /\ leaf' = None /\ path' = <<>>

Fail ==
    /\ Return("error")
    /\ UNCHANGED <<size, root, tree, allocated, liveValues, unmerged>>

Fresh == CHOOSE n \in Nodes \ allocated : \A m \in Nodes \ allocated : n <= m

\* radixmap_node_new and radixmap_store_value: a node with the segment s,
\* holding a copy of the value of the call if v is that value.
NewNode(s, v) ==
    /\ allocated # Nodes
    /\ allocated' = allocated \cup {Fresh}
    /\ liveValues' = IF v = None THEN liveValues
                     ELSE [liveValues EXCEPT ![v] = @ + 1]

NodeOf(s, v) == [Blank EXCEPT !.segment = s, !.value = v]

Free(t, ns) == [n \in Nodes |-> IF n \in ns THEN Blank ELSE t[n]]

-----------------------------------------------------------------------------
(* radixmap_set *)

\* No tree, a NULL argument, no memory, or a value that cannot be copied.
SetFails ==
    /\ pc = "set"
    /\ Fail

Setting == pc = "set" /\ root # None /\ call.key # None /\ call.value # None

\* Where the descent of the call ends, and the child it cannot enter.
Here == Last(Descent(call.key).nodes)
Rest == Descent(call.key).rest
Below == ChildFor(tree, Here, Head(Rest))
Common == CommonPrefixLen(tree[Below].segment, Rest)

\* The key ends at a node.
SetHere ==
    /\ Setting /\ Rest = <<>>
    /\ LET old == tree[Here].value
           more == [liveValues EXCEPT ![call.value] = @ + 1]
       IN  /\ liveValues' = IF old = None THEN more ELSE [more EXCEPT ![old] = @ - 1]
           /\ size' = IF old = None THEN size + 1 ELSE size
    /\ tree' = [tree EXCEPT ![Here].value = call.value]
    /\ unmerged' = unmerged \ {Here}
    /\ Return("ok")
    /\ UNCHANGED <<root, allocated>>

SetLeaf ==
    /\ Setting /\ Rest # <<>> /\ Below = None
    /\ NewNode(Rest, call.value)
    /\ tree' = [AppendChild(tree, Here, Fresh)
                   EXCEPT ![Fresh] = NodeOf(Rest, call.value)]
    /\ size' = size + 1
    /\ unmerged' = unmerged \ {Here}
    /\ Return("ok")
    /\ UNCHANGED root

\* radixmap_split_insert makes the node for the common part, with the value
\* if the key ends there,
SplitPrefix ==
    /\ Setting /\ Rest # <<>> /\ Below # None
    /\ LET s == SubSeq(Rest, 1, Common)
           v == IF Common = Len(Rest) THEN call.value ELSE None
       IN  /\ NewNode(s, v)
           /\ tree' = [tree EXCEPT ![Fresh] = NodeOf(s, v)]
           /\ pc' = IF v = None THEN "split_leaf" ELSE "split_link"
    /\ prefix' = Fresh
    /\ UNCHANGED <<size, root, call, leaf, path, unmerged>>

\* and otherwise a leaf with the rest of the key,
SplitLeaf ==
    /\ pc = "split_leaf"
    /\ LET s == SubSeq(Rest, Common + 1, Len(Rest))
       IN  /\ NewNode(s, call.value)
           /\ tree' = [tree EXCEPT ![Fresh] = NodeOf(s, call.value)]
    /\ leaf' = Fresh
    /\ pc' = "split_link"
    /\ UNCHANGED <<size, root, call, prefix, path, unmerged>>

\* Mutant: the node made before is forgotten.
SplitFailsLeaks ==
    /\ pc = "split_leaf"
    /\ Fail

\* or gives the first node back if it cannot,
SplitFails ==
    /\ pc = "split_leaf"
    /\ tree' = Free(tree, {prefix})
    /\ allocated' = allocated \ {prefix}
    /\ Return("error")
    /\ UNCHANGED <<size, root, liveValues, unmerged>>

\* Mutant: the old node keeps its whole segment.
SplitLinkWhole ==
    /\ pc = "split_link"
    /\ LET n == Below
           t == [Redirect(tree, n, prefix) EXCEPT
                    ![prefix].next = tree[n].next, ![n].next = None]
       IN  tree' = IF leaf = None THEN [t EXCEPT ![prefix].child = n]
                   ELSE [t EXCEPT ![prefix].child = leaf, ![leaf].next = n]
    /\ size' = size + 1
    /\ Return("ok")
    /\ UNCHANGED <<root, allocated, liveValues, unmerged>>

\* and puts it into the place of the node that is split.
SplitLink ==
    /\ pc = "split_link"
    /\ LET n == Below
           s == tree[n].segment
           t == [Redirect(tree, n, prefix) EXCEPT
                    ![prefix].next = tree[n].next, ![n].next = None,
                    ![n].segment = SubSeq(s, Common + 1, Len(s))]
       IN  tree' = IF leaf = None THEN [t EXCEPT ![prefix].child = n]
                   ELSE [t EXCEPT ![prefix].child = leaf, ![leaf].next = n]
    /\ size' = size + 1
    /\ Return("ok")
    /\ UNCHANGED <<root, allocated, liveValues, unmerged>>

-----------------------------------------------------------------------------
(* radixmap_delete *)

DeleteMissing ==
    /\ pc = "delete" /\ (call.key # None => At(call.key) = None)
    /\ Fail

DeleteValue ==
    /\ pc = "delete" /\ call.key # None
    /\ At(call.key) # None
    /\ liveValues' = [liveValues EXCEPT ![At(call.key)] = @ - 1]
    /\ tree' = [tree EXCEPT ![Here].value = None]
    /\ size' = size - 1
    /\ path' = Descent(call.key).nodes
    /\ pc' = "unwind"
    /\ UNCHANGED <<root, allocated, call, prefix, leaf, unmerged>>

\* One level of radixmap_delete_node returns: its node is of no more use,
Bare(n) == n # root /\ tree[n].value = None /\ tree[n].child = None

RemoveNode ==
    /\ pc = "unwind"
    /\ LET n == Last(path)
       IN  /\ Bare(n)
           /\ tree' = Free(Redirect(tree, n, tree[n].next), {n})
           /\ allocated' = allocated \ {n}
           /\ unmerged' = unmerged \ {n}
    /\ path' = Front(path)
    /\ UNCHANGED <<size, root, liveValues, pc, call, prefix, leaf>>

\* Mutant: the node whose value was deleted itself is not merged.
MergeableAbove(n) ==
    /\ n # root /\ tree[n].value = None
    /\ tree[n].child # None /\ tree[tree[n].child].next = None
    /\ n # Here

\* or leads to a single child, with which it is merged,
Mergeable(n) ==
    /\ n # root /\ tree[n].value = None
    /\ tree[n].child # None /\ tree[tree[n].child].next = None

Merge ==
    /\ pc = "unwind"
    /\ LET n == Last(path)
           c == tree[n].child
           merged == [segment |-> tree[n].segment \o tree[c].segment,
                      child |-> tree[c].child, next |-> tree[n].next,
                      value |-> tree[c].value]
       IN  /\ Mergeable(n)
           /\ tree' = Free([tree EXCEPT ![n] = merged], {c})
           /\ allocated' = allocated \ {c}
           /\ unmerged' = IF c \in unmerged THEN (unmerged \ {c}) \cup {n}
                                            ELSE unmerged \ {n}
    /\ path' = Front(path)
    /\ UNCHANGED <<size, root, liveValues, pc, call, prefix, leaf>>

\* unless there is no memory for the longer segment,
MergeFails ==
    /\ pc = "unwind"
    /\ Mergeable(Last(path))
    /\ unmerged' = unmerged \cup {Last(path)}
    /\ path' = Front(path)
    /\ UNCHANGED <<size, root, tree, allocated, liveValues, pc, call, prefix, leaf>>

\* or it stays as it is.
KeepNode ==
    /\ pc = "unwind" /\ Len(path) > 1
    /\ ~Bare(Last(path)) /\ ~Mergeable(Last(path))
    /\ path' = Front(path)
    /\ UNCHANGED <<size, root, tree, allocated, liveValues, pc, call, prefix,
                   leaf, unmerged>>

\* The root stays in any case.
DeleteEnd ==
    /\ pc = "unwind" /\ Len(path) = 1
    /\ Return("ok")
    /\ UNCHANGED <<size, root, tree, allocated, liveValues, unmerged>>

-----------------------------------------------------------------------------
(* radixmap_clear, which keeps the root, and radixmap_destroy *)

\* The nodes radixmap_node_free_chain comes to from the list that starts at n.
Chain(t, n) ==
    LET chain[m \in Pointers] ==
            IF m = None THEN {} ELSE {m} \cup chain[t[m].next] \cup chain[t[m].child]
    IN  chain[n]

Cleared(gone) ==
    /\ tree' = Free(tree, gone)
    /\ liveValues' = [v \in Values |->
           liveValues[v] - Cardinality({n \in gone : tree[n].value = v})]
    /\ size' = 0
    /\ unmerged' = {}
    /\ Return("ok")

Clear ==
    /\ pc = "clear" /\ root # None
    /\ Cleared(Chain(tree, root))
    /\ allocated' = {root}
    /\ UNCHANGED root

Destroy ==
    /\ pc = "destroy" /\ root # None
    /\ Cleared(Chain(tree, root))
    /\ allocated' = allocated \ Chain(tree, root)
    /\ root' = None

\* A destroyed map is left alone.
NothingToClear ==
    /\ pc \in {"clear", "destroy"} /\ root = None
    /\ Return("ok")
    /\ UNCHANGED <<size, root, tree, allocated, liveValues, unmerged>>

-----------------------------------------------------------------------------
Calls ==
    \/ \E e \in Entries : Call("set", e[1], e[2])
    \/ \E k \in Keys \cup {None} : Call("delete", k, None)
    \/ \E op \in {"clear", "destroy"} : Call(op, None, None)

Next ==
    \/ Calls
    \/ SetFails \/ SetHere \/ SetLeaf
    \/ SplitPrefix \/ SplitLeaf \/ SplitFails \/ SplitLink
    \/ DeleteMissing \/ DeleteValue
    \/ RemoveNode \/ Merge \/ MergeFails \/ KeepNode \/ DeleteEnd
    \/ Clear \/ Destroy \/ NothingToClear

Spec == Init /\ [][Next]_vars
-----------------------------------------------------------------------------
(* Properties *)

\* Every variable stays in its domain.
TypeOK ==
    /\ size \in Nat /\ root \in {1, None}
    /\ \A n \in Nodes : tree[n] \in Fields
    /\ allocated \subseteq Nodes /\ liveValues \in [Values -> Nat]
    /\ pc \in {"idle", "set", "split_leaf", "split_link", "delete", "unwind",
               "clear", "destroy"}
    /\ prefix \in Pointers /\ leaf \in Pointers /\ Range(path) \subseteq Nodes
    /\ unmerged \subseteq allocated

Linked == IF root = None THEN {} ELSE Chain(tree, root)

\* The links make a tree: no node is leaked or used after free, each is linked
\* once, siblings start with different characters, and the copies of values
\* are those of the nodes, a failing split included.
TreeShape ==
    /\ TypeOK
    /\ allocated = Linked \cup ({prefix, leaf} \ {None})
    /\ Linked \cap {prefix, leaf} = {}
    /\ Cardinality({x \in Linked \X {"child", "next"} :
                       tree[x[1]][x[2]] # None}) + 1
         = Cardinality(Linked) \/ Linked = {}
    /\ \A n \in allocated \ {root} : tree[n].segment # <<>>
    /\ \A n \in Linked :
          LET c == Children(tree, n)
          IN  \A i, j \in DOMAIN c :
                 Head(tree[c[i]].segment) = Head(tree[c[j]].segment) => i = j
    /\ size = Cardinality({n \in Linked : tree[n].value # None})
    /\ \A v \in Values :
          liveValues[v] = Cardinality({n \in allocated : tree[n].value = v})

\* Every prefix of a stored key, the key itself, and one character more.
Probes ==
    UNION {{SubSeq(k, 1, i) : i \in 0 .. Len(k)} \cup {Append(k, c) : c \in Range(k)} :
              k \in Keys}

\* Between calls radixmap_has_prefix answers for the keys stored: deletions
\* and failures leave no branch behind that leads to no key.
PrefixesMatch ==
    pc = "idle" =>
        \A p \in Probes :
            HasPrefix(p) <=> \E k \in Keys : At(k) # None /\ IsPrefix(p, k)

\* Between calls a node without a value branches, or memory was missing when
\* it should have been merged.
Compressed ==
    pc = "idle" =>
        \A n \in allocated \ ({root} \cup unmerged) :
            tree[n].value = None => Len(Children(tree, n)) >= 2

\* Callers see a map.  The answer of a deletion is certain once the value is
\* gone; what follows changes nothing a caller can see.
Map == INSTANCE MapSpec WITH
          contents <- [k \in Keys |-> At(k)],
          call <- [call EXCEPT !.ret = IF pc = "unwind" THEN "ok" ELSE @]
ImplementsMap == Map!Spec
=============================================================================
