------------------------------- MODULE List -------------------------------
(***************************************************************************)
(* src/list.c: a doubly-linked list.  Callers address elements by index or *)
(* by node; either way a call works on the nodes of the list.              *)
(*                                                                         *)
(* For a call by node, call.at is the position the node has, so that the   *)
(* abstract sequence need not know of nodes.  list_clear and list_copy     *)
(* take a step for every node.  What a node held is gone with free: a use  *)
(* after free reads NULL.                                                  *)
(***************************************************************************)
EXTENDS Integers, Sequences, FiniteSets

CONSTANTS Elements,
          Nodes,     \* the memory malloc has for nodes
          None,      \* NULL: no element, no node
          Indices,   \* the indices callers use
          Sources    \* the contents of the lists they copy from

ASSUME ListAssumption ==
    /\ None \notin Elements \cup Nodes
    /\ IsFiniteSet(Nodes)
    /\ Indices \subseteq Nat /\ 0 \in Indices
    /\ \A n \in Indices : n < Cardinality(Nodes) => n + 1 \in Indices
    /\ Sources \subseteq Seq(Elements) /\ <<>> \in Sources

VARIABLES
    head, tail, size,  \* struct list
    prev, next, data,  \* struct list_node, for every node
    allocated,         \* the nodes malloc gave and free has not taken back
    live,              \* copies of elements made and not yet destroyed
    pc, call,          \* the running call and where it stands
    node,              \* the node a call by node was given
    cur, i             \* the loops of list_clear and list_copy

list == <<head, tail, size>>
links == <<prev, next>>
loop == <<cur, i>>
vars == <<list, links, data, allocated, live, pc, call, node, loop>>

\* The first m links from a node on.
Follow(start, link, m) ==
    LET f[n \in 0 .. m] == IF n = 0 THEN start ELSE link[f[n - 1]]
    IN  f

\* The loops of list_node_at, from the front and from the back.
Forward == Follow(head, next, size)
Backward == Follow(tail, prev, size)

\* Mutant: the walk from the back goes one node too far.
NodeAtOff(index) ==
    IF index <= size \div 2 THEN Forward[index] ELSE Backward[size - index]

\* list_node_at for an index in range.
NodeAt(index) ==
    IF index <= size \div 2 THEN Forward[index] ELSE Backward[size - 1 - index]

-----------------------------------------------------------------------------
Init ==
    /\ head = None /\ tail = None /\ size = 0
    /\ prev = [n \in Nodes |-> None] /\ next = [n \in Nodes |-> None]
    /\ data = [n \in Nodes |-> None]
    /\ allocated = {}
    /\ live = [e \in Elements |-> 0]
    /\ pc = "idle" /\ node = None /\ cur = None /\ i = 0
    /\ call = [op |-> "init", elem |-> None, at |-> 0, source |-> <<>>,
               ret |-> "ok"]

Call(op, e, n, s) ==
    /\ pc = "idle"
    /\ pc' = op
    /\ call' = [op |-> op, elem |-> e, at |-> n, source |-> s, ret |-> "pending"]
    /\ UNCHANGED <<list, links, data, allocated, live, node, loop>>

\* A call of the function f on the node at position n of the list, which
\* has the effect of the call op.
CallNode(f, op, e, n) ==
    /\ pc = "idle" /\ n < size
    /\ pc' = f
    /\ node' = Forward[n]
    /\ call' = [op |-> op, elem |-> e, source |-> <<>>, ret |-> "pending",
                at |-> IF f = "insert_after" THEN n + 1 ELSE n]
    /\ UNCHANGED <<list, links, data, allocated, live, loop>>

Return(ret) ==
    /\ pc' = "idle"
    /\ call' = [call EXCEPT !.ret = ret]
    /\ node' = None /\ cur' = None /\ i' = 0

Fail ==
    /\ Return("error")
    /\ UNCHANGED <<list, links, data, allocated, live>>

-----------------------------------------------------------------------------
(* list_push_back, list_push_front, list_insert and its variants *)

\* Mutant: the node before the new one keeps pointing past it.
LinkBetweenHalf(n, p, q) ==
    /\ prev' = [m \in Nodes |-> IF m = n THEN p ELSE IF m = q THEN n ELSE prev[m]]
    /\ next' = [next EXCEPT ![n] = q]
    /\ head' = IF p = None THEN n ELSE head
    /\ tail' = IF q = None THEN n ELSE tail
    /\ size' = size + 1

\* list_link_between
LinkBetween(n, p, q) ==
    /\ prev' = [m \in Nodes |-> IF m = n THEN p ELSE IF m = q THEN n ELSE prev[m]]
    /\ next' = [m \in Nodes |-> IF m = n THEN q ELSE IF m = p THEN n ELSE next[m]]
    /\ head' = IF p = None THEN n ELSE head
    /\ tail' = IF q = None THEN n ELSE tail
    /\ size' = size + 1

\* list_alloc_node and list_link_between: a node of its own for a copy of e.
AddNode(e, p, q) ==
    \E n \in Nodes \ allocated :
        /\ allocated' = allocated \cup {n}
        /\ data' = [data EXCEPT ![n] = e]
        /\ live' = [live EXCEPT ![e] = @ + 1]
        /\ LinkBetween(n, p, q)

\* list_insert pushes at the ends; in between it inserts before a node.
Add ==
    /\ call.elem # None
    /\ CASE pc = "push_back" -> AddNode(call.elem, tail, None)
         [] pc = "push_front" -> AddNode(call.elem, None, head)
         [] pc = "insert" ->
              /\ call.at <= size
              /\ IF call.at = 0 THEN AddNode(call.elem, None, head)
                 ELSE IF call.at = size THEN AddNode(call.elem, tail, None)
                 ELSE AddNode(call.elem, prev[NodeAt(call.at)], NodeAt(call.at))
         [] pc = "insert_before" -> AddNode(call.elem, prev[node], node)
         [] pc = "insert_after" -> AddNode(call.elem, node, next[node])
         [] OTHER -> FALSE
    /\ Return("ok")

\* A NULL element, an index out of range, no node, or no copy of the
\* element: nothing is linked, and the node is freed at once.
AddFails ==
    /\ pc \in {"push_back", "push_front", "insert", "insert_before",
               "insert_after"}
    /\ Fail

-----------------------------------------------------------------------------
(* list_pop_back, list_pop_front, list_erase, list_erase_node *)

Shrunk == size - 1

\* list_erase_node: list_unlink_node, then the element and the node go.
EraseNode(n) ==
    /\ next' = [m \in Nodes |-> IF m = n THEN None
                               ELSE IF m = prev[n] THEN next[n] ELSE next[m]]
    /\ prev' = [m \in Nodes |-> IF m = n THEN None
                               ELSE IF m = next[n] THEN prev[n] ELSE prev[m]]
    /\ head' = IF prev[n] = None THEN next[n] ELSE head
    /\ tail' = IF next[n] = None THEN prev[n] ELSE tail
    /\ size' = Shrunk
    /\ live' = [live EXCEPT ![data[n]] = @ - 1]
    /\ allocated' = allocated \ {n}
    /\ data' = [data EXCEPT ![n] = None]

Erase ==
    /\ CASE pc = "pop_back" -> size > 0 /\ EraseNode(tail)
         [] pc = "pop_front" -> size > 0 /\ EraseNode(head)
         [] pc = "erase" -> call.at < size /\ EraseNode(NodeAt(call.at))
         [] pc = "erase_node" -> EraseNode(node)
         [] OTHER -> FALSE
    /\ Return("ok")

PopMissing ==
    /\ pc \in {"pop_back", "pop_front"} /\ size = 0
    /\ Fail

EraseMissing ==
    /\ pc = "erase" /\ call.at >= size
    /\ Return("ok")
    /\ UNCHANGED <<list, links, data, allocated, live>>

-----------------------------------------------------------------------------
(* list_set, list_set_node, list_clear, list_destroy, list_copy *)

Set ==
    /\ pc = "set_node" \/ (pc = "set" /\ call.at < size)
    /\ call.elem # None
    /\ LET n == IF pc = "set" THEN NodeAt(call.at) ELSE node
       IN  /\ live' = [[live EXCEPT ![call.elem] = @ + 1]
                          EXCEPT ![data[n]] = @ - 1]
           /\ data' = [data EXCEPT ![n] = call.elem]
    /\ Return("ok")
    /\ UNCHANGED <<list, links, allocated>>

SetFails ==
    /\ pc \in {"set", "set_node"}
    /\ Fail

\* list_clear, alone or on behalf of list_destroy and list_copy.
ClearBegin ==
    /\ pc \in {"clear", "destroy", "copy"}
    /\ cur' = head
    /\ pc' = "clearing"
    /\ UNCHANGED <<list, links, data, allocated, live, call, node, i>>

Clearing == pc \in {"clearing", "unwinding"}

Free(n) ==
    /\ allocated' = allocated \ {n}
    /\ prev' = [prev EXCEPT ![n] = None]
    /\ next' = [next EXCEPT ![n] = None]
    /\ data' = [data EXCEPT ![n] = None]

\* One iteration: the next node is read before the node is freed.
ClearStep ==
    /\ Clearing /\ cur # None
    /\ live' = [live EXCEPT ![data[cur]] = @ - 1]
    /\ Free(cur)
    /\ cur' = next[cur]
    /\ UNCHANGED <<list, pc, call, node, i>>

\* list_copy goes on with its loop, or fails when that loop has failed.
ClearEnd ==
    /\ Clearing /\ cur = None
    /\ head' = None /\ tail' = None /\ size' = 0
    /\ IF pc = "clearing" /\ call.op = "copy"
         THEN pc' = "copying" /\ UNCHANGED <<call, node, loop>>
         ELSE Return(IF pc = "clearing" THEN "ok" ELSE "error")
    /\ UNCHANGED <<links, data, allocated, live>>

\* One iteration of the loop of list_copy pushes an element of the source.
CopyStep ==
    /\ pc = "copying" /\ i < Len(call.source)
    /\ AddNode(call.source[i + 1], tail, None)
    /\ i' = i + 1
    /\ UNCHANGED <<pc, call, node, cur>>

\* No node or no copy for it: the list is cleared, then the call fails.
CopyFails ==
    /\ pc = "copying" /\ i < Len(call.source)
    /\ cur' = head
    /\ pc' = "unwinding"
    /\ UNCHANGED <<list, links, data, allocated, live, call, node, i>>

CopyEnd ==
    /\ pc = "copying" /\ i >= Len(call.source)
    /\ Return("ok")
    /\ UNCHANGED <<list, links, data, allocated, live>>

-----------------------------------------------------------------------------
Args == Elements \cup {None}

Calls ==
    \/ \E op \in {"push_back", "push_front"}, e \in Args : Call(op, e, 0, <<>>)
    \/ \E op \in {"insert", "set"}, e \in Args, n \in Indices : Call(op, e, n, <<>>)
    \/ \E op \in {"pop_back", "pop_front", "clear", "destroy"} :
          Call(op, None, 0, <<>>)
    \/ \E n \in Indices : Call("erase", None, n, <<>>)
    \/ \E s \in Sources : Call("copy", None, 0, s)
    \/ \E e \in Args, n \in Indices :
          \/ CallNode("insert_before", "insert", e, n)
          \/ CallNode("insert_after", "insert", e, n)
          \/ CallNode("set_node", "set", e, n)
    \/ \E n \in Indices : CallNode("erase_node", "erase", None, n)

Body ==
    \/ Add \/ AddFails \/ Erase \/ PopMissing \/ EraseMissing
    \/ Set \/ SetFails \/ ClearBegin \/ ClearStep \/ ClearEnd
    \/ CopyStep \/ CopyFails \/ CopyEnd

Next == Calls \/ Body

Spec == Init /\ [][Next]_vars
-----------------------------------------------------------------------------
(* Properties *)

NodeCalls == {"insert_before", "insert_after", "set_node", "erase_node"}
Functions == {"push_back", "push_front", "insert", "pop_back", "pop_front",
              "erase", "set", "clear", "destroy", "copy"}
Phases == Functions \cup NodeCalls \cup {"idle", "clearing", "copying", "unwinding"}
CallRecords ==
    [op : Functions \cup {"init"}, elem : Args, at : Nat,
     source : Seq(Elements), ret : {"ok", "error", "pending"}]

\* Every variable stays in its domain.
TypeOK ==
    /\ head \in Nodes \cup {None} /\ tail \in Nodes \cup {None} /\ size \in Nat
    /\ prev \in [Nodes -> Nodes \cup {None}]
    /\ next \in [Nodes -> Nodes \cup {None}]
    /\ data \in [Nodes -> Args]
    /\ allocated \subseteq Nodes /\ live \in [Elements -> Int]
    /\ pc \in Phases /\ call \in CallRecords
    /\ node \in Nodes \cup {None} /\ cur \in Nodes \cup {None} /\ i \in Nat

Chain == {Forward[n] : n \in 0 .. size - 1}

\* The elements front to back; those list_clear has not yet come to.
Count == Cardinality(allocated)
Start == IF Clearing THEN cur ELSE head
Sequence == [n \in 1 .. Count |-> data[Follow(Start, next, Count)[n - 1]]]

\* The phases belong to their functions, and list_copy has copied its first
\* i elements.
ControlShape ==
    /\ pc = "idle" <=> call.ret # "pending"
    /\ pc \in Functions => call.op = pc
    /\ pc \in {"insert_before", "insert_after"} => call.op = "insert"
    /\ pc = "set_node" => call.op = "set"
    /\ pc = "erase_node" => call.op = "erase"
    /\ pc = "clearing" => call.op \in {"clear", "destroy", "copy"}
    /\ pc \in {"copying", "unwinding"} => call.op = "copy"
    /\ pc \notin {"copying", "unwinding"} => i = 0
    /\ pc = "copying" =>
          /\ i = size /\ i <= Len(call.source)
          /\ \A n \in 1 .. i : Sequence[n] = call.source[n]

\* The nodes in the order o: the links lead from each to the next one, and
\* back unless the list is being cleared; a call by node has the one at its
\* position.
Linked(o) ==
    /\ \A n \in allocated : \E k \in 1 .. Count : o[k] = n
    /\ \A j, k \in 1 .. Count : o[j] = o[k] => j = k
    /\ Start = IF Count = 0 THEN None ELSE o[1]
    /\ \A k \in 1 .. Count :
          /\ next[o[k]] = IF k = Count THEN None ELSE o[k + 1]
          /\ data[o[k]] \in Elements
    /\ ~Clearing =>
          /\ size = Count
          /\ tail = IF Count = 0 THEN None ELSE o[Count]
          /\ \A k \in 1 .. Count : prev[o[k]] = IF k = 1 THEN None ELSE o[k - 1]
    /\ pc \in NodeCalls =>
          LET k == IF pc = "insert_after" THEN call.at ELSE call.at + 1
          IN  k \in 1 .. Count /\ node = o[k]

\* The nodes from head on are size many, all allocated and no other is: none
\* is leaked and none used after free.  The way back from tail meets the
\* same nodes, and no link leads out of the list.  Every copy of an element
\* that was made and not yet destroyed is in exactly one node, also while
\* the list is being cleared.
ListShape ==
    /\ TypeOK /\ ControlShape
    /\ \E o \in [1 .. Count -> allocated] : Linked(o)
    /\ ~Clearing =>
         /\ Chain = allocated /\ Count = size
         /\ \A n \in 0 .. size - 1 : Backward[n] = Forward[size - 1 - n]
         /\ Forward[size] = None /\ Backward[size] = None
    /\ \A e \in Elements :
          live[e] = Cardinality({n \in 1 .. Count : Sequence[n] = e})

\* Callers see a sequence, whichever way they address its elements.
Seqn == INSTANCE SeqSpec WITH contents <- Sequence
ImplementsSequence == Seqn!Spec
=============================================================================
