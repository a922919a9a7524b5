------------------------------- MODULE Graph -------------------------------
(***************************************************************************)
(* src/graph.c: a multigraph with weights, as one vector of edges per      *)
(* vertex.  An undirected edge is in the vectors of both its ends, a loop  *)
(* twice in the one.  The vectors are sequences here (SeqSpec): what they  *)
(* do inside is in Vector.                                                 *)
(***************************************************************************)
EXTENDS BagsExt, Integers, Sequences, FiniteSets, SequencesExt

CONSTANTS None,     \* no vertex: no call is running
          Weights,
          Sizes,    \* the numbers of vertices callers ask for
          Sources,  \* the graphs they copy, with all they consist of
          MaxEdges  \* bound of this model: no more edges are added

VARIABLES
    vertex_count, edge_count, directed, adj, \* struct graph
    pc, call,       \* the running call and where it stands
    ret,            \* the answer of the last call
    edges           \* the caller's view: the bag of edges of the graph

graph == <<vertex_count, edge_count, directed, adj>>
vars == <<graph, pc, call, ret, edges>>

Vertices == 0 .. vertex_count - 1
Edge(from, to, weight) == [from |-> from, to |-> to, weight |-> weight]
NoEdge == Edge(None, None, None)

\* One direction of the edge e, in the vector of its first vertex.
Half(e) == [to |-> e.to, weight |-> e.weight]
Backward(e) == Edge(e.to, e.from, e.weight)

\* An edge as callers count it.
Named(isDirected, e) ==
    [ends |-> IF isDirected THEN <<e.from, e.to>> ELSE {e.from, e.to},
     weight |-> e.weight]

\* No edge; and how often e is in a bag of edges.
NoEdges == [e \in {} |-> 1]
Copies(es, e) == IF e \in DOMAIN es THEN es[e] ELSE 0

\* The copies of edges in a bag, one by one.
Each(es) == UNION {{e} \X (1 .. es[e]) : e \in DOMAIN es}

\* How often the vectors a hold one direction of an edge.
Halves(a, e) == Cardinality({i \in DOMAIN a[e.from] : a[e.from][i] = Half(e)})

\* The vectors hold every edge of the bag g.edges, as often as it is there,
\* once at each of its ends and twice for a loop.
IsGraph(g) ==
    /\ g.count = Cardinality(Each(g.edges))
    /\ DOMAIN g.adj = 0 .. g.size - 1
    /\ \A from, to \in DOMAIN g.adj, w \in Weights :
          Halves(g.adj, Edge(from, to, w)) =
              (IF from = to /\ ~g.directed THEN 2 ELSE 1)
              * Copies(g.edges, Named(g.directed, Edge(from, to, w)))

\* The edges that there are between n vertices, as callers count them.
AllNamed(isDirected, n) ==
    {Named(isDirected, Edge(from, to, w)) :
        from \in 0 .. n - 1, to \in 0 .. n - 1, w \in Weights}

\* What is assumed of the constants: whole graphs as sources.
GraphAssumption ==
    /\ Sizes \subseteq Nat /\ None \notin Nat
    /\ \A s \in Sources :
          /\ s.size \in Nat /\ s.directed \in BOOLEAN
          /\ s.adj \in [0 .. s.size - 1 -> Seq([to : 0 .. s.size - 1, weight : Weights])]
          /\ DOMAIN s.edges \subseteq AllNamed(s.directed, s.size)
          /\ s.edges \in [DOMAIN s.edges -> Nat \ {0}]
          /\ IsFiniteSet(Each(s.edges))
          /\ IsGraph(s)

-----------------------------------------------------------------------------
Return(answer) == pc' = "idle" /\ call' = NoEdge /\ ret' = answer

Fail(answer) == Return(answer) /\ UNCHANGED <<graph, edges>>

\* What graph_init makes.
Empty(isDirected, n) ==
    [directed |-> isDirected, size |-> n, count |-> 0,
     adj |-> [v \in 0 .. n - 1 |-> <<>>], edges |-> NoEdges]

Becomes(g) ==
    /\ vertex_count' = g.size /\ edge_count' = g.count /\ directed' = g.directed
    /\ adj' = g.adj /\ edges' = g.edges

Init ==
    /\ vertex_count = 0 /\ edge_count = 0 /\ directed = FALSE /\ adj = <<>>
    /\ pc = "idle" /\ call = NoEdge /\ ret = 0 /\ edges = NoEdges

Create(isDirected, n) ==
    /\ pc = "idle" /\ vertex_count = 0
    /\ Becomes(Empty(isDirected, n))
    /\ Return(0)

\* graph_init without memory leaves the number of vertices and no vectors:
\* such a graph can only be destroyed.
CreateFails(isDirected, n) ==
    /\ pc = "idle" /\ vertex_count = 0 /\ n > 0
    /\ vertex_count' = n /\ edge_count' = 0 /\ directed' = isDirected
    /\ adj' = <<>> /\ edges' = NoEdges
    /\ pc' = "failed" /\ ret' = -1
    /\ UNCHANGED call

Destroy ==
    /\ pc \in {"idle", "failed"}
    /\ Becomes(Empty(FALSE, 0))
    /\ Return(0)

Clear ==
    /\ pc = "idle"
    /\ Becomes(Empty(directed, vertex_count))
    /\ Return(0)

\* A temporary graph takes the vectors of the source and then the place of
\* the target, or is destroyed when one of its vectors gets no memory.
Copy(s) ==
    /\ pc = "idle"
    /\ Becomes(s)
    /\ Return(0)

CopyFails == pc = "idle" /\ Fail(-1)

-----------------------------------------------------------------------------
(* graph_add_edge *)

InvalidVertex(e) == pc = "idle" /\ ~({e.from, e.to} \subseteq Vertices) /\ Fail(-1)

Pushed(e) == [adj EXCEPT ![e.from] = Append(@, Half(e))]

Added(e) ==
    /\ edge_count' = edge_count + 1
    /\ edges' = BagAdd(edges, Named(directed, e))
    /\ Return(0)

AddEdge(e) ==
    /\ pc = "idle" /\ {e.from, e.to} \subseteq Vertices
    /\ edge_count < MaxEdges
    /\ adj' = Pushed(e)
    /\ IF directed THEN Added(e)
                   ELSE /\ pc' = "half" /\ call' = e
                        /\ UNCHANGED <<edge_count, ret, edges>>
    /\ UNCHANGED <<vertex_count, directed>>

AddEdgeFails(e) == pc = "idle" /\ {e.from, e.to} \subseteq Vertices /\ Fail(-1)

AddReverse ==
    /\ pc = "half"
    /\ adj' = Pushed(Backward(call))
    /\ Added(call)
    /\ UNCHANGED <<vertex_count, directed>>

\* Mutant: the first half of the edge stays.
AddReverseFailsHalf == pc = "half" /\ Fail(-1)

\* The second push fails, and the first one is popped.
AddReverseFails ==
    /\ pc = "half"
    /\ adj' = [adj EXCEPT ![call.from] = Front(@)]
    /\ Return(-1)
    /\ UNCHANGED <<vertex_count, edge_count, directed, edges>>

-----------------------------------------------------------------------------
(* graph_delete_edge *)

\* graph_find_directed_edge: the first such half after the position start.
NotFound == 0
FindFrom(e, start) ==
    LET hits == {i \in DOMAIN adj[e.from] : i > start /\ adj[e.from][i] = Half(e)}
    IN  IF hits = {} THEN NotFound ELSE CHOOSE i \in hits : \A j \in hits : i <= j

FromIndex(e) == FindFrom(e, 0)
ToIndex(e) == FindFrom(Backward(e), IF e.from = e.to THEN FromIndex(e) ELSE 0)

Exists(e) == FromIndex(e) # NotFound /\ (~directed => ToIndex(e) # NotFound)

\* Of a loop the later half goes first, so that the earlier keeps its place.
DeleteEdge(e) ==
    /\ pc = "idle" /\ {e.from, e.to} \subseteq Vertices
    /\ Exists(e)
    /\ LET there == IF directed THEN adj
                    ELSE [adj EXCEPT ![e.to] = RemoveAt(@, ToIndex(e))]
       IN  adj' = [there EXCEPT ![e.from] = RemoveAt(@, FromIndex(e))]
    /\ edge_count' = edge_count - 1
    /\ edges' = BagRemove(edges, Named(directed, e))
    /\ Return(1)
    /\ UNCHANGED <<vertex_count, directed>>

DeleteMissing(e) ==
    /\ pc = "idle" /\ {e.from, e.to} \subseteq Vertices
    /\ ~Exists(e)
    /\ Fail(0)

\* graph_has_edge
HasEdge(from, to) == \E i \in DOMAIN adj[from] : adj[from][i].to = to

-----------------------------------------------------------------------------
Next ==
    \/ \E n \in Sizes, isDirected \in BOOLEAN :
          Create(isDirected, n) \/ CreateFails(isDirected, n)
    \/ Destroy \/ Clear \/ CopyFails
    \/ \E s \in Sources : Copy(s)
    \/ \E from, to \in 0 .. vertex_count, w \in Weights :
          LET e == Edge(from, to, w)
          IN  \/ InvalidVertex(e) \/ AddEdge(e) \/ AddEdgeFails(e)
              \/ DeleteEdge(e) \/ DeleteMissing(e)
    \/ AddReverse \/ AddReverseFails

Spec == Init /\ [][Next]_vars
-----------------------------------------------------------------------------
(* Properties *)

\* Between calls the vectors hold every edge the caller added and did not
\* delete, as often as it was added, once at each of its ends and twice for
\* a loop: no failed call leaves half of an edge, no deletion takes half of
\* one or half of another.  So graph_has_edge and graph_delete_edge find an
\* edge just when it is there.
AdjacencyMatches ==
    pc = "idle" =>
        /\ IsGraph([size |-> vertex_count, count |-> edge_count,
                    directed |-> directed, adj |-> adj, edges |-> edges])
        /\ \A from, to \in Vertices :
              /\ HasEdge(from, to) <=>
                    \E w \in Weights : Named(directed, Edge(from, to, w)) \in DOMAIN edges
              /\ \A w \in Weights :
                    Exists(Edge(from, to, w)) <=>
                        Named(directed, Edge(from, to, w)) \in DOMAIN edges
=============================================================================
