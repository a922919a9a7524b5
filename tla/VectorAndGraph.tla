--------------------------- MODULE VectorAndGraph ---------------------------
(* The vector side by side with graphs, whose vectors are sequences there.  *)
(* They do not interact; turn says which of them a behavior is about.       *)
EXTENDS Vector

CONSTANTS Weights, Sizes, Graphs, MaxEdges \* of Graph; Graphs are its Sources

VARIABLES turn, vertex_count, edge_count, directed, adj, graphPc, graphCall, graphRet, edges

graphVars == <<vertex_count, edge_count, directed, adj, graphPc, graphCall, graphRet, edges>>

G == INSTANCE Graph WITH Sources <- Graphs, pc <- graphPc, call <- graphCall, ret <- graphRet

\* What Graph assumes.
ASSUME GraphsAssumption == G!GraphAssumption

InitEach == Init /\ G!Init /\ turn \in {"vector", "graph"}

NextEach ==
    /\ \/ turn = "vector" /\ Next /\ UNCHANGED graphVars
       \/ turn = "graph" /\ G!Next /\ UNCHANGED vars
    /\ UNCHANGED turn

SpecEach == InitEach /\ [][NextEach]_<<vars, graphVars, turn>>

\* Graph: the vectors hold the edges added and not deleted.
AdjacencyMatches == turn = "graph" => G!AdjacencyMatches
=============================================================================
