------------------------------ MODULE MCVector ------------------------------
(* One instance for TLC of vectors and of the graphs that are made of them. *)
EXTENDS VectorAndGraph

CONSTANTS e1, e2

MCSources == {<<>>, <<e1, e2>>, <<e2, e1, e1>>}

Half(to, weight) == [to |-> to, weight |-> weight]
Named(ends, weight) == [ends |-> ends, weight |-> weight]

\* Edges 0 -> 1 and 1 -> 1; and an edge between 0 and 2 with a loop at 1.
MCGraphs ==
    {[directed |-> TRUE, size |-> 2, count |-> 2,
      adj |-> [v \in 0 .. 1 |-> <<Half(1, v + 1)>>],
      edges |-> [e \in {Named(<<0, 1>>, 1), Named(<<1, 1>>, 2)} |-> 1]],
     [directed |-> FALSE, size |-> 3, count |-> 2,
      adj |-> [v \in 0 .. 2 |-> IF v = 1 THEN <<Half(1, 1), Half(1, 1)>>
                                ELSE <<Half(2 - v, 1)>>],
      edges |-> [e \in {Named({0, 2}, 1), Named({1}, 1)} |-> 1]]}
=============================================================================
