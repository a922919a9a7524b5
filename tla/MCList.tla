------------------------------ MODULE MCList ------------------------------
(* An instance of List for TLC.  Nodes are interchangeable. *)
EXTENDS List, TLC

CONSTANTS e1, e2, n1, n2, n3, n4

MCSources == {<<>>, <<e1, e2>>, <<e2, e1, e1>>}

NodeSymmetry == Permutations(Nodes)
=============================================================================
