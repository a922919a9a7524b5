------------------------------ MODULE Probing ------------------------------
(* Linear probing in a table of cap buckets, for hashmap.c and dict_typed.h. *)
EXTENDS Integers

Buckets(cap) == 0 .. cap - 1

\* How many steps of index = (index + 1) & mask lead from bucket h to b.
Dist(h, b, cap) == IF h <= b THEN b - h ELSE b + cap - h

\* The bucket of S that a probe from bucket h meets first.
FirstFrom(S, h, cap) ==
    CHOOSE b \in S : \A c \in S : Dist(h, b, cap) <= Dist(h, c, cap)
=============================================================================
