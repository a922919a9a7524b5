----------------------------- MODULE MCHashMap -----------------------------
(* Small instances of HashMap and HashMapCopy for TLC. *)
EXTENDS HashMapCopy, TLC

CONSTANTS k1, k2, k3, k4, k5, k6, k7, v1, v2

\* k1 and k2 collide in the last bucket, so their chain wraps around; k3
\* lands where it wraps to; k4 joins them in a table of 4 buckets only, and
\* k5 joins k3 there and k1 in a table of 8.
MCHash == k1 :> 3 @@ k2 :> 11 @@ k3 :> 0 @@ k4 :> 7 @@ k5 :> 4
          @@ k6 :> 3 @@ k7 :> 15

MCHashKeys == [k \in Keys |-> MCHash[k]]

\* What is copied: maps of 4 and 8 buckets, with their entries in the order of
\* the buckets.
MCSources == {<<>>, <<<<k3, v1>>, <<k2, v2>>, <<k1, v1>>>>,
              <<<<k3, v2>>, <<k1, v1>>, <<k2, v1>>, <<k4, v2>>>>}
=============================================================================
