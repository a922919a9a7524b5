--------------------------- MODULE MCLegacyDict ---------------------------
(* Instances of LegacyDict for TLC. *)
EXTENDS LegacyDict

CONSTANTS v1, v2, v3

\* In tables of 2, 4, 8 and 16 buckets, as full as they get, the chains of
\* these keys never wrap around.  The four that are not 0 would fill a table of
\* 4, and two of them one of 2, where a probe for another would never end.
ForwardKeys == {0, 1, 2, 9, 17}

\* All three collide in the last bucket of a table of 8.
WrappingKeys == {7, 15, 23}

CollidingKeys == {1, 2, 9}
=============================================================================
