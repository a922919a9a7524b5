------------------------------ MODULE MCDeque ------------------------------
(* One instance for TLC of the deque and of the legacy sequences. *)
EXTENDS DequeAndLegacy

CONSTANTS e1, e2

MCSources == {<<>>, <<e1, e2>>, <<e2, e1, e1>>}
=============================================================================
