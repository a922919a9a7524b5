--------------------------- MODULE DequeAndLegacy ---------------------------
(* The deque side by side with the two sequences of src/legacy, the ring of *)
(* deque_typed.h and the array of vector_typed.h, which hold the same       *)
(* elements.  They do not interact; turn says which of them a behavior is   *)
(* about.                                                                   *)
EXTENDS Deque

CONSTANTS RingInitCapacity, RingMaxCapacity,  \* of LegacyDeque
          ArrayInitCapacity, ArrayMaxCapacity \* of LegacyVector

\* Both start at 8 in the code.  The ring keeps one slot free.
ASSUME LegacyAssumption ==
    /\ RingInitCapacity \in Nat \ {0, 1} /\ RingMaxCapacity \in Nat
    /\ ArrayInitCapacity \in Nat \ {0} /\ ArrayMaxCapacity \in Nat

VARIABLES turn, ringCapacity, ringHead, ringTail, ringData, ringExpected,
          arrayCapacity, arraySize, arrayData, arrayExpected

ringVars == <<ringCapacity, ringHead, ringTail, ringData, ringExpected>>
arrayVars == <<arrayCapacity, arraySize, arrayData, arrayExpected>>

R == INSTANCE LegacyDeque WITH
        InitCapacity <- RingInitCapacity, MaxCapacity <- RingMaxCapacity,
        capacity <- ringCapacity, head <- ringHead, tail <- ringTail,
        data <- ringData, expected <- ringExpected
A == INSTANCE LegacyVector WITH
        InitCapacity <- ArrayInitCapacity, MaxCapacity <- ArrayMaxCapacity,
        capacity <- arrayCapacity, size <- arraySize, data <- arrayData,
        expected <- arrayExpected

InitEach == Init /\ R!Init /\ A!Init /\ turn \in {"deque", "ring", "array"}

NextEach ==
    /\ \/ turn = "deque" /\ Next /\ UNCHANGED <<ringVars, arrayVars>>
       \/ turn = "ring" /\ R!Next /\ UNCHANGED <<vars, arrayVars>>
       \/ turn = "array" /\ A!Next /\ UNCHANGED <<vars, ringVars>>
    /\ UNCHANGED turn

SpecEach == InitEach /\ [][NextEach]_<<vars, ringVars, arrayVars, turn>>

\* The legacy deque and vector hold what the caller has put there.
LegacySequences == R!RingMatches /\ A!ArrayMatches
=============================================================================
