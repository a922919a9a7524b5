-------------------------- MODULE TreeMapAndLegacy --------------------------
(* The two red-black trees side by side: treemap.c and the legacy macros of *)
(* src/legacy/rbtree_typed.h, which stores the same keys and values.  They  *)
(* do not interact; turn says which of them a behavior is about.            *)
EXTENDS TreeMap

CONSTANTS LegacyEntries, \* the keys and values that callers pass to rbt_insert
          Turns          \* the trees to look at

ASSUME LegacyAssumption == LegacyEntries \subseteq Keys \X Values

VARIABLES turn, lsize, ltree, lvalue, lallocated, lliveValues, lpc, lcall, lnode

legacyVars == <<lsize, ltree, lvalue, lallocated, lliveValues, lpc, lcall, lnode>>

L == INSTANCE LegacyRBTree WITH
        Entries <- LegacyEntries, size <- lsize, tree <- ltree,
        value <- lvalue, allocated <- lallocated, liveValues <- lliveValues,
        pc <- lpc, call <- lcall, node <- lnode

InitEach == Init /\ L!Init /\ turn \in Turns

NextEach ==
    /\ \/ turn = "treemap" /\ Next /\ UNCHANGED legacyVars
       \/ turn = "legacy" /\ L!Next /\ UNCHANGED vars
    /\ UNCHANGED turn

SpecEach == InitEach /\ [][NextEach]_<<vars, legacyVars, turn>>

\* LegacyRBTree: a sound tree.
LegacyShape == turn = "legacy" => L!LegacyShape

\* A map: L!ImplementsMap, which steps of the other tree cannot break, as they
\* change nothing here.
LegacyImplementsMap ==
    L!Map!Init /\ [][turn = "legacy" => [L!Map!Next]_(L!Map!mapVars)]_legacyVars

\* What a comment says of its fixup.
FixupHasNode == L!FixupHasNode
=============================================================================
