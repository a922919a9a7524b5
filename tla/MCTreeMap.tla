----------------------------- MODULE MCTreeMap -----------------------------
(* One instance for TLC of the two red-black trees.                         *)
EXTENDS TreeMapAndLegacy

CONSTANTS v1, v2

\* Seven keys, of which one can get two values, a NULL key and a NULL value;
\* of these keys five are put into the legacy tree.
MCKeys == 1 .. 7
MCEntries == (MCKeys \X {v1}) \cup {<<4, v2>>, <<None, v1>>, <<1, None>>}
MCLegacyEntries == ((1 .. 5) \X {v1}) \cup {<<2, v2>>}
=============================================================================
