----------------------------- MODULE MCRadixMap -----------------------------
(* An instance of RadixMap for TLC: the empty string, keys that branch in   *)
(* three and one that goes on below another, one key with two values, and   *)
(* NULL for a key and for a value.                                          *)
EXTENDS RadixMapCopy

CONSTANTS v1, v2

MCKeys == {<<>>, <<"a", "b">>, <<"a", "c">>, <<"a", "c", "d">>, <<"a", "d">>}
MCEntries == (MCKeys \X {v1})
                 \cup {<< <<"a", "c">>, v2>>, <<None, v1>>, << <<>>, None>>}
=============================================================================
