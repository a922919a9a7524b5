------------------------------ MODULE MCArrays ------------------------------
(* One instance for TLC of the containers that keep all they have in one or *)
(* two arrays.                                                              *)
EXTENDS Arrays

CONSTANTS e1, e2

MCElements == 1 .. 3
MCSegElements == {e2}
MCArray == {<<>>, <<e2>>, <<e1, e2, e1>>, <<e2, e1, e2, e1>>}
MCStrings == {<<>>, <<"1">>, <<"1", "0", "1", "1", "0">>, <<"1", "x", "0", "0", "1">>}
MCTexts == {<<>>, <<e1>>, <<e2, NUL>>, <<e1, e1>>}
MCCharSets == {{}, {e1}}
=============================================================================
