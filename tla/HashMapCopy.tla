---------------------------- MODULE HashMapCopy ----------------------------
(***************************************************************************)
(* hashmap_copy and hashmap_clone of src/hashmap.c: a caller of the map it *)
(* copies into.  The target is destroyed and initialized again, given room *)
(* for all of the source, and set entry by entry in the order of the       *)
(* source's buckets; the first call that fails has it cleared.  Every one  *)
(* of these calls is made and runs as in HashMap.                          *)
(***************************************************************************)
EXTENDS HashMap, Sequences

CONSTANT Sources \* what callers copy: entries <<key, value>> by bucket

\* A source is a map: it holds no key twice.
ASSUME SourcesAssumption ==
    /\ Sources \subseteq Seq(Keys \X Values)
    /\ \A s \in Sources : \A m, n \in DOMAIN s : s[m][1] = s[n][1] => m = n

VARIABLES copying,    \* the call hashmap_copy has made last, or "none"
          source, at, \* the entries of the source, and those set
          answer      \* what hashmap_copy has answered, until the next call

copy == <<copying, source, at, answer>>

CopyInit == Init /\ copying = "none" /\ source = <<>> /\ at = 0 /\ answer = "none"

\* A call of another function, or the body of any.
Other ==
    /\ Body \/ (copying = "none" /\ Calls)
    /\ IF answer = "none" THEN UNCHANGED copy
       ELSE copying' = "none" /\ source' = <<>> /\ at' = 0 /\ answer' = "none"

CopyBegin(s) ==
    /\ copying = "none"
    /\ Call("destroy", None, None, 0)
    /\ copying' = "destroy" /\ source' = s /\ at' = 0 /\ answer' = "none"

CopyReserve ==
    /\ copying = "destroy"
    /\ Call("reserve", None, None, Len(source))
    /\ copying' = "reserve"
    /\ UNCHANGED <<source, at, answer>>

\* The call made last has returned, and not failed.
Succeeded == pc = "idle" /\ copying \in {"reserve", "set"} /\ call.ret = "ok"

\* One iteration of the loop over the source.
CopySet ==
    /\ Succeeded /\ at < Len(source)
    /\ Call("set", source[at + 1][1], source[at + 1][2], 0)
    /\ copying' = "set" /\ at' = at + 1
    /\ UNCHANGED <<source, answer>>

CopyEnd ==
    /\ Succeeded /\ at >= Len(source)
    /\ copying' = "none" /\ answer' = "ok"
    /\ UNCHANGED <<vars, source, at>>

\* Mutant: what was copied so far stays.
CopyUndoNot ==
    /\ pc = "idle" /\ copying \in {"reserve", "set"} /\ call.ret = "error"
    /\ copying' = "none" /\ answer' = "error"
    /\ UNCHANGED <<vars, source, at>>

CopyUndo ==
    /\ pc = "idle" /\ copying \in {"reserve", "set"} /\ call.ret = "error"
    /\ Call("clear", None, None, 0)
    /\ copying' = "clear"
    /\ UNCHANGED <<source, at, answer>>

CopyFail ==
    /\ pc = "idle" /\ copying = "clear"
    /\ copying' = "none" /\ answer' = "error"
    /\ UNCHANGED <<vars, source, at>>

CopyNext ==
    \/ Other
    \/ \E s \in Sources : CopyBegin(s)
    \/ CopyReserve \/ CopySet \/ CopyEnd \/ CopyUndo \/ CopyFail

CopySpec == CopyInit /\ [][CopyNext]_<<vars, copy>> /\ WF_vars(Body)
-----------------------------------------------------------------------------
(* Properties *)

\* A copy that answers 0 holds the entries of its source and no more; one
\* that fails leaves an empty map, never a part of the source; and the room
\* reserved is enough, so that the loop never rehashes.
CopyExact ==
    /\ answer = "ok" =>
          /\ size = Len(source)
          /\ \A n \in DOMAIN source : At(source[n][1]) = source[n][2]
    /\ answer = "error" => size = 0 /\ Occupied = {} /\ Tombstones = {}
    /\ copying = "set" => pc # "rehash"
=============================================================================
