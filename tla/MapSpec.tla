------------------------------ MODULE MapSpec ------------------------------
(***************************************************************************)
(* What every keyed container of libcp promises, whatever it is built      *)
(* from: a finite map, a size, and calls that either take effect and       *)
(* answer "ok" (0 in C) or change nothing and answer "error" (-1 in C).    *)
(* HashMap, TreeMap, RadixMap and LegacyRBTree implement this              *)
(* specification.                                                          *)
(***************************************************************************)
EXTENDS Naturals, FiniteSets

CONSTANTS Keys, Values,
          None      \* no key, no value: a NULL argument or an absent entry

VARIABLES contents, \* contents[k] is the value lookups of k return, or None
          size,     \* what the size accessor returns
          call      \* the running call, or the last one with its answer

mapVars == <<contents, size, call>>

Present(c) == {k \in Keys : c[k] # None}

Idle == call.ret # "pending"

Init ==
    /\ contents = [k \in Keys |-> None]
    /\ size = 0
    /\ call = [op |-> "init", key |-> None, value |-> None, ret |-> "ok"]

Call(op, k, v) ==
    /\ Idle
    /\ call' = [op |-> op, key |-> k, value |-> v, ret |-> "pending"]
    /\ UNCHANGED <<contents, size>>

\* The running call of one of the operations ops answers ret and leaves
\* the container holding c.
Answer(ops, ret, c) ==
    /\ call.op \in ops
    /\ ~Idle
    /\ call' = [call EXCEPT !.ret = ret]
    /\ contents' = c
    /\ size' = Cardinality(Present(c))

Set ==
    /\ call.key \in Keys
    /\ call.value \in Values
    /\ Answer({"set"}, "ok", [contents EXCEPT ![call.key] = call.value])

Delete ==
    /\ call.key \in Present(contents)
    /\ Answer({"delete"}, "ok", [contents EXCEPT ![call.key] = None])

DeleteMissing ==
    /\ call.key \notin Present(contents)
    /\ Answer({"delete"}, "error", contents)

\* A NULL argument, or no memory for the copy or for a larger table.
Refuse == Answer({"set", "reserve"}, "error", contents)

Reserve == Answer({"reserve"}, "ok", contents)

Clear == Answer({"clear", "destroy"}, "ok", [k \in Keys |-> None])

Next ==
    \/ \E op \in {"set", "delete", "reserve", "clear", "destroy"},
          k \in Keys \cup {None}, v \in Values \cup {None} : Call(op, k, v)
    \/ Set \/ Delete \/ DeleteMissing \/ Refuse \/ Reserve \/ Clear

Spec == Init /\ [][Next]_mapVars
=============================================================================
