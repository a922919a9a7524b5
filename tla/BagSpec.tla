------------------------------ MODULE BagSpec ------------------------------
(***************************************************************************)
(* What src/heap.h promises: a bag of elements that owns a copy of each,   *)
(* pops that remove a greatest one, and calls that take effect and answer  *)
(* "ok" or change nothing and answer "error".                              *)
(***************************************************************************)
EXTENDS Integers, FiniteSets

CONSTANTS Elements, None, Capacities

VARIABLES contents, \* how often the bag holds an element
          live,     \* how many copies of an element the bag owns
          call      \* the running call, or the last one with its answer

bagVars == <<contents, live, call>>

Idle == call.ret # "pending"
Held(c) == {e \in Elements : c[e] # 0}
Greatest(c) == CHOOSE e \in Held(c) : \A f \in Held(c) : f <= e

Init ==
    /\ contents = [e \in Elements |-> 0]
    /\ live = contents
    /\ call = [op |-> "init", elem |-> None, at |-> 0, ret |-> "ok"]

Call(op, e, n) ==
    /\ Idle
    /\ call' = [op |-> op, elem |-> e, at |-> n, ret |-> "pending"]
    /\ UNCHANGED <<contents, live>>

Answer(ops, ret, c) ==
    /\ ~Idle
    /\ call.op \in ops
    /\ call' = [call EXCEPT !.ret = ret]
    /\ contents' = c
    /\ live' = c

Push ==
    /\ call.elem \in Elements
    /\ Answer({"push"}, "ok", [contents EXCEPT ![call.elem] = @ + 1])

Pop ==
    /\ Held(contents) # {}
    /\ Answer({"pop"}, "ok", [contents EXCEPT ![Greatest(contents)] = @ - 1])

PopEmpty ==
    /\ Held(contents) = {}
    /\ Answer({"pop"}, "error", contents)

Refuse == Answer({"push", "reserve"}, "error", contents)
Reserve == Answer({"reserve"}, "ok", contents)
Clear == Answer({"clear", "destroy"}, "ok", [e \in Elements |-> 0])

Next ==
    \/ \E op \in {"push", "pop", "reserve", "clear", "destroy"},
          e \in Elements \cup {None}, n \in Capacities \cup {0} : Call(op, e, n)
    \/ Push \/ Pop \/ PopEmpty \/ Refuse \/ Reserve \/ Clear

Spec == Init /\ [][Next]_bagVars
=============================================================================
