------------------------------ MODULE SeqSpec ------------------------------
(***************************************************************************)
(* What the sequence containers of libcp (vector, deque, list) promise: a  *)
(* sequence of elements, and calls that take effect and answer "ok" (0 in  *)
(* C) or change nothing and answer "error" (-1 in C).  Clearing discards   *)
(* the elements from the front or all at once; the copy of another         *)
(* container clears the target, appends one element after the other, and   *)
(* leaves the target empty when it fails.                                  *)
(***************************************************************************)
EXTENDS SequencesExt

CONSTANTS Elements,
          None,      \* a NULL element
          Indices,   \* the indices and capacities callers use
          Sources    \* the contents of the containers they copy from

VARIABLES contents, call

seqVars == <<contents, call>>

Idle == call.ret # "pending"

Init ==
    /\ contents = <<>>
    /\ call = [op |-> "init", elem |-> None, at |-> 0, source |-> <<>>,
               ret |-> "ok"]

Call(op, e, n, s) ==
    /\ Idle
    /\ call' = [op |-> op, elem |-> e, at |-> n, source |-> s, ret |-> "pending"]
    /\ UNCHANGED contents

Answer(ops, ret, c) ==
    /\ ~Idle
    /\ call.op \in ops
    /\ call' = [call EXCEPT !.ret = ret]
    /\ contents' = c

PushBack ==
    /\ call.elem \in Elements
    /\ Answer({"push_back"}, "ok", Append(contents, call.elem))

PushFront ==
    /\ call.elem \in Elements
    /\ Answer({"push_front"}, "ok", <<call.elem>> \o contents)

PopBack ==
    /\ contents # <<>>
    /\ Answer({"pop_back"}, "ok", Front(contents))

PopFront ==
    /\ contents # <<>>
    /\ Answer({"pop_front"}, "ok", Tail(contents))

PopMissing ==
    /\ contents = <<>>
    /\ Answer({"pop_back", "pop_front"}, "error", contents)

Insert ==
    /\ call.elem \in Elements /\ call.at <= Len(contents)
    /\ Answer({"insert"}, "ok", InsertAt(contents, call.at + 1, call.elem))

Set ==
    /\ call.elem \in Elements /\ call.at < Len(contents)
    /\ Answer({"set"}, "ok", ReplaceAt(contents, call.at + 1, call.elem))

\* Erasing reports nothing, not even that there was nothing to erase.
Erase ==
    Answer({"erase"}, "ok",
           IF call.at < Len(contents) THEN RemoveAt(contents, call.at + 1)
                                      ELSE contents)

Clear == Answer({"clear", "destroy"}, "ok", <<>>)

\* Any comparison the caller passes leads to some order of the elements.
Sort ==
    /\ call.op = "sort"
    /\ \E p \in {f \in [DOMAIN contents -> DOMAIN contents] : IsInjective(f)} :
          Answer({"sort"}, "ok", [n \in DOMAIN contents |-> contents[p[n]]])

Reserve == Answer({"reserve"}, "ok", contents)

\* A NULL element, an index out of range, no memory, a copy that fails.
Refuse ==
    Answer({"push_back", "push_front", "insert", "set", "reserve"},
           "error", contents)

Discard ==
    /\ ~Idle /\ call.op \in {"clear", "destroy", "copy"}
    /\ contents # <<>>
    /\ contents' \in {<<>>, Tail(contents)}
    /\ UNCHANGED call

CopyElement ==
    /\ ~Idle /\ call.op = "copy"
    /\ IsStrictPrefix(contents, call.source)
    /\ contents' = Append(contents, call.source[Len(contents) + 1])
    /\ UNCHANGED call

CopyEnd ==
    /\ contents = call.source
    /\ Answer({"copy"}, "ok", contents)

CopyFails == Answer({"copy"}, "error", <<>>)

Next ==
    \/ \E op \in {"push_back", "push_front", "pop_back", "pop_front", "insert",
                  "set", "erase", "clear", "destroy", "sort", "reserve", "copy"},
          e \in Elements \cup {None}, n \in Indices, s \in Sources :
             Call(op, e, n, s)
    \/ PushBack \/ PushFront \/ PopBack \/ PopFront \/ PopMissing
    \/ Insert \/ Set \/ Erase \/ Clear \/ Sort \/ Reserve \/ Refuse
    \/ Discard \/ CopyElement \/ CopyEnd \/ CopyFails

Spec == Init /\ [][Next]_seqVars
=============================================================================
