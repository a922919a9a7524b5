-------------------------------- MODULE Sds --------------------------------
(***************************************************************************)
(* src/sds.c: strings with a length, a capacity and a terminator.          *)
(*                                                                         *)
(* A block is a record; its bytes reach from 0 to its capacity, where the  *)
(* terminator of a full string is.  A write past them would add to their   *)
(* domain, and a byte never written is None.                               *)
(***************************************************************************)
EXTENDS Integers, Sequences, SequencesExt

CONSTANTS None,
          NUL,         \* '\0', which strings may contain
          MaxPrealloc, \* SDS_MAX_PREALLOC
          MaxLen,      \* bound of this model: no longer string is made
          Texts,       \* the bytes callers pass, and the separators
          CharSets,    \* the sets they trim
          Capacities   \* the capacities they reserve

VARIABLES
    s,             \* the string of the caller, or None for NULL
    parts,         \* what sdssplitlen has made of it
    slots,         \* the size of the array it keeps them in, 0 without one
    pc, at,        \* the running split, and its cursor
    ret,           \* the answer of the last call, NULL being "error"
    live,          \* blocks allocated and not yet freed
    content,       \* the caller's view of s
    whole, sep     \* the string that was split last, and where

string == <<s, live, content>>
split == <<parts, slots, pc, at, whole, sep>>
vars == <<string, split, ret>>

-----------------------------------------------------------------------------
(* Bytes *)

Put(buf, offset, t) ==
    [i \in DOMAIN buf \cup (offset .. offset + Len(t) - 1) |->
        IF i \in offset .. offset + Len(t) - 1 THEN t[i - offset + 1] ELSE buf[i]]

Malloc(n) == [i \in 0 .. n |-> None]
Realloc(buf, n) == [i \in 0 .. n |-> IF i \in DOMAIN buf THEN buf[i] ELSE None]

\* The block b with the bytes t and a terminator at the offset.
Written(b, offset, t) ==
    [b EXCEPT !.buf = Put(b.buf, offset, Append(t, NUL)), !.len = offset + Len(t)]

\* sdsnewlen
New(t) == Written([len |-> 0, alloc |-> Len(t), buf |-> Malloc(Len(t))], 0, t)

Bytes(b) == [i \in 1 .. b.len |-> b.buf[i - 1]]

\* Mutant: the bytes in use count as free.
FitsAll(b, addlen) == b.alloc >= addlen

Fits(b, addlen) == b.alloc - b.len >= addlen

\* sds_reserve_for_additional
Grown(b, addlen) ==
    LET n == b.len + addlen
        more == IF n < MaxPrealloc THEN 2 * n ELSE n + MaxPrealloc
    IN  IF Fits(b, addlen) THEN b
        ELSE [b EXCEPT !.alloc = more, !.buf = Realloc(b.buf, more)]

\* sds_find_bytes: where t first comes in text from position i on, or 0.
Find(text, t, i) ==
    LET hits == {j \in i .. Len(text) - Len(t) + 1 :
                    SubSeq(text, j, j + Len(t) - 1) = t}
    IN  IF t = <<>> \/ hits = {} THEN 0 ELSE CHOOSE j \in hits : \A k \in hits : j <= k

\* The first loop of sdsreplacelen and of sdssplitlen.
Count(text, t) ==
    LET rest[i \in 1 .. Len(text) + 1] ==
            IF Find(text, t, i) = 0 THEN 0 ELSE 1 + rest[Find(text, t, i) + Len(t)]
    IN  rest[1]

\* The second loop of sdsreplacelen.
Replaced(text, t, with) ==
    LET rest[i \in 1 .. Len(text) + 1] ==
            IF Find(text, t, i) = 0 THEN SubSeq(text, i, Len(text))
            ELSE SubSeq(text, i, Find(text, t, i) - 1) \o with
                    \o rest[Find(text, t, i) + Len(t)]
    IN  rest[1]

\* Mutant: the last part is followed by a separator too.
TotalLenAfterEach(ts, t) ==
    LET total[i \in 0 .. Len(ts)] ==
            IF i = 0 THEN 0 ELSE total[i - 1] + Len(ts[i]) + Len(t)
    IN  total[Len(ts)]

\* The first loop of sdsjoinlen, which sums up what the second will write.
TotalLen(ts, t) ==
    LET total[i \in 0 .. Len(ts)] ==
            IF i = 0 THEN 0
            ELSE total[i - 1] + Len(ts[i]) + (IF i < Len(ts) THEN Len(t) ELSE 0)
    IN  total[Len(ts)]

\* What the second loop of sdsjoinlen writes.
Joined(ts, t) ==
    FlattenSeq([i \in DOMAIN ts |-> IF i < Len(ts) THEN ts[i] \o t ELSE ts[i]])

\* The parts between the places of t, from the first to the last.
Pieces(text, t) ==
    LET rest[i \in 1 .. Len(text) + 1] ==
            IF Find(text, t, i) = 0 THEN <<SubSeq(text, i, Len(text))>>
            ELSE <<SubSeq(text, i, Find(text, t, i) - 1)>>
                    \o rest[Find(text, t, i) + Len(t)]
    IN  rest[1]

\* The loops of sdstrim: from the front, and from the back down to where the
\* first has stopped.  strchr finds the terminator of cset as well, so that NUL
\* is always trimmed.
FirstKept(t, cset) ==
    CHOOSE i \in 1 .. Len(t) + 1 :
        /\ i = Len(t) + 1 \/ t[i] \notin cset \cup {NUL}
        /\ \A k \in 1 .. i - 1 : t[k] \in cset \cup {NUL}

LastKept(t, cset) ==
    CHOOSE j \in 1 .. Len(t) :
        /\ j <= FirstKept(t, cset) \/ t[j] \notin cset \cup {NUL}
        /\ \A k \in j + 1 .. Len(t) :
              k > FirstKept(t, cset) /\ t[k] \in cset \cup {NUL}

Trimmed(t, cset) == SubSeq(t, FirstKept(t, cset), LastKept(t, cset))

\* What callers expect: of t the bytes from i to j stay, no other is outside of
\* trim, and neither end is in it.
Keeps(t, trim, i, j) ==
    /\ \A k \in DOMAIN t \ (i .. j) : t[k] \in trim
    /\ i <= j => t[i] \notin trim /\ t[j] \notin trim

-----------------------------------------------------------------------------
Init ==
    /\ s = None /\ live = 0 /\ content = <<>>
    /\ parts = <<>> /\ slots = 0 /\ pc = "idle" /\ at = 0 /\ whole = <<>> /\ sep = <<>>
    /\ ret = "ok"

\* s becomes the block b; the blocks in use change by n.
Becomes(b, n, t) ==
    /\ pc = "idle"
    /\ s' = b /\ live' = live + n /\ content' = t
    /\ ret' = "ok"
    /\ UNCHANGED split

\* Without memory a call answers NULL, and the string stays as it was.
Fails == pc = "idle" /\ ret' = "error" /\ UNCHANGED <<string, split>>

\* sdsnewlen and sdsnew; sdsncat and sdscat of NULL do the same.
Create(t) == s = None /\ Becomes(New(t), 1, t)

\* sdsnewfmt of a text t from a format of length f: a buffer that turns out
\* too short grows to the length that vsnprintf answered.
CreateFormatted(f, t) ==
    /\ s = None
    /\ LET first == Grown(New(<<>>), 2 * f)
           b == IF Len(t) < 2 * f THEN first ELSE Grown(first, Len(t) + 1)
       IN  Becomes(Written(b, 0, t), 1, t)

\* sdsdup, after which the caller drops the original.
Dup == s # None /\ Becomes(New(Bytes(s)), 0, content)

Free == s # None /\ Becomes(None, -1, <<>>)

\* sdsncat, with t not in the string itself.
Cat(t) ==
    /\ s # None /\ s.len + Len(t) <= MaxLen
    /\ Becomes(Written(Grown(s, Len(t)), s.len, t), 0, content \o t)

Reserve(n) ==
    /\ s # None
    /\ Becomes(IF n <= s.alloc THEN s ELSE Grown(s, n - s.len), 0, content)

Clear == s # None /\ Becomes(Written(s, 0, <<>>), 0, <<>>)

\* sdstrim, in place.
Trim(cset) ==
    /\ s # None
    /\ \E i \in 1 .. Len(content) + 1 : \E j \in i - 1 .. Len(content) :
          /\ Keeps(content, cset \cup {NUL}, i, j)
          /\ Becomes(IF s.len = 0 THEN s ELSE Written(s, 0, Trimmed(Bytes(s), cset)), 0,
                     SubSeq(content, i, j))

\* sdsreplacelen counts, allocates the length it computes, and writes.
Replace(t, with) ==
    /\ s # None
    /\ LET n == s.len + (Len(with) - Len(t)) * Count(Bytes(s), t)
           b == [len |-> n, alloc |-> n,
                 buf |-> Put(Put(Malloc(n), 0, Replaced(Bytes(s), t, with)), n, <<NUL>>)]
       IN  /\ n <= MaxLen
           /\ Becomes(IF t = <<>> \/ Count(Bytes(s), t) = 0 THEN s ELSE b, 0,
                      IF t = <<>> THEN content ELSE Joined(Pieces(content, t), with))

-----------------------------------------------------------------------------
(* sdssplitlen, sdssplitfree and sdsjoinlen *)

\* The first pass counts the parts, to allocate an array for them.
SplitBegin(t) ==
    /\ pc = "idle" /\ s # None /\ parts = <<>> /\ t # <<>>
    /\ slots' = 1 + Count(Bytes(s), t)
    /\ pc' = "split" /\ at' = 1 /\ whole' = content /\ sep' = t
    /\ UNCHANGED <<string, parts, ret>>

\* One more part, up to the next separator or to the end.
SplitPart ==
    /\ pc = "split"
    /\ LET m == Find(Bytes(s), sep, at)
       IN  /\ parts' = Append(parts,
                        New(SubSeq(Bytes(s), at, IF m = 0 THEN s.len ELSE m - 1)))
           /\ IF m = 0 THEN pc' = "idle" /\ at' = 0 /\ ret' = "ok"
                       ELSE at' = m + Len(sep) /\ UNCHANGED <<pc, ret>>
    /\ live' = live + 1
    /\ UNCHANGED <<s, content, slots, whole, sep>>

\* No memory for the array or for a part: the parts so far are freed.
SplitFails ==
    /\ pc = "split"
    /\ live' = live - Len(parts) /\ parts' = <<>> /\ slots' = 0
    /\ pc' = "idle" /\ at' = 0 /\ whole' = <<>> /\ sep' = <<>> /\ ret' = "error"
    /\ UNCHANGED <<s, content>>

SplitFree ==
    /\ pc = "idle" /\ parts # <<>>
    /\ live' = live - Len(parts) /\ parts' = <<>> /\ slots' = 0
    /\ whole' = <<>> /\ sep' = <<>> /\ ret' = "ok"
    /\ UNCHANGED <<s, content, pc, at>>

\* The parts, joined by t: the buffer is reserved for the length computed before,
\* which becomes the length of the string.  Replacing sep by t would have made
\* the same.
Join(t) ==
    /\ s = None /\ parts # <<>>
    /\ LET ts == [i \in DOMAIN parts |-> Bytes(parts[i])]
           total == TotalLen(ts, t)
           b == Grown(New(<<>>), total)
       IN  /\ total <= MaxLen
           /\ Becomes([b EXCEPT !.buf = Put(b.buf, 0, Append(Joined(ts, t), NUL)),
                                !.len = total],
                      1, Replaced(whole, sep, t))

-----------------------------------------------------------------------------
Next ==
    \/ \E t \in Texts :
          \/ Create(t) \/ Cat(t) \/ SplitBegin(t) \/ Join(t)
          \/ \E f \in {0, 1} : CreateFormatted(f, t)
          \/ \E with \in Texts : Replace(t, with)
    \/ \E n \in Capacities : Reserve(n)
    \/ \E cset \in CharSets : Trim(cset)
    \/ Dup \/ Free \/ Clear \/ Fails
    \/ SplitPart \/ SplitFails \/ SplitFree

Spec == Init /\ [][Next]_vars
-----------------------------------------------------------------------------
(* Properties *)

\* A block holds the bytes t: they end in a terminator, within the capacity,
\* and no byte was written outside.
Holds(b, t) ==
    /\ DOMAIN b.buf = 0 .. b.alloc
    /\ b.len = Len(t) /\ b.len <= b.alloc
    /\ Bytes(b) = t /\ b.buf[b.len] = NUL

\* The string is what the calls made of it, through growth, failures and in
\* place.  Three lengths are computed by one loop and written by another, and
\* agree: replacing makes what joining the parts that splitting leaves makes, the
\* total that joining adds up is the length of what it writes, and splitting
\* stops short of its array until the last part fills it.  Joining the parts with
\* their separator gives the string back; and no block is leaked.
StringExact ==
    /\ s # None => Holds(s, content)
    /\ live = (IF s = None THEN 0 ELSE 1) + Len(parts)
    /\ pc = "split" => Len(parts) < slots
    /\ pc = "idle" => Len(parts) = slots
    /\ pc = "idle" /\ parts # <<>> =>
          /\ Joined([i \in DOMAIN parts |-> Bytes(parts[i])], sep) = whole
          /\ \A i \in DOMAIN parts :
                Holds(parts[i], Bytes(parts[i])) /\ Find(Bytes(parts[i]), sep, 1) = 0
=============================================================================
