------------------------------- MODULE BitSet -------------------------------
(***************************************************************************)
(* src/bitset.c: a set of positions in packed bytes.  A byte is the set of *)
(* the bits it has on.  The bits of the last byte beyond the size exist;   *)
(* bitset_equal compares them, and bitset_all must not.                    *)
(***************************************************************************)
EXTENDS Integers, Sequences, FiniteSets

CONSTANTS CharBit, \* CHAR_BIT, the bits of a byte
          MaxSize, \* bound of this model: no larger bitset is made
          Strings  \* what callers pass to bitset_from_string

VARIABLES size, bits, \* struct bitset
          members,    \* the caller's view: the positions that are on
          ret         \* the answer of the last call

bitset == <<size, bits>>
vars == <<bitset, members, ret>>

NPOS == -1 \* BITSET_NPOS, (size_t)-1

Byte == 0 .. CharBit - 1 \* UCHAR_MAX, and the positions in a byte

NumBytes(n) == (n + CharBit - 1) \div CharBit
LastByteMask(n) == IF n % CharBit = 0 THEN Byte ELSE 0 .. (n % CharBit) - 1

\* bitset_clear_unused_tail_bits of the bytes b of a bitset of size n.
TailCleared(n, b) ==
    IF n % CharBit = 0 THEN b
    ELSE [b EXCEPT ![NumBytes(n) - 1] = @ \cap LastByteMask(n)]

\* bitset_resize
Resized(n) ==
    TailCleared(n, [i \in 0 .. NumBytes(n) - 1 |->
                       IF i < NumBytes(size) THEN bits[i] ELSE {}])

\* The bytes of another bitset of size n that holds the positions ps.
Packed(n, ps) ==
    [i \in 0 .. NumBytes(n) - 1 |-> {b \in Byte : i * CharBit + b \in ps}]

\* bitset_get
Get(pos) == pos % CharBit \in bits[pos \div CharBit]

All ==
    /\ \A i \in 0 .. (size \div CharBit) - 1 : bits[i] = Byte
    /\ size % CharBit # 0 =>
          LastByteMask(size) \subseteq bits[NumBytes(size) - 1]

\* bitset_any, and bitset_none is its negation.
Any ==
    \/ \E i \in 0 .. (size \div CharBit) - 1 : bits[i] # {}
    \/ size % CharBit # 0 /\ bits[NumBytes(size) - 1] \cap LastByteMask(size) # {}

\* bitset_count: the bits that are on in the full bytes, and in the last.
Count ==
    Cardinality({p \in (0 .. (size \div CharBit) - 1) \X Byte : p[2] \in bits[p[1]]})
    + (IF size % CharBit = 0 THEN 0
       ELSE Cardinality(bits[NumBytes(size) - 1] \cap LastByteMask(size)))

\* bitset_find_from; bitset_find_next_... start at the position after pos.
FindFrom(start, value) ==
    LET hits == {i \in start .. size - 1 : Get(i) = value}
    IN  IF hits = {} THEN NPOS ELSE CHOOSE i \in hits : \A j \in hits : i <= j

\* bitset_equal with another bitset of the same size.
Equal(other) == \A i \in 0 .. NumBytes(size) - 1 : bits[i] = other[i]

\* bitset_to_string: the last position comes first.
ToString == [i \in 1 .. size |-> IF Get(size - i) THEN "1" ELSE "0"]

-----------------------------------------------------------------------------
Init == size = 0 /\ bits = <<>> /\ members = {} /\ ret = 0

\* Every operation leaves size, bits and the positions that are on.
Becomes(n, b, ps, answer) ==
    size' = n /\ bits' = b /\ members' = ps /\ ret' = answer
Changes(b, ps) == Becomes(size, b, ps, 0)
Fails == Becomes(size, bits, members, -1)

Create(n) == size = 0 /\ Becomes(n, Resized(n), {}, 0)
CreateFails == size = 0 /\ Fails
Destroy == Becomes(0, <<>>, {}, 0)

Put(pos, value) ==
    /\ pos < size
    /\ LET i == pos \div CharBit
           b == {pos % CharBit}
       IN  IF value
             THEN Changes([bits EXCEPT ![i] = @ \cup b], members \cup {pos})
             ELSE Changes([bits EXCEPT ![i] = @ \ b], members \ {pos})

Differ(a, b) == (a \ b) \cup (b \ a)

Flip(pos) ==
    /\ pos < size
    /\ Changes([bits EXCEPT ![pos \div CharBit] = Differ(@, {pos % CharBit})],
               Differ(members, {pos}))

SetAll ==
    Changes(TailCleared(size, [i \in DOMAIN bits |-> Byte]), 0 .. size - 1)

\* bitset_reset_all and bitset_clear
ResetAll == Changes([i \in DOMAIN bits |-> {}], {})

\* Mutant: the bits beyond the size are flipped as well.
FlipAllRaw == Changes([i \in DOMAIN bits |-> Byte \ bits[i]], (0 .. size - 1) \ members)

FlipAll ==
    Changes(TailCleared(size, [i \in DOMAIN bits |-> Byte \ bits[i]]),
            (0 .. size - 1) \ members)

\* bitset_and, bitset_or and bitset_xor with a bitset of the positions ps.
And(ps) ==
    Changes(TailCleared(size, [i \in DOMAIN bits |-> bits[i] \cap Packed(size, ps)[i]]),
            members \cap ps)
Or(ps) ==
    Changes(TailCleared(size, [i \in DOMAIN bits |-> bits[i] \cup Packed(size, ps)[i]]),
            members \cup ps)
Xor(ps) ==
    Changes(TailCleared(size, [i \in DOMAIN bits |-> Differ(bits[i], Packed(size, ps)[i])]),
            Differ(members, ps))

\* bitset_copy of a bitset of size n resizes the target, which may fail and
\* leaves it as it was, and overwrites all of its bytes.
Copy(n, ps) ==
    Becomes(n, [i \in DOMAIN Resized(n) |-> Packed(n, ps)[i]], ps, 0)
CopyFails == Fails

\* bitset_from_string takes a string as long as the bitset, of 0s and 1s.
FromString(s) ==
    IF Len(s) = size /\ \A i \in 1 .. size : s[i] \in {"0", "1"}
      THEN LET ps == {size - i : i \in {j \in 1 .. size : s[j] = "1"}}
           IN  Changes([i \in DOMAIN bits |->
                           {b \in Byte : i * CharBit + b \in ps}], ps)
      ELSE Fails

-----------------------------------------------------------------------------
Operand(n) == {{}, {0, n - 1} \cap (0 .. n - 1), {p \in 0 .. n - 1 : p % 2 = 0}}

Next ==
    \/ \E n \in 0 .. MaxSize :
          Create(n) \/ \E ps \in Operand(n) : Copy(n, ps)
    \/ CreateFails \/ CopyFails \/ Destroy
    \/ \E pos \in 0 .. MaxSize : Flip(pos) \/ \E value \in BOOLEAN : Put(pos, value)
    \/ SetAll \/ ResetAll \/ FlipAll
    \/ \E ps \in Operand(size) : And(ps) \/ Or(ps) \/ Xor(ps)
    \/ \E s \in Strings : FromString(s)

Spec == Init /\ [][Next]_vars
-----------------------------------------------------------------------------
(* Properties *)

\* The bytes are those of the positions that are on, and every question is
\* answered from them as from the set: no bit beyond the size is ever on, or
\* two equal bitsets would differ, and none is counted.
BitsMatch ==
    /\ DOMAIN bits = 0 .. NumBytes(size) - 1
    /\ Equal(Packed(size, members))
    /\ \A pos \in 0 .. size - 1 : Get(pos) <=> pos \in members
    /\ Count = Cardinality(members)
    /\ All <=> members = 0 .. size - 1
    /\ Any <=> members # {}
    /\ \A start \in 0 .. size :
          /\ LET next == FindFrom(start, TRUE)
             IN  /\ next = NPOS <=> members \cap (start .. size - 1) = {}
                 /\ next # NPOS => next \in members /\ members \cap (start .. next - 1) = {}
          /\ LET next == FindFrom(start, FALSE)
             IN  /\ next = NPOS <=> (start .. size - 1) \subseteq members
                 /\ next # NPOS => next \notin members /\ (start .. next - 1) \subseteq members
    /\ {size - i : i \in {j \in 1 .. size : ToString[j] = "1"}} = members
=============================================================================
