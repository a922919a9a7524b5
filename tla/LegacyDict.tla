---------------------------- MODULE LegacyDict ----------------------------
(***************************************************************************)
(* src/legacy/dict_typed.h: the macros of the typed hash map, for int keys *)
(* (dict_int, dict_ints), whose hash is the key itself.  A key 0 marks an  *)
(* empty bucket, and the entry of key 0 lives in bucket -1.  Deletion      *)
(* leaves no tombstone: it shifts the rest of the chain back.              *)
(*                                                                         *)
(* A call enters at "idle" and its body follows; the loops of dict_expand  *)
(* and dict_delete take one step per iteration.  A failed allocation ends  *)
(* the program, and so does reading the array of a dict never expanded.    *)
(***************************************************************************)
EXTENDS Probing, FiniteSets

CONSTANTS Keys,         \* the keys the caller uses
          Values, None, \* None is a null or absent value, and no key
          Owning,       \* the dict was made with a value_free_func
          InitCapacity, \* 2 to the power of DICT_INIT_EXP (8 in the code)
          MaxCapacity   \* bound: no memory for a larger table

ASSUME LegacyDictAssumption ==
    /\ Keys \subseteq Nat /\ None \notin Values /\ Owning \in BOOLEAN
    /\ InitCapacity \in Nat \ {0} /\ MaxCapacity \in Nat

VARIABLES
    cap, size, keys, values,     \* dict_capacity and the arrays at index 0
    newCap, newKeys, newValues,  \* the arrays at index 1, during dict_expand
    pc, key, value, i,           \* the running macro and its loop counter
    prev, cur,                   \* the loop of dict_delete
    owned,                       \* the pointers whose owner is the dict
    expected                     \* what the caller stored last, per key

table == <<cap, size, keys, values>>
newTable == <<newCap, newKeys, newValues, i>>
shift == <<prev, cur>>
arguments == <<key, value>>
history == <<owned, expected>>
vars == <<table, newTable, shift, pc, arguments, history>>

ZeroSlot == -1
Slots(c) == {ZeroSlot} \cup Buckets(c)

\* A key other than 0 is looked for in the array, which is NULL (and capacity
\* and mask are 0) until the first dict_expand.
Readable(k) == k = 0 \/ cap # 0

\* The loop of _dict_find ends at a bucket that is empty or holds k; with no
\* such bucket it runs for ever, and no action that needs it is enabled.
Ends(ks, c, k) == {b \in Buckets(c) : ks[b] \in {0, k}}
FindEnds(ks, c, k) == k = 0 \/ Ends(ks, c, k) # {}

\* _dict_find: the bucket where the probe for k ends.
Home(k, c) == k % c
Find(ks, c, k) ==
    IF k = 0 THEN ZeroSlot ELSE FirstFrom(Ends(ks, c, k), Home(k, c), c)

ZERO == -1

\* Mutant: dict_found does not look at zero_occupied.
HoldsNoZero(ks, b, k) == k # 0 /\ ks[b] = k

\* dict_found, after a search for k that ended at b.  zero_occupied is kept
\* as keys are, by a mark in bucket -1.
Holds(ks, b, k) == IF k = 0 THEN ks[ZeroSlot] = ZERO ELSE ks[b] = k

\* dict_find, dict_found and dict_cur_value as one lookup that ends.
At(k) ==
    IF FindEnds(keys, cap, k) /\ Holds(keys, Find(keys, cap, k), k)
      THEN values[Find(keys, cap, k)] ELSE None

Stored == {b \in Slots(cap) : keys[b] # 0}

-----------------------------------------------------------------------------
Init ==
    /\ cap = 0 /\ size = 0
    /\ keys = [b \in Slots(0) |-> 0] /\ values = [b \in Slots(0) |-> None]
    /\ newCap = 0 /\ newKeys = <<>> /\ newValues = <<>> /\ i = 0
    /\ pc = "idle" /\ key = None /\ value = None
    /\ prev = 0 /\ cur = 0
    /\ owned = {}
    /\ expected = [k \in Keys |-> None]

\* The caller enters a macro.
Call(macro, k, v) ==
    /\ pc = "idle"
    /\ pc' = macro /\ key' = k /\ value' = v
    /\ UNCHANGED <<table, newTable, shift, expected>>

LookUp(k) == Call("find", k, None) /\ UNCHANGED owned
Remove(k) == Call("delete", k, None) /\ UNCHANGED owned
Expand == Call("expand", None, None) /\ UNCHANGED owned

\* dict_set begins with dict_expand.  An owning dict is given a pointer of its
\* own with each call.
Set(k, v) ==
    /\ Owning => v \notin owned
    /\ owned' = IF Owning THEN owned \cup {v} ELSE owned
    /\ Call("expand", k, v)

Return == pc' = "idle" /\ key' = None /\ value' = None

\* After dict_expand a dict_set goes on.
Expanded == IF key = None THEN Return ELSE pc' = "store" /\ UNCHANGED arguments

\* dict_find ends, found or not; it leaves the dict as it was.
FindEnd ==
    /\ pc = "find" /\ Readable(key) /\ FindEnds(keys, cap, key)
    /\ Return
    /\ UNCHANGED <<table, newTable, shift, history>>

\* dict_find and dict_delete read an array that is NULL.
Crash ==
    /\ pc \in {"find", "delete"} /\ ~Readable(key)
    /\ pc' = "crashed"
    /\ UNCHANGED <<table, newTable, shift, arguments, history>>

-----------------------------------------------------------------------------
(* dict_expand and dict_set *)

\* Mutant: a full table counts as one with room.
RoomyWhenFull == size + 1 <= cap

\* size + 1 < capacity * DICT_MAX_LOAD_FACTOR
Roomy == (size + 1) * 4 < cap * 3

ExpandBegin ==
    /\ pc = "expand"
    /\ LET c == IF cap = 0 THEN InitCapacity ELSE cap * 2
       IN  IF Roomy THEN Expanded /\ UNCHANGED newTable
           ELSE /\ c <= MaxCapacity
                /\ pc' = "copy"
                /\ newCap' = c
                /\ newKeys' = [b \in Slots(c) |-> IF b = ZeroSlot THEN keys[b] ELSE 0]
                /\ newValues' = [b \in Slots(c) |->
                      IF b = ZeroSlot /\ keys[b] = ZERO THEN values[b] ELSE None]
                /\ i' = 0
                /\ UNCHANGED arguments
    /\ UNCHANGED <<table, shift, history>>

\* dict_expand cannot allocate and calls exit(1).
Exit ==
    /\ pc = "expand" /\ ~Roomy
    /\ pc' = "exited"
    /\ UNCHANGED <<table, newTable, shift, arguments, history>>

\* One iteration of the loop of dict_expand.
ExpandStep ==
    /\ pc = "copy" /\ i < cap
    /\ i' = i + 1
    /\ LET t == Find(newKeys, newCap, keys[i])
       IN  IF keys[i] = 0
             THEN UNCHANGED <<newKeys, newValues>>
             ELSE /\ FindEnds(newKeys, newCap, keys[i])
                  /\ newKeys' = [newKeys EXCEPT ![t] = keys[i]]
                  /\ newValues' = [newValues EXCEPT ![t] = values[i]]
    /\ UNCHANGED <<table, newCap, shift, pc, arguments, history>>

ExpandEnd ==
    /\ pc = "copy" /\ i >= cap
    /\ cap' = newCap /\ keys' = newKeys /\ values' = newValues
    /\ newCap' = 0 /\ newKeys' = <<>> /\ newValues' = <<>> /\ i' = 0
    /\ Expanded
    /\ UNCHANGED <<size, shift, history>>

\* The rest of dict_set: dict_set_key adds a key that is not found, and
\* whatever non-null value the bucket has is freed before the new one.
Store ==
    /\ pc = "store" /\ FindEnds(keys, cap, key)
    /\ LET b == Find(keys, cap, key)
           mark == IF key = 0 THEN ZERO ELSE key
       IN  /\ size' = IF Holds(keys, b, key) THEN size ELSE size + 1
           /\ keys' = [keys EXCEPT ![b] = mark]
           /\ values' = [values EXCEPT ![b] = value]
           /\ owned' = IF Owning THEN owned \ {values[b]} ELSE owned
    /\ expected' = [expected EXCEPT ![key] = value]
    /\ Return
    /\ UNCHANGED <<cap, newTable, shift>>

-----------------------------------------------------------------------------
(* dict_delete and dict_free *)

\* Mutant: the keys after a deleted one stay where they are.
MovesBackNever(c, p) == FALSE

\* The test of dict_delete that moves the key of bucket c, whose home is p,
\* to the hole prev.
MovesBack(c, p) == (c > prev /\ p <= prev) \/ (p > c /\ p <= prev)

\* dict_delete up to its loop.
Delete ==
    /\ pc = "delete" /\ Readable(key) /\ FindEnds(keys, cap, key)
    /\ LET b == Find(keys, cap, key)
       IN  IF Holds(keys, b, key)
             THEN /\ keys' = [keys EXCEPT ![b] = 0]
                  /\ size' = size - 1
                  /\ values' = IF Owning THEN [values EXCEPT ![b] = None]
                                         ELSE values
                  /\ owned' = IF Owning THEN owned \ {values[b]} ELSE owned
                  /\ IF b = ZeroSlot
                       THEN Return /\ UNCHANGED shift
                       ELSE pc' = "shift" /\ prev' = b /\ cur' = b /\ UNCHANGED arguments
             ELSE Return /\ UNCHANGED <<keys, size, values, owned, shift>>
    /\ expected' = [expected EXCEPT ![key] = None]
    /\ UNCHANGED <<cap, newTable>>

NextBucket(b) == (b + 1) % cap

\* One iteration of the loop of dict_delete: the chain ends at an empty
\* bucket; until then a key that may go back into the hole does, and leaves
\* the hole where it was.  Its value is copied and stays behind as well.
ShiftStep ==
    /\ pc = "shift"
    /\ LET c == NextBucket(cur)
       IN  IF keys[c] = 0
             THEN /\ Return /\ prev' = 0 /\ cur' = 0
                  /\ UNCHANGED <<keys, values>>
             ELSE /\ cur' = c
                  /\ IF MovesBack(c, Home(keys[c], cap))
                       THEN /\ keys' = [keys EXCEPT ![prev] = keys[c], ![c] = 0]
                            /\ values' = [values EXCEPT ![prev] = values[c]]
                            /\ prev' = c
                       ELSE UNCHANGED <<keys, values, prev>>
                  /\ UNCHANGED <<pc, arguments>>
    /\ UNCHANGED <<cap, size, newTable, history>>

\* dict_free: every non-null value of the table is freed, in use or not.
Free ==
    /\ pc = "idle"
    /\ owned' = IF Owning THEN owned \ {values[b] : b \in Slots(cap)} ELSE owned
    /\ pc' = "freed"
    /\ UNCHANGED <<table, newTable, shift, arguments, expected>>

-----------------------------------------------------------------------------
Body ==
    \/ FindEnd \/ Crash \/ ExpandBegin \/ Exit \/ ExpandStep \/ ExpandEnd
    \/ Store \/ Delete \/ ShiftStep

Next ==
    \/ \E k \in Keys, v \in Values : Set(k, v)
    \/ \E k \in Keys : LookUp(k) \/ Remove(k)
    \/ Expand \/ Free
    \/ Body

Spec == Init /\ [][Next]_vars /\ WF_vars(Body)

-----------------------------------------------------------------------------
(* Properties *)

\* Every variable stays in its domain.
TypeOK ==
    /\ cap \in Nat /\ size \in Nat /\ i \in Nat /\ newCap \in Nat
    /\ keys \in [Slots(cap) -> Keys \cup {0, ZERO}]
    /\ values \in [Slots(cap) -> Values \cup {None}]
    /\ pc \in {"idle", "find", "expand", "copy", "store", "delete", "shift",
              "exited", "crashed", "freed"}
    /\ key \in Keys \cup {None} /\ value \in Values \cup {None}
    /\ prev \in Nat /\ cur \in Nat
    /\ owned \subseteq Values
    /\ expected \in [Keys -> Values \cup {None}]

\* Between calls dict_find finds every key where dict_set left it, with the
\* value stored last, and no deleted key: what
\* src/tests/dict_typed_test.c:32 and :36 expect of every key.  The keys it
\* cannot look for without reading a NULL array, those of a dict never
\* expanded, are keys nobody has stored.
LookupsMatch ==
    pc = "idle" => \A k \in Keys :
        IF Readable(k) THEN At(k) = expected[k] ELSE expected[k] = None

\* dict_size is the number of buckets in use, the bucket of key 0 included,
\* through the shifts of dict_delete and the copies of dict_expand, with
\* every variable in its domain.
SizeExact ==
    /\ TypeOK
    /\ pc = "idle" => size = Cardinality(Stored)

\* The value of an entry is a pointer the dict still owns: neither
\* dict_delete nor dict_set frees a value that another bucket holds.
StoredValuesOwned ==
    pc = "idle" /\ Owning => \A b \in Stored : values[b] \in owned

\* Every macro comes to its end, unless the program does: the load factor
\* leaves an empty bucket in every table for the probe of an absent key, and
\* for the loop of dict_delete, to stop at.
CallReturns ==
    pc \in {"find", "expand", "copy", "store", "delete", "shift"}
        ~> pc \in {"idle", "exited", "crashed"}
=============================================================================
