------------------------------ MODULE HashMap ------------------------------
(***************************************************************************)
(* src/hashmap.c: an open-addressing hash map with linear probing.         *)
(* Deleted buckets stay as tombstones; a table that occupied buckets and   *)
(* tombstones fill to three quarters is rehashed into one twice as large.  *)
(*                                                                         *)
(* One caller makes one call at a time: Call enters a function, the other  *)
(* actions are its body.  The sizing loop of hashmap_reserve and the loop  *)
(* of hashmap_rehash take one step per iteration; probing a chain is one   *)
(* operator, since nothing else runs meanwhile.  Every allocation and      *)
(* every copy of an element may fail.                                      *)
(***************************************************************************)
EXTENDS Probing, FiniteSets

CONSTANTS Keys, Values,
          None,          \* no key, no value: a NULL argument, a dead slot
          Hash,          \* hashmap_hash_key
          InitCapacity,  \* HASHMAP_INIT_CAPACITY (8 in the code)
          MaxCapacity,   \* bound: no memory for a larger table
          Requests       \* the entry capacities given to hashmap_reserve

ASSUME NoneAssumption == None \notin Keys /\ None \notin Values
ASSUME HashAssumption == Hash \in [Keys -> Nat]
ASSUME CapacityAssumption ==
    InitCapacity \in Nat /\ InitCapacity >= 2 /\ MaxCapacity \in Nat
ASSUME RequestsAssumption == Requests \subseteq Nat

VARIABLES
    capacity, size, tombstones,     \* the counters of struct hashmap
    states, keys, values,           \* and its three arrays
    buckets,                        \* new_bucket_capacity / bucket_capacity
    newStates, newKeys, newValues,  \* the arrays hashmap_rehash fills
    next,                           \* its loop counter i
    liveKeys, liveValues,           \* copies made and not yet destroyed
    pc, call, request               \* the running call and where it stands

table == <<capacity, size, tombstones, states, keys, values>>
newTable == <<buckets, newStates, newKeys, newValues, next>>
live == <<liveKeys, liveValues>>
control == <<pc, call, request>>
vars == <<table, newTable, live, control>>

EMPTY == "EMPTY"
OCCUPIED == "OCCUPIED"
DELETED == "DELETED"

Occupied == {b \in Buckets(capacity) : states[b] = OCCUPIED}
Tombstones == {b \in Buckets(capacity) : states[b] = DELETED}
NewOccupied == {b \in Buckets(buckets) : newStates[b] = OCCUPIED}

-----------------------------------------------------------------------------
(* Probing.  hash & mask is hash % cap, the capacity being a power of two. *)

Home(k, cap) == Hash[k] % cap

\* The bucket of S that the probe sequence of k meets first.
FirstProbed(S, k, cap) == FirstFrom(S, Home(k, cap), cap)

\* Mutant: a lookup ends at a tombstone as if the bucket were empty.
StopsAtTombstone(k) ==
    {b \in Buckets(capacity) : states[b] # OCCUPIED \/ keys[b] = k}

\* Where hashmap_find_slot may end its walk for k; without such a bucket
\* the walk never ends, and no action that needs it is enabled.
Stops(k) ==
    {b \in Buckets(capacity) :
        states[b] = EMPTY \/ (states[b] = OCCUPIED /\ keys[b] = k)}
Stop(k) == FirstProbed(Stops(k), k, capacity)

Found(k) == Stops(k) # {} /\ states[Stop(k)] = OCCUPIED

Passed(k) ==
    {b \in Tombstones : Dist(Home(k, capacity), b, capacity)
                          < Dist(Home(k, capacity), Stop(k), capacity)}

\* The bucket a new entry for k goes to: the first tombstone on the way to
\* the end of the chain, or that end.
FreeSlot(k) ==
    IF Passed(k) = {} THEN Stop(k) ELSE FirstProbed(Passed(k), k, capacity)

\* Mutant: a rehashed entry takes its home bucket, occupied or not.
RawStopsAnywhere(k) == Buckets(buckets)

\* hashmap_find_slot_in_raw_table on the arrays of hashmap_rehash.
RawStops(k) ==
    {b \in Buckets(buckets) : newStates[b] # OCCUPIED \/ newKeys[b] = k}

\* hashmap_at: what a caller reads for k.
At(k) == IF Found(k) THEN values[Stop(k)] ELSE None

-----------------------------------------------------------------------------
Init ==
    /\ capacity = 0 /\ size = 0 /\ tombstones = 0
    /\ states = <<>> /\ keys = <<>> /\ values = <<>>
    /\ buckets = 0 /\ newStates = <<>> /\ newKeys = <<>> /\ newValues = <<>>
    /\ next = 0
    /\ liveKeys = [k \in Keys |-> 0] /\ liveValues = [v \in Values |-> 0]
    /\ pc = "idle" /\ request = 0
    /\ call = [op |-> "init", key |-> None, value |-> None, ret |-> "ok"]

\* The caller calls a function; a None argument is a NULL pointer.
Call(op, k, v, n) ==
    /\ pc = "idle"
    /\ pc' = op
    /\ call' = [op |-> op, key |-> k, value |-> v, ret |-> "pending"]
    /\ request' = n
    /\ UNCHANGED <<table, newTable, live>>

Return(ret) ==
    /\ pc' = "idle"
    /\ call' = [call EXCEPT !.ret = ret]
    /\ request' = 0

\* hashmap_rehash up to its loop, when the three arrays can be allocated.
RehashStart(cap) ==
    /\ cap <= MaxCapacity
    /\ buckets' = cap
    /\ newStates' = [b \in Buckets(cap) |-> EMPTY]
    /\ newKeys' = [b \in Buckets(cap) |-> None]
    /\ newValues' = [b \in Buckets(cap) |-> None]
    /\ next' = 0
    /\ pc' = "rehash"
    /\ UNCHANGED <<table, live, call, request>>

\* No memory, or a copy callback that fails, before anything was changed.
Fail ==
    /\ Return("error")
    /\ buckets' = 0
    /\ UNCHANGED <<table, newStates, newKeys, newValues, next, live>>

\* Mutant: the entries are placed with the mask of the old table.
RehashStepOldMask ==
    /\ pc = "rehash" /\ next < capacity
    /\ next' = next + 1
    /\ IF states[next] # OCCUPIED
         THEN UNCHANGED <<newStates, newKeys, newValues>>
         ELSE LET target == FirstProbed(RawStops(keys[next]), keys[next],
                                        capacity)
              IN  /\ newStates' = [newStates EXCEPT ![target] = OCCUPIED]
                  /\ newKeys' = [newKeys EXCEPT ![target] = keys[next]]
                  /\ newValues' = [newValues EXCEPT ![target] = values[next]]
    /\ UNCHANGED <<table, buckets, live, control>>

\* One iteration of the loop of hashmap_rehash: old bucket next moves over.
RehashStep ==
    /\ pc = "rehash" /\ next < capacity
    /\ next' = next + 1
    /\ IF states[next] # OCCUPIED
         THEN UNCHANGED <<newStates, newKeys, newValues>>
         ELSE /\ RawStops(keys[next]) # {}
              /\ LET target == FirstProbed(RawStops(keys[next]), keys[next],
                                           buckets)
                 IN  /\ newStates' = [newStates EXCEPT ![target] = OCCUPIED]
                     /\ newKeys' = [newKeys EXCEPT ![target] = keys[next]]
                     /\ newValues' = [newValues EXCEPT ![target] = values[next]]
    /\ UNCHANGED <<table, buckets, live, control>>

\* After the loop the new arrays replace the old ones; hashmap_set goes on,
\* hashmap_reserve answers.
RehashEnd ==
    /\ pc = "rehash" /\ next >= capacity
    /\ capacity' = buckets
    /\ states' = newStates /\ keys' = newKeys /\ values' = newValues
    /\ tombstones' = 0
    /\ buckets' = 0 /\ newStates' = <<>> /\ newKeys' = <<>> /\ newValues' = <<>>
    /\ next' = 0
    /\ IF call.op = "set"
         THEN pc' = "find" /\ UNCHANGED <<call, request>>
         ELSE Return("ok")
    /\ UNCHANGED <<size, live>>

-----------------------------------------------------------------------------
(* hashmap_set *)

\* A NULL key or value.
SetInvalid ==
    /\ pc = "set" /\ (call.key = None \/ call.value = None)
    /\ Fail

\* Mutants: the load leaves out the tombstones, or the entry to come.
CrowdedByEntries == (size + 1) * 4 > capacity * 3
CrowdedAlready == (size + tombstones) * 4 > capacity * 3

Crowded == (size + tombstones + 1) * 4 > capacity * 3

\* hashmap_prepare_insert; a table never allocated is always crowded.
SetPrepare ==
    /\ pc = "set" /\ call.key # None /\ call.value # None
    /\ IF Crowded
         THEN \/ RehashStart(IF capacity = 0 THEN InitCapacity ELSE capacity * 2)
              \/ Fail
         ELSE pc' = "find" /\ UNCHANGED <<table, newTable, live, call, request>>

\* The key is stored: its new value is copied before the old one goes.
SetReplace ==
    /\ pc = "find" /\ Found(call.key)
    /\ LET b == Stop(call.key)
       IN  /\ values' = [values EXCEPT ![b] = call.value]
           /\ liveValues' = [[liveValues EXCEPT ![call.value] = @ + 1]
                                EXCEPT ![values[b]] = @ - 1]
    /\ Return("ok")
    /\ UNCHANGED <<capacity, size, tombstones, states, keys, newTable, liveKeys>>

\* The key is new: hashmap_copy_key makes a copy of it first.
SetCopyKey ==
    /\ pc = "find" /\ Stops(call.key) # {} /\ ~Found(call.key)
    /\ liveKeys' = [liveKeys EXCEPT ![call.key] = @ + 1]
    /\ pc' = "stage"
    /\ UNCHANGED <<table, newTable, liveValues, call, request>>

\* The copy of the value, or of the key, fails with the table untouched.
SetCopyFails ==
    /\ pc = "find" /\ Stops(call.key) # {}
    /\ Fail

\* Mutant: the staged key is forgotten.
SetUnstageLeaks ==
    /\ pc = "stage"
    /\ Return("error")
    /\ UNCHANGED <<table, newTable, live>>

\* The value cannot be copied: the copied key is destroyed again.
SetUnstage ==
    /\ pc = "stage"
    /\ liveKeys' = [liveKeys EXCEPT ![call.key] = @ - 1]
    /\ Return("error")
    /\ UNCHANGED <<table, newTable, liveValues>>

\* Both copies are made: they move into the free slot.
SetInsert ==
    /\ pc = "stage"
    /\ LET b == FreeSlot(call.key)
       IN  /\ tombstones' = tombstones - (IF states[b] = DELETED THEN 1 ELSE 0)
           /\ keys' = [keys EXCEPT ![b] = call.key]
           /\ values' = [values EXCEPT ![b] = call.value]
           /\ states' = [states EXCEPT ![b] = OCCUPIED]
    /\ size' = size + 1
    /\ liveValues' = [liveValues EXCEPT ![call.value] = @ + 1]
    /\ Return("ok")
    /\ UNCHANGED <<capacity, newTable, liveKeys>>

-----------------------------------------------------------------------------
(* hashmap_delete *)

\* A NULL key, no table yet, or no such key.
DeleteMissing ==
    /\ pc = "delete"
    /\ call.key # None /\ capacity # 0
         => Stops(call.key) # {} /\ ~Found(call.key)
    /\ Fail

\* The entry becomes a tombstone; the last entry of the map takes all the
\* tombstones away with it.
Delete ==
    /\ pc = "delete" /\ call.key # None /\ Found(call.key)
    /\ LET b == Stop(call.key)
       IN  /\ liveKeys' = [liveKeys EXCEPT ![keys[b]] = @ - 1]
           /\ liveValues' = [liveValues EXCEPT ![values[b]] = @ - 1]
           /\ keys' = [keys EXCEPT ![b] = None]
           /\ values' = [values EXCEPT ![b] = None]
           /\ IF size = 1
                THEN /\ states' = [c \in Buckets(capacity) |-> EMPTY]
                     /\ tombstones' = 0
                ELSE /\ states' = [states EXCEPT ![b] = DELETED]
                     /\ tombstones' = tombstones + 1
    /\ size' = size - 1
    /\ Return("ok")
    /\ UNCHANGED <<capacity, newTable>>

-----------------------------------------------------------------------------
(* hashmap_clear, hashmap_destroy, hashmap_reserve *)

\* Destroys what the occupied buckets hold.
DestroyEntries ==
    /\ liveKeys' = [k \in Keys |->
            liveKeys[k] - Cardinality({b \in Occupied : keys[b] = k})]
    /\ liveValues' = [v \in Values |->
            liveValues[v] - Cardinality({b \in Occupied : values[b] = v})]

Clear ==
    /\ pc = "clear"
    /\ DestroyEntries
    /\ states' = [b \in Buckets(capacity) |-> EMPTY]
    /\ keys' = [b \in Buckets(capacity) |-> None]
    /\ values' = [b \in Buckets(capacity) |-> None]
    /\ size' = 0 /\ tombstones' = 0
    /\ Return("ok")
    /\ UNCHANGED <<capacity, newTable>>

\* hashmap_destroy leaves a map without a table, which may be used again.
Destroy ==
    /\ pc = "destroy"
    /\ DestroyEntries
    /\ capacity' = 0 /\ size' = 0 /\ tombstones' = 0
    /\ states' = <<>> /\ keys' = <<>> /\ values' = <<>>
    /\ Return("ok")
    /\ UNCHANGED newTable

\* Mutant: the sizing loop starts at the capacity of the table.
ReserveStartFromTable ==
    /\ pc = "reserve"
    /\ IF request = 0
         THEN Return("ok") /\ UNCHANGED newTable
         ELSE /\ pc' = "sizing"
              /\ buckets' = capacity
              /\ UNCHANGED <<newStates, newKeys, newValues, next, call, request>>
    /\ UNCHANGED <<table, live>>

\* hashmap_reserve(0) asks for nothing; otherwise the sizing loop starts.
ReserveStart ==
    /\ pc = "reserve"
    /\ IF request = 0
         THEN Return("ok") /\ UNCHANGED newTable
         ELSE /\ pc' = "sizing"
              /\ buckets' = InitCapacity
              /\ UNCHANGED <<newStates, newKeys, newValues, next, call, request>>
    /\ UNCHANGED <<table, live>>

Sufficient(cap) == request * 4 <= cap * 3

\* One iteration of the loop of hashmap_bucket_capacity_for_entries.
ReserveDouble ==
    /\ pc = "sizing" /\ ~Sufficient(buckets)
    /\ buckets' = buckets * 2
    /\ UNCHANGED <<table, newStates, newKeys, newValues, next, live, control>>

\* Mutant: a table that is large enough keeps its tombstones.
ReserveRehashByCapacity ==
    /\ pc = "sizing" /\ Sufficient(buckets)
    /\ IF buckets <= capacity
         THEN /\ Return("ok")
              /\ buckets' = 0
              /\ UNCHANGED <<table, newStates, newKeys, newValues, next, live>>
         ELSE RehashStart(buckets) \/ Fail

\* The table never shrinks; one of the same capacity is rebuilt only to get
\* rid of its tombstones.
ReserveRehash ==
    /\ pc = "sizing" /\ Sufficient(buckets)
    /\ IF buckets <= capacity /\ tombstones = 0
         THEN /\ Return("ok")
              /\ buckets' = 0
              /\ UNCHANGED <<table, newStates, newKeys, newValues, next, live>>
         ELSE \/ RehashStart(IF buckets < capacity THEN capacity ELSE buckets)
              \/ Fail

-----------------------------------------------------------------------------
Calls ==
    \/ \E k \in Keys \cup {None}, v \in Values \cup {None} : Call("set", k, v, 0)
    \/ \E k \in Keys \cup {None} : Call("delete", k, None, 0)
    \/ \E n \in Requests : Call("reserve", None, None, n)
    \/ Call("clear", None, None, 0)
    \/ Call("destroy", None, None, 0)

Body ==
    \/ RehashStep \/ RehashEnd
    \/ SetInvalid \/ SetPrepare \/ SetReplace \/ SetCopyKey \/ SetCopyFails
    \/ SetUnstage \/ SetInsert
    \/ DeleteMissing \/ Delete
    \/ Clear \/ Destroy
    \/ ReserveStart \/ ReserveDouble \/ ReserveRehash

Next == Calls \/ Body

Spec == Init /\ [][Next]_vars

\* A call that was made goes on; the caller need not make another.
FairSpec == Spec /\ WF_vars(Body)
-----------------------------------------------------------------------------
(* Properties *)

Phases == {"idle", "set", "find", "stage", "delete", "clear", "destroy",
           "reserve", "sizing", "rehash"}
CallRecords == [op : {"init", "set", "delete", "reserve", "clear", "destroy"},
           key : Keys \cup {None}, value : Values \cup {None},
           ret : {"ok", "error", "pending"}]

\* Every variable stays in its domain; the arrays have capacity elements.
TypeOK ==
    /\ capacity \in Nat /\ size \in Nat /\ tombstones \in Nat
    /\ states \in [Buckets(capacity) -> {EMPTY, OCCUPIED, DELETED}]
    /\ keys \in [Buckets(capacity) -> Keys \cup {None}]
    /\ values \in [Buckets(capacity) -> Values \cup {None}]
    /\ buckets \in Nat /\ next \in Nat
    /\ liveKeys \in [Keys -> Int] /\ liveValues \in [Values -> Int]
    /\ pc \in Phases /\ call \in CallRecords /\ request \in Nat

\* The counters that decide when the table grows count what the buckets
\* hold, and occupied buckets and tombstones together never fill more than
\* three quarters of the table: a probe always has an empty bucket to stop
\* at, however long sets, deletes and rehashes alternate (src/hashmap.c:196).
TableShape ==
    /\ size = Cardinality(Occupied)
    /\ tombstones = Cardinality(Tombstones)
    /\ (size + tombstones) * 4 <= capacity * 3

\* The probe sequence of a stored key meets no empty bucket before the
\* entry, and no key is stored twice: what src/hashmap.h:17 says tombstones
\* are for.
ChainsUnbroken ==
    \A b \in Occupied :
        /\ keys[b] \in Keys /\ values[b] \in Values
        /\ \A c \in Buckets(capacity) :
              Dist(Home(keys[b], capacity), c, capacity)
                < Dist(Home(keys[b], capacity), b, capacity)
              => states[c] # EMPTY
        /\ \A c \in Occupied : keys[c] = keys[b] => c = b

Staged(k) == IF pc = "stage" /\ call.key = k THEN 1 ELSE 0

\* Every copy of a key or a value that was made and not yet destroyed is
\* held by exactly one entry, or is the key a running hashmap_set staged: no
\* call leaks an element or destroys one twice, failing calls included.
LiveCopies ==
    /\ \A k \in Keys :
          liveKeys[k] = Cardinality({b \in Occupied : keys[b] = k}) + Staged(k)
    /\ \A v \in Values :
          liveValues[v] = Cardinality({b \in Occupied : values[b] = v})

\* The table a rehash builds holds the entries of the old buckets it has
\* passed, each once and at the end of an unbroken chain, and nothing else.
RehashFaithful ==
    pc = "rehash" =>
        /\ buckets >= capacity
        /\ \A b \in NewOccupied : \E c \in Occupied :
              c < next /\ keys[c] = newKeys[b] /\ values[c] = newValues[b]
        /\ \A c \in Occupied : c < next =>
              \E b \in NewOccupied :
                  newKeys[b] = keys[c] /\ newValues[b] = values[c]
        /\ \A b \in NewOccupied :
              /\ \A c \in Buckets(buckets) :
                    Dist(Home(newKeys[b], buckets), c, buckets)
                      < Dist(Home(newKeys[b], buckets), b, buckets)
                    => newStates[c] = OCCUPIED
              /\ \A c \in NewOccupied : newKeys[c] = newKeys[b] => c = b

\* hashmap_reserve(n) answers 0 only with a table in which new entries find
\* room up to the n-th: no hashmap_set on the way there is Crowded and
\* rehashes, by the buckets in use or by tombstones left in place
\* (src/hashmap.h:82, src/hashmap.c:201).
ReserveMakesRoom ==
    [][call.op = "reserve" /\ pc # "idle" /\ call'.ret = "ok"
         => \A entries \in size' + 1 .. request :
               (entries + tombstones') * 4 <= capacity' * 3]_vars

\* Every call returns: neither a probe nor the sizing loop runs for ever.
CallReturns == pc # "idle" ~> pc = "idle"

\* Callers see a map: lookups, the size and the answers behave as MapSpec
\* says, through tombstones, rehashes and failed calls alike.
Map == INSTANCE MapSpec WITH contents <- [k \in Keys |-> At(k)]
ImplementsMap == Map!Spec

-----------------------------------------------------------------------------
(* The inductive invariant *)

\* While a rehash runs, the new table is well formed, holds as many entries
\* as old buckets were passed, and will have room for what is coming.
RehashShape ==
    pc = "rehash" =>
        /\ newStates \in [Buckets(buckets) -> {EMPTY, OCCUPIED}]
        /\ newKeys \in [Buckets(buckets) -> Keys \cup {None}]
        /\ newValues \in [Buckets(buckets) -> Values \cup {None}]
        /\ buckets >= InitCapacity /\ next <= capacity
        /\ Cardinality(NewOccupied) = Cardinality({b \in Occupied : b < next})
        /\ (size + (IF call.op = "set" THEN 1 ELSE 0)) * 4 <= buckets * 3

\* The phases belong to their functions, and hashmap_set has established
\* what it needs when it comes to each of its own.
ControlShape ==
    /\ pc = "idle" <=> call.ret # "pending"
    /\ pc \in {"set", "find", "stage"} => call.op = "set"
    /\ pc \in {"reserve", "sizing"} => call.op = "reserve"
    /\ pc = "rehash" => call.op \in {"set", "reserve"}
    /\ pc \in {"delete", "clear", "destroy"} => call.op = pc
    /\ capacity = 0 \/ capacity >= InitCapacity
    /\ pc \in {"find", "stage"} \/ (pc = "rehash" /\ call.op = "set")
         => call.key \in Keys /\ call.value \in Values
    /\ pc \in {"find", "stage"} => ~Crowded
    /\ pc = "stage" => \A b \in Occupied : keys[b] # call.key
    /\ pc = "sizing" => buckets >= InitCapacity

\* TypeOK, TableShape and ChainsUnbroken with what makes them inductive: a
\* running rehash must be on its way to a good table, and hashmap_set must
\* not have lost what it checked on the way to its insertion.
IInv ==
    /\ TypeOK
    /\ TableShape
    /\ ChainsUnbroken
    /\ RehashFaithful
    /\ RehashShape
    /\ ControlShape

\* A rehash that hashmap_reserve runs builds a table with the room asked for.
ReserveSized ==
    pc = "rehash" /\ call.op = "reserve" => request * 4 <= buckets * 3

\* IInv with what LiveCopies and ReserveMakesRoom rest on.
CopiesInv == IInv /\ ReserveSized /\ LiveCopies
=============================================================================
