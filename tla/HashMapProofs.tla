--------------------------- MODULE HashMapProofs ---------------------------
(* What is proved of HashMap and of its copies for every instance: the     *)
(* shape of the table; that callers see a map; that no element is leaked   *)
(* or destroyed twice and that hashmap_reserve keeps its promise; and that *)
(* hashmap_copy copies all or nothing.                                     *)
EXTENDS HashMapCopy, ContainerLemmas

-----------------------------------------------------------------------------
(* Probing *)

LEMMA HomeInTable ==
    ASSUME NEW k \in Keys, NEW cap \in Nat, cap > 0
    PROVE  Home(k, cap) \in Buckets(cap)
  <1>1. Hash[k] \in Nat
    BY HashAssumption
  <1> QED
    BY <1>1 DEF Home, Buckets

LEMMA DistInjective ==
    ASSUME NEW cap \in Nat, NEW h \in Buckets(cap),
           NEW b \in Buckets(cap), NEW c \in Buckets(cap)
    PROVE  /\ Dist(h, b, cap) \in Nat
           /\ Dist(h, b, cap) = Dist(h, c, cap) => b = c
  BY DEF Dist, Buckets

LEMMA NatMinimum ==
    ASSUME NEW T \in SUBSET Nat, T # {}
    PROVE  \E m \in T : \A n \in T : m <= n
  <1>1. PICK m \in T : \A n \in T : ~ (<<n, m>> \in OpToRel(<, Nat))
    BY NatLessThanWellFounded, WFMin, Zenon
  <1>2. ASSUME NEW n \in T PROVE m <= n
    <2>1. ~ (<<n, m>> \in OpToRel(<, Nat))
      BY <1>1
    <2>2. m \in Nat /\ n \in Nat
      OBVIOUS
    <2>3. ~ (n < m)
      BY <2>1, <2>2 DEF OpToRel
    <2> QED
      BY <2>2, <2>3
  <1> QED
    BY <1>2

LEMMA FirstProbedIsFirst ==
    ASSUME NEW k \in Keys, NEW cap \in Nat,
           NEW S \in SUBSET Buckets(cap), S # {}
    PROVE  /\ FirstProbed(S, k, cap) \in S
           /\ \A c \in S : Dist(Home(k, cap), FirstProbed(S, k, cap), cap)
                             <= Dist(Home(k, cap), c, cap)
  <1> DEFINE D(b) == Dist(Home(k, cap), b, cap)
             T == {D(b) : b \in S}
  <1>1. cap > 0
    <2>1. PICK b : b \in S
      OBVIOUS
    <2>2. b \in 0 .. cap - 1
      BY <2>1 DEF Buckets
    <2> QED
      BY <2>2
  <1>2. \A b \in S : D(b) \in Nat
    BY <1>1, HomeInTable, DistInjective
  <1>3. T \in SUBSET Nat /\ T # {}
    BY <1>2
  <1>4. PICK m \in T : \A n \in T : m <= n
    BY <1>3, NatMinimum
  <1>5. PICK b \in S : m = D(b)
    OBVIOUS
  <1>6. \A c \in S : D(b) <= D(c)
    BY <1>4, <1>5
  <1> QED
    BY <1>6 DEF FirstProbed, FirstFrom
-----------------------------------------------------------------------------
(* The table *)

\* The sets of buckets are finite, and are counted with naturals.
LEMMA BucketSetsFinite ==
    ASSUME NEW cap \in Nat, NEW S \in SUBSET Buckets(cap)
    PROVE  /\ IsFiniteSet(S)
           /\ Cardinality(S) \in Nat
           /\ Cardinality(S) <= cap
           /\ Cardinality(S) = cap => S = Buckets(cap)
  <1>1. IsFiniteSet(Buckets(cap)) /\ Cardinality(Buckets(cap)) = cap
    BY FS_Interval DEF Buckets
  <1> QED
    BY <1>1, FS_Subset, FS_CardinalityType

\* A table that is at most three quarters full has an empty bucket.
LEMMA EmptyBucketExists ==
    ASSUME TypeOK, TableShape, capacity > 0
    PROVE  \E b \in Buckets(capacity) : states[b] = EMPTY
  <1> SUFFICES ASSUME \A b \in Buckets(capacity) : states[b] # EMPTY
               PROVE  FALSE
    OBVIOUS
  <1>1. capacity \in Nat /\ size \in Nat /\ tombstones \in Nat
    BY DEF TypeOK
  <1>2. Occupied \in SUBSET Buckets(capacity) /\ Tombstones \in SUBSET Buckets(capacity)
    BY DEF Occupied, Tombstones
  <1>3. /\ IsFiniteSet(Occupied) /\ IsFiniteSet(Tombstones)
        /\ Cardinality(Occupied \cap Tombstones) \in Nat
    BY <1>1, <1>2, BucketSetsFinite
  <1>4. Occupied \cup Tombstones = Buckets(capacity)
    BY DEF TypeOK, Occupied, Tombstones
  <1>5. Cardinality(Buckets(capacity)) = capacity
    BY <1>1, FS_Interval DEF Buckets
  <1>6. capacity = size + tombstones - Cardinality(Occupied \cap Tombstones)
    BY <1>3, <1>4, <1>5, FS_Union DEF TableShape
  <1>7. (size + tombstones) * 4 <= capacity * 3
    BY DEF TableShape
  <1> QED
    BY <1>1, <1>3, <1>6, <1>7

\* Where a probe ends.
LEMMA StopIsFirst ==
    ASSUME TypeOK, NEW k \in Keys, Stops(k) # {}
    PROVE  /\ Stop(k) \in Stops(k)
           /\ Stop(k) \in Buckets(capacity)
           /\ \A c \in Stops(k) : Dist(Home(k, capacity), Stop(k), capacity)
                                    <= Dist(Home(k, capacity), c, capacity)
  <1>1. Stops(k) \in SUBSET Buckets(capacity)
    BY DEF Stops
  <1>2. capacity \in Nat
    BY DEF TypeOK
  <1> QED
    BY <1>1, <1>2, FirstProbedIsFirst DEF Stop

\* hashmap_find_slot finds a key exactly when a bucket holds it, and finds
\* that bucket: no stored entry is out of reach of its probe sequence.
LEMMA FindsStored ==
    ASSUME TypeOK, ChainsUnbroken, NEW k \in Keys, Stops(k) # {}
    PROVE  /\ \A b \in Occupied : keys[b] = k => Stop(k) = b
           /\ Found(k) <=> \E b \in Occupied : keys[b] = k
           /\ Found(k) => Stop(k) \in Occupied /\ keys[Stop(k)] = k
           /\ ~Found(k) => states[Stop(k)] = EMPTY
  <1> DEFINE h == Home(k, capacity)
  <1>1. /\ Stop(k) \in Stops(k)
        /\ Stop(k) \in Buckets(capacity)
        /\ \A c \in Stops(k) : Dist(h, Stop(k), capacity) <= Dist(h, c, capacity)
    BY StopIsFirst
  <1>2. capacity \in Nat /\ capacity > 0
    <2>1. capacity \in Nat
      BY DEF TypeOK
    <2>2. Stop(k) \in 0 .. capacity - 1
      BY <1>1 DEF Buckets
    <2> QED
      BY <2>1, <2>2
  <1>3. h \in Buckets(capacity)
    BY <1>2, HomeInTable
  <1>4. ASSUME NEW b \in Occupied, keys[b] = k
        PROVE  Stop(k) = b
    <2>1. b \in Stops(k) /\ b \in Buckets(capacity)
      BY <1>4 DEF Stops, Occupied
    <2>2. /\ Dist(h, Stop(k), capacity) \in Nat /\ Dist(h, b, capacity) \in Nat
          /\ Dist(h, Stop(k), capacity) = Dist(h, b, capacity) => Stop(k) = b
      BY <1>1, <1>2, <1>3, <2>1, DistInjective
    <2>3. Dist(h, Stop(k), capacity) <= Dist(h, b, capacity)
      BY <1>1, <2>1
    <2>4. CASE Dist(h, Stop(k), capacity) < Dist(h, b, capacity)
      <3>1. states[Stop(k)] # EMPTY
        BY <1>1, <1>4, <2>4 DEF ChainsUnbroken
      <3>2. Stop(k) \in Occupied /\ keys[Stop(k)] = k
        BY <1>1, <3>1 DEF Stops, Occupied
      <3> QED
        BY <1>4, <3>2 DEF ChainsUnbroken
    <2> QED
      BY <2>2, <2>3, <2>4
  <1>5. Found(k) => Stop(k) \in Occupied /\ keys[Stop(k)] = k
    BY <1>1 DEF Found, Stops, Occupied, EMPTY, OCCUPIED
  <1>6. ASSUME NEW b \in Occupied, keys[b] = k
        PROVE  Found(k)
    BY <1>4, <1>6 DEF Found, Occupied
  <1>7. ~Found(k) => states[Stop(k)] = EMPTY
    BY <1>1 DEF Found, Stops
  <1> QED
    BY <1>4, <1>5, <1>6, <1>7

\* Where a key that is not stored goes: a bucket that is not occupied, and
\* before which the probe sequence meets no empty one.
LEMMA FreeSlotOnChain ==
    ASSUME TypeOK, NEW k \in Keys, Stops(k) # {},
           \A b \in Occupied : keys[b] # k
    PROVE  /\ FreeSlot(k) \in Buckets(capacity)
           /\ states[FreeSlot(k)] \in {EMPTY, DELETED}
           /\ \A c \in Buckets(capacity) :
                 Dist(Home(k, capacity), c, capacity)
                   < Dist(Home(k, capacity), FreeSlot(k), capacity)
                 => states[c] # EMPTY
  <1> DEFINE h == Home(k, capacity)
             D(b) == Dist(h, b, capacity)
  <1>1. /\ Stop(k) \in Stops(k)
        /\ Stop(k) \in Buckets(capacity)
        /\ \A c \in Stops(k) : D(Stop(k)) <= D(c)
    BY StopIsFirst
  <1>2. capacity \in Nat /\ capacity > 0
    <2>1. capacity \in Nat
      BY DEF TypeOK
    <2>2. Stop(k) \in 0 .. capacity - 1
      BY <1>1 DEF Buckets
    <2> QED
      BY <2>1, <2>2
  <1>3. \A b \in Buckets(capacity) : D(b) \in Nat
    BY <1>2, HomeInTable, DistInjective
  <1>4. states[Stop(k)] = EMPTY
    BY <1>1 DEF Stops, Occupied
  <1>5. FreeSlot(k) \in Buckets(capacity) /\ D(FreeSlot(k)) <= D(Stop(k))
           /\ states[FreeSlot(k)] \in {EMPTY, DELETED}
    <2>1. CASE Passed(k) = {}
      BY <1>1, <1>3, <1>4, <2>1 DEF FreeSlot
    <2>2. CASE Passed(k) # {}
      <3>1. Passed(k) \in SUBSET Buckets(capacity)
        BY DEF Passed, Tombstones
      <3>2. FreeSlot(k) \in Passed(k)
        BY <1>2, <2>2, <3>1, FirstProbedIsFirst DEF FreeSlot
      <3>3. FreeSlot(k) \in Buckets(capacity)
        BY <3>1, <3>2
      <3>4. D(FreeSlot(k)) < D(Stop(k)) /\ states[FreeSlot(k)] = DELETED
        BY <3>2 DEF Passed, Tombstones
      <3> QED
        BY <1>1, <1>3, <3>3, <3>4
    <2> QED
      BY <2>1, <2>2
  <1>6. ASSUME NEW c \in Buckets(capacity), D(c) < D(FreeSlot(k))
        PROVE  states[c] # EMPTY
    <2>1. SUFFICES ASSUME states[c] = EMPTY PROVE FALSE
      OBVIOUS
    <2>2. c \in Stops(k)
      BY <2>1 DEF Stops
    <2>3. D(Stop(k)) <= D(c)
      BY <1>1, <2>2
    <2>4. D(c) \in Nat /\ D(Stop(k)) \in Nat /\ D(FreeSlot(k)) \in Nat
      BY <1>1, <1>3, <1>5
    <2>5. D(FreeSlot(k)) <= D(Stop(k)) /\ D(c) < D(FreeSlot(k))
      BY <1>5, <1>6
    <2> HIDE DEF D
    <2> QED
      BY <2>3, <2>4, <2>5
  <1> QED
    BY <1>5, <1>6
-----------------------------------------------------------------------------
(* The inductive invariant *)

LEMMA InitInv ==
    ASSUME Init
    PROVE  IInv
  <1>1. Buckets(capacity) = {} /\ Buckets(buckets) = {}
    BY DEF Init, Buckets
  <1>2. TypeOK
    BY <1>1, NoneAssumption DEF Init, TypeOK, Phases, CallRecords
  <1>3. Occupied = {} /\ Tombstones = {}
    BY <1>1 DEF Occupied, Tombstones
  <1>4. TableShape
    BY <1>3, FS_EmptySet DEF TableShape, Init
  <1>5. ChainsUnbroken
    BY <1>3 DEF ChainsUnbroken
  <1>6. RehashFaithful /\ RehashShape /\ ControlShape
    BY DEF Init, RehashFaithful, RehashShape, ControlShape
  <1> QED
    BY <1>2, <1>4, <1>5, <1>6 DEF IInv

\* A step that leaves the table alone keeps what holds of it.
LEMMA TableUnchanged ==
    ASSUME TableShape, ChainsUnbroken, UNCHANGED table
    PROVE  TableShape' /\ ChainsUnbroken' /\ Occupied' = Occupied
           /\ (Crowded' <=> Crowded)
  BY DEF table, TableShape, ChainsUnbroken, Occupied, Tombstones, Crowded

LEMMA ReturnType ==
    ASSUME TypeOK, NEW ret \in {"ok", "error"}, Return(ret)
    PROVE  /\ pc' = "idle" /\ pc' \in Phases
           /\ call' \in CallRecords /\ call'.ret # "pending"
           /\ request' \in Nat
  BY DEF TypeOK, Return, CallRecords, Phases

\* A step to "idle" that leaves the table alone keeps the invariant.
LEMMA BackToIdle ==
    ASSUME IInv, TypeOK', UNCHANGED table, pc' = "idle", call'.ret # "pending"
    PROVE  IInv'
  <1>1. TableShape' /\ ChainsUnbroken'
    BY TableUnchanged DEF IInv
  <1>2. RehashFaithful' /\ RehashShape'
    BY DEF RehashFaithful, RehashShape
  <1>3. ControlShape'
    BY DEF IInv, ControlShape, table
  <1> QED
    BY <1>1, <1>2, <1>3 DEF IInv

LEMMA CallInv ==
    ASSUME IInv,
           NEW op \in {"set", "delete", "reserve", "clear", "destroy"},
           NEW k \in Keys \cup {None}, NEW v \in Values \cup {None},
           NEW n \in Nat, Call(op, k, v, n)
    PROVE  IInv'
  <1>1. TypeOK'
    BY DEF IInv, TypeOK, Call, CallRecords, Phases, table, newTable, live
  <1>2. TableShape' /\ ChainsUnbroken'
    BY TableUnchanged DEF IInv, Call
  <1>3. pc' \in {"set", "delete", "reserve", "clear", "destroy"}
    BY DEF Call
  <1>4. RehashFaithful' /\ RehashShape'
    BY <1>3 DEF RehashFaithful, RehashShape
  <1>5. ControlShape'
    BY <1>3 DEF IInv, ControlShape, Call, table
  <1> QED
    BY <1>1, <1>2, <1>4, <1>5 DEF IInv

LEMMA FailInv ==
    ASSUME IInv, Fail
    PROVE  IInv'
  <1>1. /\ pc' = "idle" /\ pc' \in Phases
        /\ call' \in CallRecords /\ call'.ret # "pending" /\ request' \in Nat
    BY ReturnType DEF IInv, Fail
  <1>2. TypeOK'
    BY <1>1 DEF IInv, TypeOK, Fail, table, newTable, live
  <1> QED
    BY <1>1, <1>2, BackToIdle DEF Fail

\* A rehash that starts has an empty table and room for all it will hold.
LEMMA RehashStartInv ==
    ASSUME IInv, NEW cap \in Nat, RehashStart(cap), pc \in {"set", "sizing"},
           cap >= capacity, cap >= InitCapacity,
           (size + (IF call.op = "set" THEN 1 ELSE 0)) * 4 <= cap * 3,
           call.op = "set" => call.key \in Keys /\ call.value \in Values
    PROVE  IInv'
  <1> USE DEF RehashStart
  <1>1. TypeOK'
    BY DEF IInv, TypeOK, table, live, Phases
  <1>2. TableShape' /\ ChainsUnbroken' /\ Occupied' = Occupied
    BY TableUnchanged DEF IInv
  <1>3. NewOccupied' = {}
    BY DEF NewOccupied, EMPTY, OCCUPIED
  <1>4. {b \in Occupied' : b < next'} = {}
    BY DEF Occupied, Buckets
  <1>5. RehashFaithful'
    <2>1. ASSUME NEW c \in Occupied' PROVE ~ (c < next')
      BY <1>4
    <2>2. buckets' >= capacity'
      BY DEF table
    <2> QED
      BY <1>3, <2>1, <2>2 DEF RehashFaithful
  <1>6. RehashShape'
    <2>1. /\ newStates' \in [Buckets(buckets') -> {EMPTY, OCCUPIED}]
          /\ newKeys' \in [Buckets(buckets') -> Keys \cup {None}]
          /\ newValues' \in [Buckets(buckets') -> Values \cup {None}]
      OBVIOUS
    <2>2. Cardinality(NewOccupied') = Cardinality({b \in Occupied' : b < next'})
      BY <1>3, <1>4
    <2>3. buckets' >= InitCapacity /\ next' <= capacity'
      BY DEF IInv, TypeOK, table
    <2>4. (size' + (IF call'.op = "set" THEN 1 ELSE 0)) * 4 <= buckets' * 3
      BY DEF table
    <2> QED
      BY <2>1, <2>2, <2>3, <2>4 DEF RehashShape
  <1>7. ControlShape'
    BY DEF IInv, ControlShape, table
  <1> QED
    BY <1>1, <1>2, <1>5, <1>6, <1>7 DEF IInv

LEMMA SetPrepareInv ==
    ASSUME IInv, SetPrepare
    PROVE  IInv'
  <1>1. TypeOK
    BY DEF IInv
  <1>2. pc = "set" /\ call.key \in Keys /\ call.value \in Values
    BY <1>1 DEF SetPrepare, TypeOK, CallRecords
  <1>3. CASE Fail
    BY <1>3, FailInv
  <1>4. ASSUME RehashStart(IF capacity = 0 THEN InitCapacity ELSE capacity * 2)
        PROVE  IInv'
    <2> DEFINE cap == IF capacity = 0 THEN InitCapacity ELSE capacity * 2
    <2>1. /\ capacity \in Nat /\ size \in Nat /\ tombstones \in Nat
          /\ (size + tombstones) * 4 <= capacity * 3
          /\ capacity = 0 \/ capacity >= InitCapacity
      BY DEF IInv, TypeOK, TableShape, ControlShape
    <2>2. cap \in Nat /\ cap >= capacity /\ cap >= InitCapacity
      BY <2>1, CapacityAssumption
    <2>3. (size + (IF call.op = "set" THEN 1 ELSE 0)) * 4 <= cap * 3
      BY <2>1, CapacityAssumption
    <2> HIDE DEF cap
    <2> QED
      BY <1>2, <1>4, <2>2, <2>3, RehashStartInv DEF cap
  <1>5. ASSUME ~Crowded, pc' = "find",
               UNCHANGED <<table, newTable, live, call, request>>
        PROVE  IInv'
    <2>1. TypeOK'
      BY <1>1, <1>5 DEF TypeOK, Phases, table, newTable, live
    <2>2. /\ TableShape' /\ ChainsUnbroken' /\ Occupied' = Occupied
          /\ Crowded' <=> Crowded
      BY <1>5, TableUnchanged DEF IInv
    <2>3. RehashFaithful' /\ RehashShape'
      BY <1>5 DEF RehashFaithful, RehashShape
    <2>4. ControlShape'
      BY <1>2, <1>5, <2>2 DEF IInv, ControlShape, table
    <2> QED
      BY <2>1, <2>2, <2>3, <2>4 DEF IInv
  <1> QED
    BY <1>3, <1>4, <1>5 DEF SetPrepare

LEMMA RehashStepInv ==
    ASSUME IInv, RehashStep
    PROVE  IInv'
  <1> DEFINE k == keys[next]
             t == FirstProbed(RawStops(k), k, buckets)
             Done == {b \in Occupied : b < next}
  <1>1. /\ pc = "rehash" /\ next < capacity /\ next' = next + 1
        /\ UNCHANGED <<table, buckets, live, control>>
    BY DEF RehashStep
  <1>2. /\ TypeOK /\ RehashFaithful /\ RehashShape /\ ControlShape
        /\ TableShape /\ ChainsUnbroken
    BY DEF IInv
  <1>3. /\ capacity \in Nat /\ next \in Nat /\ buckets \in Nat
        /\ next \in Buckets(capacity)
        /\ buckets >= capacity /\ buckets > 0 /\ next' <= capacity
    BY <1>1, <1>2 DEF TypeOK, Buckets, RehashFaithful
  <1>4. TypeOK'
    BY <1>1, <1>2 DEF TypeOK, table, live, control
  <1>5. TableShape' /\ ChainsUnbroken' /\ Occupied' = Occupied
    BY <1>1, <1>2, TableUnchanged
  <1>6. ControlShape'
    BY <1>1, <1>2, <1>5 DEF ControlShape, Crowded, table, control
  <1>7. Occupied \in SUBSET Buckets(capacity) /\ \A b \in Occupied : b \in Nat
    BY <1>3 DEF Occupied, Buckets
  <1>8. CASE states[next] # OCCUPIED
    <2>1. UNCHANGED <<newStates, newKeys, newValues>>
      BY <1>8 DEF RehashStep
    <2>2. {b \in Occupied : b < next'} = Done
      <3>1. next \notin Occupied
        BY <1>8 DEF Occupied
      <3>2. ASSUME NEW b \in Occupied PROVE b < next' <=> b < next
        BY <1>1, <1>3, <1>7, <3>1
      <3> QED
        BY <3>2
    <2>3. NewOccupied' = NewOccupied
      BY <1>1, <2>1 DEF NewOccupied
    <2>4. \A c \in Occupied : c < next' <=> c < next
      BY <2>2
    <2>5. RehashFaithful'
      BY <1>1, <1>2, <1>5, <2>1, <2>3, <2>4 DEF RehashFaithful, table, control
    <2>6. RehashShape'
      BY <1>1, <1>2, <1>3, <1>5, <2>1, <2>2, <2>3 DEF RehashShape, table, control
    <2> QED
      BY <1>4, <1>5, <1>6, <2>5, <2>6 DEF IInv
  <1>9. CASE states[next] = OCCUPIED
    <2>1. /\ RawStops(k) # {}
          /\ newStates' = [newStates EXCEPT ![t] = OCCUPIED]
          /\ newKeys' = [newKeys EXCEPT ![t] = k]
          /\ newValues' = [newValues EXCEPT ![t] = values[next]]
      BY <1>9 DEF RehashStep
    <2>2. next \in Occupied /\ k \in Keys /\ values[next] \in Values
      BY <1>2, <1>3, <1>9 DEF Occupied, ChainsUnbroken
    <2>3. /\ newStates \in [Buckets(buckets) -> {EMPTY, OCCUPIED}]
          /\ newKeys \in [Buckets(buckets) -> Keys \cup {None}]
          /\ newValues \in [Buckets(buckets) -> Values \cup {None}]
      BY <1>1, <1>2 DEF RehashShape
    <2>4. /\ t \in RawStops(k) /\ t \in Buckets(buckets)
          /\ \A c \in RawStops(k) : Dist(Home(k, buckets), t, buckets)
                                      <= Dist(Home(k, buckets), c, buckets)
      <3>1. RawStops(k) \in SUBSET Buckets(buckets)
        BY DEF RawStops
      <3> QED
        BY <1>3, <2>1, <2>2, <3>1, FirstProbedIsFirst
    \* The key is not in the new table yet.
    <2>5. \A b \in NewOccupied : newKeys[b] # k
      <3> SUFFICES ASSUME NEW b \in NewOccupied, newKeys[b] = k PROVE FALSE
        OBVIOUS
      <3>1. PICK c \in Occupied : c < next /\ keys[c] = k
        BY <1>1, <1>2 DEF RehashFaithful
      <3>2. c = next
        BY <1>2, <2>2, <3>1 DEF ChainsUnbroken
      <3> QED
        BY <1>3, <3>1, <3>2
    <2>6. newStates[t] # OCCUPIED /\ t \notin NewOccupied
      BY <2>4, <2>5 DEF RawStops, NewOccupied
    <2>7. NewOccupied' = NewOccupied \cup {t}
      BY <1>1, <2>1, <2>3, <2>4 DEF NewOccupied
    <2>8. {b \in Occupied : b < next'} = Done \cup {next}
      <3>1. ASSUME NEW b \in Occupied PROVE b < next' <=> b < next \/ b = next
        BY <1>1, <1>3, <1>7
      <3> QED
        BY <2>2, <3>1
    <2>9. \A b \in NewOccupied :
             b # t /\ newKeys'[b] = newKeys[b] /\ newValues'[b] = newValues[b]
      BY <2>1, <2>3, <2>6 DEF NewOccupied
    <2>10. newKeys'[t] = k /\ newValues'[t] = values[next]
      BY <2>1, <2>3, <2>4
    <2>11. RehashFaithful'
      <3>1. buckets' >= capacity'
        BY <1>1, <1>3 DEF table
      <3>2. ASSUME NEW b \in NewOccupied'
            PROVE  \E c \in Occupied' : c < next' /\ keys'[c] = newKeys'[b]
                                          /\ values'[c] = newValues'[b]
        <4>1. CASE b = t
          <5>1. next < next'
            BY <1>1, <1>3
          <5> QED
            BY <1>1, <1>5, <2>2, <2>10, <4>1, <5>1 DEF table
        <4>2. CASE b \in NewOccupied
          <5>1. PICK c \in Occupied : c < next /\ keys[c] = newKeys[b]
                                        /\ values[c] = newValues[b]
            BY <1>1, <1>2, <4>2 DEF RehashFaithful
          <5>2. c < next'
            BY <1>1, <1>3, <1>7, <5>1
          <5> QED
            BY <1>1, <1>5, <2>9, <4>2, <5>1, <5>2 DEF table
        <4> QED
          BY <2>7, <4>1, <4>2
      <3>3. ASSUME NEW c \in Occupied', c < next'
            PROVE  \E b \in NewOccupied' :
                      newKeys'[b] = keys'[c] /\ newValues'[b] = values'[c]
        <4>1. CASE c = next
          BY <1>1, <2>7, <2>10, <4>1 DEF table
        <4>2. CASE c # next
          <5>1. c \in Occupied /\ c < next
            BY <1>1, <1>3, <1>5, <1>7, <3>3, <4>2
          <5>2. PICK b \in NewOccupied :
                   newKeys[b] = keys[c] /\ newValues[b] = values[c]
            BY <1>1, <1>2, <5>1 DEF RehashFaithful
          <5> QED
            BY <1>1, <2>7, <2>9, <5>2 DEF table
        <4> QED
          BY <4>1, <4>2
      <3>4. ASSUME NEW b \in NewOccupied', NEW c \in Buckets(buckets'),
                   Dist(Home(newKeys'[b], buckets'), c, buckets')
                     < Dist(Home(newKeys'[b], buckets'), b, buckets')
            PROVE  newStates'[c] = OCCUPIED
        <4>1. buckets' = buckets
          BY <1>1
        <4>2. newStates[c] = OCCUPIED => newStates'[c] = OCCUPIED
          BY <2>1, <2>3, <2>4, <4>1
        <4>3. CASE b = t
          <5>1. SUFFICES ASSUME newStates[c] # OCCUPIED PROVE FALSE
            BY <4>2
          <5>2. c \in RawStops(k)
            BY <4>1, <5>1 DEF RawStops
          <5>3. Dist(Home(k, buckets), t, buckets)
                  <= Dist(Home(k, buckets), c, buckets)
            BY <2>4, <5>2
          <5>4. Dist(Home(k, buckets), c, buckets)
                  < Dist(Home(k, buckets), t, buckets)
            BY <2>10, <3>4, <4>1, <4>3
          <5>5. Home(k, buckets) \in Buckets(buckets)
            BY <1>3, <2>2, HomeInTable
          <5>6. /\ Dist(Home(k, buckets), t, buckets) \in Nat
                /\ Dist(Home(k, buckets), c, buckets) \in Nat
            BY <1>3, <2>4, <4>1, <5>5, DistInjective
          <5> QED
            BY <5>3, <5>4, <5>6
        <4>4. CASE b \in NewOccupied
          <5>1. Dist(Home(newKeys[b], buckets), c, buckets)
                  < Dist(Home(newKeys[b], buckets), b, buckets)
            BY <2>9, <3>4, <4>1, <4>4
          <5>2. newStates[c] = OCCUPIED
            BY <1>1, <1>2, <4>1, <4>4, <5>1 DEF RehashFaithful
          <5> QED
            BY <4>2, <5>2
        <4> QED
          BY <2>7, <4>3, <4>4
      <3>5. ASSUME NEW b \in NewOccupied', NEW c \in NewOccupied',
                   newKeys'[c] = newKeys'[b]
            PROVE  c = b
        <4>1. CASE b \in NewOccupied /\ c \in NewOccupied
          BY <1>1, <1>2, <2>9, <3>5, <4>1 DEF RehashFaithful
        <4>2. CASE b = t \/ c = t
          BY <2>5, <2>7, <2>9, <2>10, <3>5, <4>2
        <4> QED
          BY <2>7, <4>1, <4>2
      <3> QED
        BY <3>1, <3>2, <3>3, <3>4, <3>5 DEF RehashFaithful
    <2>12. RehashShape'
      <3>1. /\ newStates' \in [Buckets(buckets') -> {EMPTY, OCCUPIED}]
            /\ newKeys' \in [Buckets(buckets') -> Keys \cup {None}]
            /\ newValues' \in [Buckets(buckets') -> Values \cup {None}]
        BY <1>1, <2>1, <2>2, <2>3
      <3>2. Cardinality(NewOccupied') = Cardinality({b \in Occupied' : b < next'})
        <4>1. IsFiniteSet(NewOccupied) /\ IsFiniteSet(Done)
          <5>1. NewOccupied \in SUBSET Buckets(buckets)
            BY DEF NewOccupied
          <5>2. Done \in SUBSET Buckets(capacity)
            BY <1>7
          <5> QED
            BY <1>3, <5>1, <5>2, BucketSetsFinite
        <4>2. Cardinality(NewOccupied \cup {t}) = Cardinality(NewOccupied) + 1
          BY <2>6, <4>1, FS_AddElement
        <4>3. next \notin Done
          BY <1>3
        <4>4. Cardinality(Done \cup {next}) = Cardinality(Done) + 1
          BY <4>1, <4>3, FS_AddElement
        <4>5. Cardinality(NewOccupied) = Cardinality(Done)
          BY <1>1, <1>2 DEF RehashShape
        <4>6. {b \in Occupied' : b < next'} = Done \cup {next}
          BY <1>5, <2>8
        <4> QED
          BY <2>7, <4>2, <4>4, <4>5, <4>6
      <3>3. /\ buckets' >= InitCapacity /\ next' <= capacity'
            /\ (size' + (IF call'.op = "set" THEN 1 ELSE 0)) * 4 <= buckets' * 3
        BY <1>1, <1>2, <1>3 DEF RehashShape, table, control
      <3> QED
        BY <3>1, <3>2, <3>3 DEF RehashShape
    <2> QED
      BY <1>4, <1>5, <1>6, <2>11, <2>12 DEF IInv
  <1> QED
    BY <1>8, <1>9

LEMMA RehashEndInv ==
    ASSUME IInv, RehashEnd
    PROVE  IInv'
  <1>1. /\ TypeOK /\ RehashFaithful /\ RehashShape /\ ControlShape
        /\ TableShape /\ ChainsUnbroken
    BY DEF IInv
  <1>2. /\ pc = "rehash" /\ next >= capacity
        /\ capacity' = buckets /\ size' = size /\ tombstones' = 0
        /\ states' = newStates /\ keys' = newKeys /\ values' = newValues
        /\ buckets' = 0 /\ next' = 0
        /\ UNCHANGED live
    BY DEF RehashEnd
  <1>3. \/ pc' = "find" /\ UNCHANGED <<call, request>> /\ call.op = "set"
        \/ pc' = "idle" /\ Return("ok")
    <2>1. CASE call.op = "set"
      <3>1. pc' = "find" /\ UNCHANGED <<call, request>>
        BY <2>1 DEF RehashEnd
      <3> QED
        BY <2>1, <3>1
    <2>2. CASE call.op # "set"
      <3>1. Return("ok")
        BY <2>2 DEF RehashEnd
      <3> QED
        BY <3>1 DEF Return
    <2> QED
      BY <2>1, <2>2
  <1>4. /\ newStates \in [Buckets(buckets) -> {EMPTY, OCCUPIED}]
        /\ newKeys \in [Buckets(buckets) -> Keys \cup {None}]
        /\ newValues \in [Buckets(buckets) -> Values \cup {None}]
    BY <1>1, <1>2 DEF RehashShape
  <1>5. /\ capacity \in Nat /\ buckets \in Nat /\ next \in Nat /\ size \in Nat
        /\ buckets >= InitCapacity
    BY <1>1, <1>2 DEF TypeOK, RehashShape
  <1>6. TypeOK'
    <2>1. call' \in CallRecords /\ request' \in Nat /\ pc' \in Phases
      BY <1>1, <1>3, ReturnType DEF TypeOK, Phases
    <2> QED
      BY <1>1, <1>2, <1>4, <2>1 DEF TypeOK, live
  <1>7. Occupied' = NewOccupied
    BY <1>2 DEF Occupied, NewOccupied
  <1>8. Tombstones' = {}
    BY <1>2, <1>4 DEF Tombstones, DELETED, EMPTY, OCCUPIED
  <1>9. \A c \in Occupied : c < next
    BY <1>2, <1>5 DEF Occupied, Buckets
  <1>10. Cardinality(NewOccupied) = size
    <2>1. {b \in Occupied : b < next} = Occupied
      BY <1>9
    <2> QED
      BY <1>1, <1>2, <2>1 DEF RehashShape, TableShape
  <1>11. TableShape'
    <2>1. (size + 0) * 4 <= buckets * 3
      BY <1>1, <1>2, <1>5 DEF RehashShape
    <2> QED
      BY <1>2, <1>7, <1>8, <1>10, <2>1, FS_EmptySet DEF TableShape
  <1>12. ChainsUnbroken'
    <2>1. \A b \in NewOccupied :
             /\ newKeys[b] \in Keys /\ newValues[b] \in Values
             /\ \A c \in Buckets(buckets) :
                   Dist(Home(newKeys[b], buckets), c, buckets)
                     < Dist(Home(newKeys[b], buckets), b, buckets)
                   => newStates[c] # EMPTY
             /\ \A c \in NewOccupied : newKeys[c] = newKeys[b] => c = b
      <3> SUFFICES ASSUME NEW b \in NewOccupied
                   PROVE  newKeys[b] \in Keys /\ newValues[b] \in Values
        BY <1>1, <1>2 DEF RehashFaithful, EMPTY, OCCUPIED
      <3>1. PICK c \in Occupied : keys[c] = newKeys[b] /\ values[c] = newValues[b]
        BY <1>1, <1>2 DEF RehashFaithful
      <3> QED
        BY <1>1, <3>1 DEF ChainsUnbroken
    <2> QED
      BY <1>2, <1>7, <2>1 DEF ChainsUnbroken
  <1>13. RehashFaithful' /\ RehashShape'
    BY <1>3 DEF RehashFaithful, RehashShape
  <1>14. ControlShape'
    <2>1. pc' = "find" => call'.key \in Keys /\ call'.value \in Values /\ ~Crowded'
      BY <1>1, <1>2, <1>3, <1>5 DEF ControlShape, RehashShape, Crowded
    <2>2. CASE pc' = "find" /\ UNCHANGED <<call, request>> /\ call.op = "set"
      BY <1>1, <1>2, <1>5, <2>1, <2>2 DEF ControlShape
    <2>3. CASE pc' = "idle" /\ Return("ok")
      <3>1. call'.ret # "pending"
        BY <1>1, <2>3, ReturnType
      <3> QED
        BY <1>2, <1>5, <2>3, <3>1 DEF ControlShape
    <2> QED
      BY <1>3, <2>2, <2>3
  <1> QED
    BY <1>6, <1>11, <1>12, <1>13, <1>14 DEF IInv

LEMMA SetReplaceInv ==
    ASSUME IInv, SetReplace
    PROVE  IInv'
  <1> DEFINE k == call.key
             b == Stop(k)
  <1>1. /\ TypeOK /\ TableShape /\ ChainsUnbroken /\ ControlShape
    BY DEF IInv
  <1>2. /\ pc = "find" /\ Found(k) /\ Return("ok")
        /\ values' = [values EXCEPT ![b] = call.value]
        /\ liveValues' = [[liveValues EXCEPT ![call.value] = @ + 1]
                             EXCEPT ![values[b]] = @ - 1]
        /\ UNCHANGED <<capacity, size, tombstones, states, keys>>
        /\ UNCHANGED newTable /\ UNCHANGED liveKeys
    BY DEF SetReplace
  <1>3. k \in Keys /\ call.value \in Values
    BY <1>1, <1>2 DEF ControlShape
  <1>4. /\ pc' = "idle" /\ pc' \in Phases
        /\ call' \in CallRecords /\ call'.ret # "pending" /\ request' \in Nat
    BY <1>1, <1>2, ReturnType
  <1>5. b \in Occupied
    BY <1>1, <1>2, <1>3, FindsStored DEF Found
  <1>6. values[b] \in Values
    BY <1>1, <1>5 DEF ChainsUnbroken
  <1>7. TypeOK'
    <2>1. liveValues' \in [Values -> Int]
      BY <1>1, <1>2, <1>3, <1>6 DEF TypeOK
    <2>2. values' \in [Buckets(capacity') -> Values \cup {None}]
      BY <1>1, <1>2, <1>3 DEF TypeOK
    <2> QED
      BY <1>1, <1>2, <1>4, <2>1, <2>2 DEF TypeOK, newTable
  <1>8. Occupied' = Occupied /\ Tombstones' = Tombstones
    BY <1>2 DEF Occupied, Tombstones
  <1>9. TableShape'
    BY <1>1, <1>2, <1>8 DEF TableShape
  <1>10. ChainsUnbroken'
    <2>1. \A c \in Occupied : values'[c] \in Values
      BY <1>1, <1>2, <1>3 DEF TypeOK, ChainsUnbroken, Occupied
    <2> QED
      BY <1>1, <1>2, <1>8, <2>1 DEF ChainsUnbroken
  <1>11. RehashFaithful' /\ RehashShape'
    BY <1>4 DEF RehashFaithful, RehashShape
  <1>12. ControlShape'
    BY <1>1, <1>2, <1>4 DEF ControlShape
  <1> QED
    BY <1>7, <1>9, <1>10, <1>11, <1>12 DEF IInv

LEMMA SetCopyKeyInv ==
    ASSUME IInv, SetCopyKey
    PROVE  IInv'
  <1> DEFINE k == call.key
  <1>1. TypeOK /\ TableShape /\ ChainsUnbroken /\ ControlShape
    BY DEF IInv
  <1>2. /\ pc = "find" /\ Stops(k) # {} /\ ~Found(k) /\ pc' = "stage"
        /\ liveKeys' = [liveKeys EXCEPT ![k] = @ + 1]
        /\ UNCHANGED table /\ UNCHANGED newTable
        /\ UNCHANGED <<liveValues, call, request>>
    BY DEF SetCopyKey
  <1>3. k \in Keys /\ call.value \in Values /\ ~Crowded
    BY <1>1, <1>2 DEF ControlShape
  <1>4. TypeOK'
    BY <1>1, <1>2, <1>3 DEF TypeOK, table, newTable, Phases
  <1>5. TableShape' /\ ChainsUnbroken' /\ Occupied' = Occupied /\ ~Crowded'
    BY <1>1, <1>2, <1>3, TableUnchanged
  <1>6. \A b \in Occupied : keys[b] # k
    BY <1>1, <1>2, <1>3, FindsStored
  <1>7. RehashFaithful' /\ RehashShape'
    BY <1>2 DEF RehashFaithful, RehashShape
  <1>8. ControlShape'
    BY <1>1, <1>2, <1>3, <1>5, <1>6 DEF ControlShape, table
  <1> QED
    BY <1>4, <1>5, <1>7, <1>8 DEF IInv

LEMMA SetUnstageInv ==
    ASSUME IInv, SetUnstage
    PROVE  IInv'
  <1>1. TypeOK /\ ControlShape
    BY DEF IInv
  <1>2. /\ pc = "stage" /\ Return("error")
        /\ liveKeys' = [liveKeys EXCEPT ![call.key] = @ - 1]
        /\ UNCHANGED table /\ UNCHANGED newTable /\ UNCHANGED liveValues
    BY DEF SetUnstage
  <1>3. call.key \in Keys
    BY <1>1, <1>2 DEF ControlShape
  <1>4. /\ pc' = "idle" /\ pc' \in Phases
        /\ call' \in CallRecords /\ call'.ret # "pending" /\ request' \in Nat
    BY <1>1, <1>2, ReturnType
  <1>5. TypeOK'
    BY <1>1, <1>2, <1>3, <1>4 DEF TypeOK, table, newTable
  <1> QED
    BY <1>2, <1>4, <1>5, BackToIdle

LEMMA SetInsertInv ==
    ASSUME IInv, SetInsert
    PROVE  IInv'
  <1> DEFINE k == call.key
             f == FreeSlot(k)
  <1>1. TypeOK /\ TableShape /\ ChainsUnbroken /\ ControlShape
    BY DEF IInv
  <1>2. /\ pc = "stage" /\ Return("ok") /\ size' = size + 1
        /\ tombstones' = tombstones - (IF states[f] = DELETED THEN 1 ELSE 0)
        /\ keys' = [keys EXCEPT ![f] = k]
        /\ values' = [values EXCEPT ![f] = call.value]
        /\ states' = [states EXCEPT ![f] = OCCUPIED]
        /\ liveValues' = [liveValues EXCEPT ![call.value] = @ + 1]
        /\ UNCHANGED capacity /\ UNCHANGED newTable /\ UNCHANGED liveKeys
    BY DEF SetInsert
  <1>3. /\ k \in Keys /\ call.value \in Values /\ ~Crowded
        /\ \A b \in Occupied : keys[b] # k
    BY <1>1, <1>2 DEF ControlShape
  <1>4. /\ capacity \in Nat /\ size \in Nat /\ tombstones \in Nat
        /\ (size + tombstones + 1) * 4 <= capacity * 3 /\ capacity > 0
    BY <1>1, <1>3 DEF TypeOK, Crowded
  <1>5. Stops(k) # {}
    BY <1>1, <1>4, EmptyBucketExists DEF Stops
  <1>6. /\ f \in Buckets(capacity) /\ states[f] \in {EMPTY, DELETED}
        /\ \A c \in Buckets(capacity) :
              Dist(Home(k, capacity), c, capacity)
                < Dist(Home(k, capacity), f, capacity)
              => states[c] # EMPTY
    BY <1>1, <1>3, <1>5, FreeSlotOnChain
  <1>7. /\ pc' = "idle" /\ pc' \in Phases
        /\ call' \in CallRecords /\ call'.ret # "pending" /\ request' \in Nat
    BY <1>1, <1>2, ReturnType
  <1>8. Occupied' = Occupied \cup {f} /\ f \notin Occupied
    BY <1>1, <1>2, <1>6 DEF TypeOK, Occupied, EMPTY, OCCUPIED, DELETED
  <1>9. Tombstones' = Tombstones \ {f}
    BY <1>1, <1>2, <1>6 DEF TypeOK, Tombstones, OCCUPIED, DELETED
  <1>10. IsFiniteSet(Occupied) /\ IsFiniteSet(Tombstones)
    BY <1>4, BucketSetsFinite DEF Occupied, Tombstones
  <1>11. /\ size' = Cardinality(Occupied') /\ tombstones' = Cardinality(Tombstones')
         /\ tombstones' \in Nat /\ tombstones' <= tombstones
    <2>1. Cardinality(Occupied') = Cardinality(Occupied) + 1
      BY <1>8, <1>10, FS_AddElement
    <2>2. Cardinality(Tombstones') =
             IF f \in Tombstones THEN Cardinality(Tombstones) - 1
                                 ELSE Cardinality(Tombstones)
      BY <1>9, <1>10, FS_RemoveElement
    <2>3. f \in Tombstones <=> states[f] = DELETED
      BY <1>6 DEF Tombstones
    <2>4. tombstones' = Cardinality(Tombstones')
      BY <1>1, <1>2, <1>4, <2>2, <2>3 DEF TableShape
    <2>5. Cardinality(Tombstones') \in Nat
      BY <1>9, <1>10, FS_RemoveElement, FS_CardinalityType
    <2> QED
      BY <1>1, <1>2, <1>4, <2>1, <2>4, <2>5 DEF TableShape
  <1>12. TypeOK'
    <2>1. states' \in [Buckets(capacity') -> {EMPTY, OCCUPIED, DELETED}]
      BY <1>1, <1>2 DEF TypeOK
    <2>2. keys' \in [Buckets(capacity') -> Keys \cup {None}]
      BY <1>1, <1>2, <1>3 DEF TypeOK
    <2>3. values' \in [Buckets(capacity') -> Values \cup {None}]
      BY <1>1, <1>2, <1>3 DEF TypeOK
    <2>4. liveValues' \in [Values -> Int]
      BY <1>1, <1>2, <1>3 DEF TypeOK
    <2> QED
      BY <1>1, <1>2, <1>4, <1>7, <1>11, <2>1, <2>2, <2>3, <2>4
      DEF TypeOK, newTable
  <1>13. TableShape'
    BY <1>2, <1>4, <1>11 DEF TableShape
  <1>14. \A b \in Occupied :
            b # f /\ keys'[b] = keys[b] /\ values'[b] = values[b]
    BY <1>1, <1>2, <1>8 DEF TypeOK, Occupied
  <1>15. keys'[f] = k /\ values'[f] = call.value
    BY <1>1, <1>2, <1>6 DEF TypeOK
  <1>16. \A c \in Buckets(capacity) : states[c] # EMPTY => states'[c] # EMPTY
    BY <1>1, <1>2 DEF TypeOK, EMPTY, OCCUPIED
  <1>17. ChainsUnbroken'
    <2> SUFFICES ASSUME NEW b \in Occupied'
                 PROVE  /\ keys'[b] \in Keys /\ values'[b] \in Values
                        /\ \A c \in Buckets(capacity) :
                              Dist(Home(keys'[b], capacity), c, capacity)
                                < Dist(Home(keys'[b], capacity), b, capacity)
                              => states'[c] # EMPTY
                        /\ \A c \in Occupied' : keys'[c] = keys'[b] => c = b
      BY <1>2 DEF ChainsUnbroken
    <2>1. CASE b = f
      <3>1. \A c \in Occupied' : keys'[c] = k => c = f
        BY <1>3, <1>8, <1>14
      <3> QED
        BY <1>3, <1>6, <1>15, <1>16, <2>1, <3>1
    <2>2. CASE b \in Occupied
      <3>1. keys[b] \in Keys /\ values[b] \in Values
        BY <1>1, <2>2 DEF ChainsUnbroken
      <3>2. \A c \in Buckets(capacity) :
               Dist(Home(keys[b], capacity), c, capacity)
                 < Dist(Home(keys[b], capacity), b, capacity)
               => states'[c] # EMPTY
        BY <1>1, <1>16, <2>2 DEF ChainsUnbroken
      <3>3. \A c \in Occupied' : keys'[c] = keys[b] => c = b
        BY <1>1, <1>3, <1>8, <1>14, <1>15, <2>2 DEF ChainsUnbroken
      <3> QED
        BY <1>14, <2>2, <3>1, <3>2, <3>3
    <2> QED
      BY <1>8, <2>1, <2>2
  <1>18. RehashFaithful' /\ RehashShape'
    BY <1>7 DEF RehashFaithful, RehashShape
  <1>19. ControlShape'
    BY <1>1, <1>2, <1>7 DEF ControlShape
  <1> QED
    BY <1>12, <1>13, <1>17, <1>18, <1>19 DEF IInv

LEMMA DeleteInv ==
    ASSUME IInv, Delete
    PROVE  IInv'
  <1> DEFINE k == call.key
             b == Stop(k)
  <1>1. TypeOK /\ TableShape /\ ChainsUnbroken /\ ControlShape
    BY DEF IInv
  <1>2. /\ pc = "delete" /\ k # None /\ Found(k) /\ Return("ok")
        /\ liveKeys' = [liveKeys EXCEPT ![keys[b]] = @ - 1]
        /\ liveValues' = [liveValues EXCEPT ![values[b]] = @ - 1]
        /\ keys' = [keys EXCEPT ![b] = None]
        /\ values' = [values EXCEPT ![b] = None]
        /\ size' = size - 1 /\ UNCHANGED capacity /\ UNCHANGED newTable
    BY DEF Delete
  <1>3. k \in Keys
    BY <1>1, <1>2 DEF TypeOK, CallRecords
  <1>4. b \in Occupied /\ b \in Buckets(capacity)
    <2>1. b \in Occupied
      BY <1>1, <1>2, <1>3, FindsStored DEF Found
    <2> QED
      BY <2>1 DEF Occupied
  <1>5. /\ pc' = "idle" /\ pc' \in Phases
        /\ call' \in CallRecords /\ call'.ret # "pending" /\ request' \in Nat
    BY <1>1, <1>2, ReturnType
  <1>6. /\ capacity \in Nat /\ size \in Nat /\ tombstones \in Nat
        /\ (size + tombstones) * 4 <= capacity * 3
    BY <1>1 DEF TypeOK, TableShape
  <1>7. IsFiniteSet(Occupied) /\ IsFiniteSet(Tombstones)
    BY <1>6, BucketSetsFinite DEF Occupied, Tombstones
  <1>8. Cardinality(Occupied \ {b}) = size - 1 /\ size - 1 \in Nat
    <2>1. /\ IsFiniteSet(Occupied \ {b})
          /\ Cardinality(Occupied \ {b}) = Cardinality(Occupied) - 1
      BY <1>4, <1>7, FS_RemoveElement
    <2>2. Cardinality(Occupied \ {b}) \in Nat
      BY <2>1, FS_CardinalityType
    <2> QED
      BY <1>1, <2>1, <2>2 DEF TableShape
  <1>9. /\ liveKeys' \in [Keys -> Int]
        /\ liveValues' \in [Values -> Int]
    <2>1. liveKeys \in [Keys -> Int] /\ liveValues \in [Values -> Int]
      BY <1>1 DEF TypeOK
    <2>2. keys[b] \in Keys /\ values[b] \in Values
      BY <1>1, <1>4 DEF ChainsUnbroken
    <2> QED
      BY <1>2, <2>1, <2>2
  <1>10. keys' \in [Buckets(capacity') -> Keys \cup {None}]
    BY <1>1, <1>2 DEF TypeOK
  <1>11. values' \in [Buckets(capacity') -> Values \cup {None}]
    BY <1>1, <1>2 DEF TypeOK
  <1>12. RehashFaithful' /\ RehashShape'
    BY <1>5 DEF RehashFaithful, RehashShape
  <1>13. ControlShape'
    BY <1>1, <1>2, <1>5 DEF ControlShape
  <1>14. CASE size = 1
    <2>1. states' = [c \in Buckets(capacity) |-> EMPTY] /\ tombstones' = 0
      BY <1>14 DEF Delete
    <2>2. Occupied' = {} /\ Tombstones' = {}
      BY <1>2, <2>1 DEF Occupied, Tombstones, EMPTY, OCCUPIED, DELETED
    <2>3. TableShape'
      BY <1>2, <1>6, <1>14, <2>1, <2>2, FS_EmptySet DEF TableShape
    <2>4. ChainsUnbroken'
      BY <2>2 DEF ChainsUnbroken
    <2>5. states' \in [Buckets(capacity') -> {EMPTY, OCCUPIED, DELETED}]
      BY <1>2, <2>1
    <2>6. TypeOK'
      BY <1>1, <1>2, <1>5, <1>6, <1>8, <1>9, <1>10, <1>11, <2>1, <2>5
      DEF TypeOK, newTable
    <2> QED
      BY <1>12, <1>13, <2>3, <2>4, <2>6 DEF IInv
  <1>15. CASE size # 1
    <2>1. states' = [states EXCEPT ![b] = DELETED] /\ tombstones' = tombstones + 1
      BY <1>15 DEF Delete
    <2>2. Occupied' = Occupied \ {b}
      BY <1>1, <1>2, <1>4, <2>1 DEF TypeOK, Occupied, OCCUPIED, DELETED
    <2>3. Tombstones' = Tombstones \cup {b} /\ b \notin Tombstones
      BY <1>1, <1>2, <1>4, <2>1 DEF TypeOK, Occupied, Tombstones, OCCUPIED, DELETED
    <2>4. TableShape'
      <3>1. Cardinality(Tombstones') = tombstones + 1
        BY <1>1, <1>7, <2>3, FS_AddElement DEF TableShape
      <3> QED
        BY <1>2, <1>6, <1>8, <2>1, <2>2, <3>1 DEF TableShape
    <2>5. \A c \in Occupied \ {b} : keys'[c] = keys[c] /\ values'[c] = values[c]
      BY <1>1, <1>2 DEF TypeOK, Occupied
    <2>6. \A c \in Buckets(capacity) : states[c] # EMPTY => states'[c] # EMPTY
      BY <1>1, <2>1 DEF TypeOK, EMPTY, DELETED
    <2>7. ChainsUnbroken'
      <3> SUFFICES ASSUME NEW c \in Occupied \ {b}
                   PROVE  /\ keys[c] \in Keys /\ values[c] \in Values
                          /\ \A d \in Buckets(capacity) :
                                Dist(Home(keys[c], capacity), d, capacity)
                                  < Dist(Home(keys[c], capacity), c, capacity)
                                => states'[d] # EMPTY
                          /\ \A d \in Occupied \ {b} : keys[d] = keys[c] => d = c
        BY <1>2, <2>2, <2>5 DEF ChainsUnbroken
      <3> QED
        BY <1>1, <2>6 DEF ChainsUnbroken
    <2>8. states' \in [Buckets(capacity') -> {EMPTY, OCCUPIED, DELETED}]
      BY <1>1, <1>2, <2>1 DEF TypeOK
    <2>9. TypeOK'
      BY <1>1, <1>2, <1>5, <1>6, <1>8, <1>9, <1>10, <1>11, <2>1, <2>8
      DEF TypeOK, newTable
    <2> QED
      BY <1>12, <1>13, <2>4, <2>7, <2>9 DEF IInv
  <1> QED
    BY <1>14, <1>15

LEMMA DestroyEntriesType ==
    ASSUME TypeOK, DestroyEntries
    PROVE  liveKeys' \in [Keys -> Int] /\ liveValues' \in [Values -> Int]
  <1>1. capacity \in Nat /\ Occupied \in SUBSET Buckets(capacity)
    BY DEF TypeOK, Occupied
  <1>2. ASSUME NEW k \in Keys
        PROVE  Cardinality({b \in Occupied : keys[b] = k}) \in Nat
    <2>1. {b \in Occupied : keys[b] = k} \in SUBSET Buckets(capacity)
      BY <1>1
    <2> QED
      BY <1>1, <2>1, BucketSetsFinite
  <1>3. ASSUME NEW v \in Values
        PROVE  Cardinality({b \in Occupied : values[b] = v}) \in Nat
    <2>1. {b \in Occupied : values[b] = v} \in SUBSET Buckets(capacity)
      BY <1>1
    <2> QED
      BY <1>1, <2>1, BucketSetsFinite
  <1>4. liveKeys \in [Keys -> Int] /\ liveValues \in [Values -> Int]
    BY DEF TypeOK
  <1> QED
    BY <1>2, <1>3, <1>4 DEF DestroyEntries

\* A step to "idle" that leaves a table without entries keeps the invariant.
LEMMA EmptiedInv ==
    ASSUME IInv, TypeOK', pc' = "idle", call'.ret # "pending",
           \A b \in Buckets(capacity') : states'[b] = EMPTY,
           size' = 0, tombstones' = 0, capacity' \in {0, capacity}
    PROVE  IInv'
  <1>1. Occupied' = {} /\ Tombstones' = {}
    BY DEF Occupied, Tombstones, EMPTY, OCCUPIED, DELETED
  <1>2. TableShape'
    <2>1. (size' + tombstones') * 4 <= capacity' * 3
      <3>1. capacity' \in Nat
        BY DEF TypeOK
      <3>2. \A n \in Nat : (0 + 0) * 4 <= n * 3
        OBVIOUS
      <3> QED
        BY <3>1, <3>2, Zenon
    <2> QED
      BY <1>1, <2>1, FS_EmptySet DEF TableShape
  <1>3. ChainsUnbroken'
    BY <1>1 DEF ChainsUnbroken
  <1>4. RehashFaithful' /\ RehashShape'
    BY DEF RehashFaithful, RehashShape
  <1>5. ControlShape'
    BY DEF IInv, ControlShape
  <1> QED
    BY <1>2, <1>3, <1>4, <1>5 DEF IInv

LEMMA ClearInv ==
    ASSUME IInv, Clear
    PROVE  IInv'
  <1>1. TypeOK
    BY DEF IInv
  <1>2. /\ DestroyEntries /\ Return("ok")
        /\ states' = [b \in Buckets(capacity) |-> EMPTY]
        /\ keys' = [b \in Buckets(capacity) |-> None]
        /\ values' = [b \in Buckets(capacity) |-> None]
        /\ size' = 0 /\ tombstones' = 0 /\ capacity' = capacity
        /\ UNCHANGED newTable
    BY DEF Clear
  <1>3. /\ pc' = "idle" /\ pc' \in Phases
        /\ call' \in CallRecords /\ call'.ret # "pending" /\ request' \in Nat
    BY <1>1, <1>2, ReturnType
  <1>4. TypeOK'
    BY <1>1, <1>2, <1>3, DestroyEntriesType DEF TypeOK, newTable
  <1> QED
    BY <1>2, <1>3, <1>4, EmptiedInv

LEMMA DestroyInv ==
    ASSUME IInv, Destroy
    PROVE  IInv'
  <1>1. TypeOK
    BY DEF IInv
  <1>2. /\ DestroyEntries /\ Return("ok")
        /\ states' = <<>> /\ keys' = <<>> /\ values' = <<>>
        /\ size' = 0 /\ tombstones' = 0 /\ capacity' = 0
        /\ UNCHANGED newTable
    BY DEF Destroy
  <1>3. /\ pc' = "idle" /\ pc' \in Phases
        /\ call' \in CallRecords /\ call'.ret # "pending" /\ request' \in Nat
    BY <1>1, <1>2, ReturnType
  <1>4. Buckets(capacity') = {}
    BY <1>2 DEF Buckets
  <1>5. TypeOK'
    BY <1>1, <1>2, <1>3, <1>4, DestroyEntriesType DEF TypeOK, newTable
  <1> QED
    BY <1>2, <1>3, <1>4, <1>5, EmptiedInv

LEMMA ReserveInv ==
    ASSUME IInv, ReserveStart \/ ReserveDouble \/ ReserveRehash
    PROVE  IInv'
  <1>1. TypeOK /\ TableShape /\ ChainsUnbroken /\ ControlShape
    BY DEF IInv
  <1>2. ASSUME TypeOK', UNCHANGED table, UNCHANGED call,
               pc \in {"reserve", "sizing"}, pc' = "sizing",
               buckets' >= InitCapacity
        PROVE  IInv'
    <2>1. TableShape' /\ ChainsUnbroken'
      BY <1>1, <1>2, TableUnchanged
    <2>2. RehashFaithful' /\ RehashShape'
      BY <1>2 DEF RehashFaithful, RehashShape
    <2>3. ControlShape'
      BY <1>1, <1>2 DEF ControlShape, table
    <2> QED
      BY <1>2, <2>1, <2>2, <2>3 DEF IInv
  <1>3. CASE ReserveStart
    <2>1. CASE request = 0
      <3>1. Return("ok") /\ UNCHANGED newTable /\ UNCHANGED table /\ UNCHANGED live
        BY <1>3, <2>1 DEF ReserveStart
      <3>2. /\ pc' = "idle" /\ pc' \in Phases
            /\ call' \in CallRecords /\ call'.ret # "pending" /\ request' \in Nat
        BY <1>1, <3>1, ReturnType
      <3>3. TypeOK'
        BY <1>1, <3>1, <3>2 DEF TypeOK, table, newTable, live
      <3> QED
        BY <3>1, <3>2, <3>3, BackToIdle
    <2>2. CASE request # 0
      <3>1. /\ pc = "reserve" /\ pc' = "sizing" /\ buckets' = InitCapacity
            /\ UNCHANGED <<newStates, newKeys, newValues, next, call, request>>
            /\ UNCHANGED table /\ UNCHANGED live
        BY <1>3, <2>2 DEF ReserveStart
      <3>2. TypeOK' /\ buckets' >= InitCapacity
        BY <1>1, <3>1, CapacityAssumption DEF TypeOK, table, live, Phases
      <3> QED
        BY <1>2, <3>1, <3>2
    <2> QED
      BY <2>1, <2>2
  <1>4. CASE ReserveDouble
    <2>1. /\ pc = "sizing" /\ buckets' = buckets * 2
          /\ UNCHANGED <<newStates, newKeys, newValues, next>>
          /\ UNCHANGED table /\ UNCHANGED live /\ UNCHANGED control
      BY <1>4 DEF ReserveDouble
    <2>2. TypeOK'
      BY <1>1, <2>1 DEF TypeOK, table, live, control
    <2>3. buckets' >= InitCapacity
      BY <1>1, <2>1, CapacityAssumption DEF TypeOK, ControlShape
    <2> QED
      BY <1>2, <2>1, <2>2, <2>3 DEF control
  <1>5. CASE ReserveRehash
    <2>1. pc = "sizing" /\ buckets >= InitCapacity
      BY <1>1, <1>5 DEF ReserveRehash, ControlShape
    <2>2. CASE Return("ok") /\ buckets' = 0
               /\ UNCHANGED <<table, newStates, newKeys, newValues, next, live>>
      <3>1. /\ pc' = "idle" /\ pc' \in Phases
            /\ call' \in CallRecords /\ call'.ret # "pending" /\ request' \in Nat
        BY <1>1, <2>2, ReturnType
      <3>2. TypeOK'
        BY <1>1, <2>2, <3>1 DEF TypeOK, table, live
      <3> QED
        BY <2>2, <3>1, <3>2, BackToIdle
    <2>3. CASE Fail
      BY <2>3, FailInv
    <2>4. CASE RehashStart(IF buckets < capacity THEN capacity ELSE buckets)
      <3> DEFINE cap == IF buckets < capacity THEN capacity ELSE buckets
      <3>1. /\ capacity \in Nat /\ buckets \in Nat
            /\ size \in Nat /\ tombstones \in Nat
            /\ (size + tombstones) * 4 <= capacity * 3
        BY <1>1 DEF TypeOK, TableShape
      <3>2. cap \in Nat /\ cap >= capacity /\ cap >= InitCapacity
        BY <2>1, <3>1, CapacityAssumption
      <3>3. call.op # "set"
        BY <1>1, <2>1 DEF ControlShape
      <3>4. (size + (IF call.op = "set" THEN 1 ELSE 0)) * 4 <= cap * 3
        BY <3>1, <3>2, <3>3
      <3> HIDE DEF cap
      <3> QED
        BY <2>1, <2>4, <3>2, <3>3, <3>4, RehashStartInv DEF cap
    <2> QED
      BY <1>5, <2>2, <2>3, <2>4 DEF ReserveRehash
  <1> QED
    BY <1>3, <1>4, <1>5

LEMMA NextInv ==
    ASSUME IInv, [Next]_vars
    PROVE  IInv'
  <1>1. CASE Calls
    <2>1. ASSUME NEW k \in Keys \cup {None}, NEW v \in Values \cup {None},
                 Call("set", k, v, 0)
          PROVE  IInv'
      BY <2>1, CallInv
    <2>2. ASSUME NEW k \in Keys \cup {None}, Call("delete", k, None, 0)
          PROVE  IInv'
      BY <2>2, CallInv
    <2>3. ASSUME NEW n \in Requests, Call("reserve", None, None, n)
          PROVE  IInv'
      BY <2>3, CallInv, RequestsAssumption
    <2>4. ASSUME Call("clear", None, None, 0) PROVE IInv'
      BY <2>4, CallInv
    <2>5. ASSUME Call("destroy", None, None, 0) PROVE IInv'
      BY <2>5, CallInv
    <2> QED
      BY <1>1, <2>1, <2>2, <2>3, <2>4, <2>5 DEF Calls
  <1>2. CASE RehashStep
    BY <1>2, RehashStepInv
  <1>3. CASE RehashEnd
    BY <1>3, RehashEndInv
  <1>4. CASE SetInvalid \/ SetCopyFails \/ DeleteMissing
    BY <1>4, FailInv DEF SetInvalid, SetCopyFails, DeleteMissing
  <1>5. CASE SetPrepare
    BY <1>5, SetPrepareInv
  <1>6. CASE SetReplace
    BY <1>6, SetReplaceInv
  <1>7. CASE SetCopyKey
    BY <1>7, SetCopyKeyInv
  <1>8. CASE SetUnstage
    BY <1>8, SetUnstageInv
  <1>9. CASE SetInsert
    BY <1>9, SetInsertInv
  <1>10. CASE Delete
    BY <1>10, DeleteInv
  <1>11. CASE Clear
    BY <1>11, ClearInv
  <1>12. CASE Destroy
    BY <1>12, DestroyInv
  <1>13. CASE ReserveStart \/ ReserveDouble \/ ReserveRehash
    BY <1>13, ReserveInv
  <1>14. CASE UNCHANGED vars
    <2>1. UNCHANGED <<table, newTable, live, control>>
      BY <1>14 DEF vars
    <2> QED
      BY <2>1 DEF table, newTable, live, control, IInv, TypeOK, TableShape,
                  ChainsUnbroken, RehashFaithful, RehashShape, ControlShape,
                  Occupied, Tombstones, NewOccupied, Crowded
  <1> QED
    BY <1>1, <1>2, <1>3, <1>4, <1>5, <1>6, <1>7, <1>8, <1>9, <1>10, <1>11,
       <1>12, <1>13, <1>14 DEF Next, Body

\* The inductive invariant holds of hashmap.c for any keys, values, hash
\* function, initial capacity of at least 2 and limit on memory.
THEOREM IInvHolds == Spec => []IInv
  <1>1. Init => IInv
    BY InitInv
  <1>2. IInv /\ [Next]_vars => IInv'
    BY NextInv
  <1> QED
    BY <1>1, <1>2, PTL DEF Spec

\* No call of src/hashmap.c takes a field of the map or an array out of its
\* type.
THEOREM TypeCorrect == Spec => []TypeOK
  <1>1. IInv => TypeOK
    BY DEF IInv
  <1> QED
    BY <1>1, IInvHolds, PTL

\* The counters are exact and the table is never more than three quarters
\* full, through every sequence of calls (src/hashmap.c:196).
THEOREM TableShapeHolds == Spec => []TableShape
  <1>1. IInv => TableShape
    BY DEF IInv
  <1> QED
    BY <1>1, IInvHolds, PTL

\* No deletion, insertion or rehash cuts a probe sequence short of an entry
\* or stores a key twice (src/hashmap.h:17).
THEOREM ChainsUnbrokenHold == Spec => []ChainsUnbroken
  <1>1. IInv => ChainsUnbroken
    BY DEF IInv
  <1> QED
    BY <1>1, IInvHolds, PTL

\* At every moment of a rehash the new table holds exactly the entries of
\* the old buckets it has passed (src/hashmap.c:172).
THEOREM RehashFaithfulHolds == Spec => []RehashFaithful
  <1>1. IInv => RehashFaithful
    BY DEF IInv
  <1> QED
    BY <1>1, IInvHolds, PTL

\* What hashmap_contains and hashmap_at answer for k: they find it exactly
\* when a bucket holds it, unless the map has no table at all.
FindsWhatIsStored ==
    \A k \in Keys : Found(k) <=> \E b \in Occupied : keys[b] = k

\* Every probe of an allocated table ends, and it finds a key exactly when a
\* bucket holds that key (src/hashmap.c:134).
THEOREM FindSlotCorrect ==
    Spec => [](/\ FindsWhatIsStored
               /\ capacity > 0 => \A k \in Keys : Stops(k) # {})
  <1>1. ASSUME IInv
        PROVE  /\ FindsWhatIsStored
               /\ capacity > 0 => \A k \in Keys : Stops(k) # {}
    <2>1. TypeOK /\ TableShape /\ ChainsUnbroken /\ capacity \in Nat
      BY <1>1 DEF IInv, TypeOK
    <2>2. ASSUME capacity > 0, NEW k \in Keys PROVE Stops(k) # {}
      BY <2>1, <2>2, EmptyBucketExists DEF Stops
    <2>3. ASSUME NEW k \in Keys
          PROVE  Found(k) <=> \E b \in Occupied : keys[b] = k
      <3>1. CASE capacity > 0
        BY <2>1, <2>2, <3>1, FindsStored
      <3>2. CASE capacity = 0
        <4>1. Buckets(capacity) = {}
          BY <3>2 DEF Buckets
        <4> QED
          BY <4>1 DEF Found, Stops, Occupied
      <3> QED
        BY <2>1, <3>1, <3>2
    <2> QED
      BY <2>2, <2>3 DEF FindsWhatIsStored
  <1> QED
    BY <1>1, IInvHolds, PTL

-----------------------------------------------------------------------------
(* The refinement: what callers read *)

Contents == [k \in Keys |-> At(k)]

\* A lookup returns the value of the bucket that holds the key, if any.
LEMMA AtIsStored ==
    IInv => \A k \in Keys :
        /\ \A b \in Occupied : keys[b] = k => At(k) = values[b]
        /\ (\A b \in Occupied : keys[b] # k) => At(k) = None
  <1> SUFFICES ASSUME IInv, NEW k \in Keys
               PROVE  /\ \A b \in Occupied : keys[b] = k => At(k) = values[b]
                      /\ (\A b \in Occupied : keys[b] # k) => At(k) = None
    OBVIOUS
  <1>1. TypeOK /\ TableShape /\ ChainsUnbroken
    BY DEF IInv
  <1>2. CASE Stops(k) = {}
    <2>1. ~Found(k)
      BY <1>2 DEF Found
    <2>2. capacity \in Nat /\ ~ (capacity > 0)
      BY <1>1, <1>2, EmptyBucketExists DEF Stops, TypeOK
    <2>3. Buckets(capacity) = {}
      BY <2>2 DEF Buckets
    <2> QED
      BY <2>1, <2>3 DEF At, Occupied
  <1>3. CASE Stops(k) # {}
    BY <1>1, <1>3, FindsStored DEF At
  <1> QED
    BY <1>2, <1>3

\* The size field is the number of keys a lookup finds.
LEMMA SizeIsPresent ==
    IInv => size = Cardinality(Map!Present(Contents))
  <1> SUFFICES ASSUME IInv PROVE size = Cardinality(Map!Present(Contents))
    OBVIOUS
  <1> DEFINE P == Map!Present(Contents)
             f == [b \in Occupied |-> keys[b]]
  <1>1. TypeOK /\ TableShape /\ ChainsUnbroken
    BY DEF IInv
  <1>2. \A b \in Occupied : keys[b] \in Keys /\ values[b] \in Values
    BY <1>1 DEF ChainsUnbroken
  <1>3. \A k \in Keys : At(k) # None <=> \E b \in Occupied : keys[b] = k
    BY <1>2, AtIsStored, NoneAssumption
  <1>4. P = {k \in Keys : At(k) # None}
    BY DEF Map!Present, Contents
  <1>5. f \in [Occupied -> P]
    BY <1>2, <1>3, <1>4
  <1>6. \A b, c \in Occupied : f[b] = f[c] => b = c
    BY <1>1 DEF ChainsUnbroken
  <1>7. \A k \in P : \E b \in Occupied : f[b] = k
    BY <1>3, <1>4
  <1>8. f \in Bijection(Occupied, P)
    BY <1>5, <1>6, <1>7 DEF Bijection, Injection, Surjection, IsInjective
  <1>9. ExistsBijection(Occupied, P)
    BY <1>8 DEF ExistsBijection
  <1>10. IsFiniteSet(Occupied)
    <2>1. capacity \in Nat /\ Occupied \in SUBSET Buckets(capacity)
      BY <1>1 DEF TypeOK, Occupied
    <2> QED
      BY <2>1, BucketSetsFinite
  <1>11. Cardinality(P) = Cardinality(Occupied)
    BY <1>9, <1>10, FS_Bijection
  <1> QED
    BY <1>1, <1>11 DEF TableShape

LEMMA SameCardinality ==
    ASSUME NEW S
    PROVE  Map!Cardinality(S) = Cardinality(S)
  BY DEF Map!Cardinality, Cardinality

LEMMA NextState ==
    ASSUME IInv'
    PROVE  /\ \A k \in Keys :
                 /\ \A b \in Occupied' : keys'[b] = k => At(k)' = values'[b]
                 /\ (\A b \in Occupied' : keys'[b] # k) => At(k)' = None
           /\ size' = Cardinality(Map!Present(Contents'))
  <1>1. (\A k \in Keys :
            /\ \A b \in Occupied : keys[b] = k => At(k) = values[b]
            /\ (\A b \in Occupied : keys[b] # k) => At(k) = None)'
    BY AtIsStored, PTL
  <1>2. (size = Cardinality(Map!Present(Contents)))'
    BY SizeIsPresent, PTL
  <1> QED
    BY <1>1, <1>2 DEF Map!Present

-----------------------------------------------------------------------------
(* Each step is a step of the map, or none *)

LEMMA ContentsKept ==
    ASSUME UNCHANGED <<capacity, states, keys, values>>
    PROVE  Contents' = Contents
  BY DEF Contents, At, Found, Stop, Stops

\* Steps that leave what callers observe alone.
LEMMA SilentStep ==
    ASSUME Contents' = Contents, UNCHANGED <<size, call>>
    PROVE  [Map!Next]_Map!mapVars
  BY DEF Contents, Map!mapVars

\* Steps that answer: the map's Answer from the size and the contents.
LEMMA Answers ==
    ASSUME IInv, IInv', NEW ret \in {"ok", "error"}, Return(ret), pc # "idle",
           NEW ops, call.op \in ops
    PROVE  Map!Answer(ops, ret, Contents')
  <1>1. call.ret = "pending"
    BY DEF IInv, ControlShape
  <1>2. size' = Cardinality(Map!Present(Contents'))
    BY NextState
  <1>3. call' = [call EXCEPT !.ret = ret]
    BY DEF Return
  <1>4. [k \in Keys |-> At(k)]' = Contents'
    BY DEF Contents
  <1> QED
    BY <1>1, <1>2, <1>3, <1>4, SameCardinality DEF Map!Answer, Map!Idle

LEMMA CallStep ==
    ASSUME IInv, NEW op \in {"set", "delete", "reserve", "clear", "destroy"},
           NEW k \in Keys \cup {None}, NEW v \in Values \cup {None}, NEW n,
           Call(op, k, v, n)
    PROVE  [Map!Next]_Map!mapVars
  <1>1. Contents' = Contents /\ UNCHANGED size
    BY ContentsKept DEF Call, table
  <1>2. call.ret # "pending"
    BY DEF IInv, ControlShape, Call
  <1>3. Map!Call(op, k, v)
    BY <1>1, <1>2 DEF Map!Call, Map!Idle, Call, Contents
  <1> QED
    BY <1>3 DEF Map!Next

LEMMA FailStep ==
    ASSUME IInv, IInv', Fail, pc # "idle", call.op \in {"set", "reserve"}
    PROVE  [Map!Next]_Map!mapVars
  <1>1. Contents' = Contents
    BY ContentsKept DEF Fail, table
  <1>2. Map!Answer({"set", "reserve"}, "error", Contents')
    BY Answers DEF Fail
  <1> QED
    BY <1>1, <1>2 DEF Map!Next, Map!Refuse, Contents

\* The rehashed table holds what the old one held.
LEMMA RehashEndContents ==
    ASSUME IInv, IInv', RehashEnd
    PROVE  Contents' = Contents
  <1>1. /\ pc = "rehash" /\ next >= capacity
        /\ capacity' = buckets /\ size' = size
        /\ states' = newStates /\ keys' = newKeys /\ values' = newValues
    BY DEF RehashEnd
  <1>2. \A c \in Occupied : c < next
    <2>1. capacity \in Nat /\ next \in Nat
      BY DEF IInv, TypeOK
    <2> QED
      BY <1>1, <2>1 DEF Occupied, Buckets
  <1>3. Occupied' = NewOccupied
    BY <1>1 DEF Occupied, NewOccupied
  <1>4. ASSUME NEW k \in Keys PROVE At(k)' = At(k)
    <2>1. CASE \E c \in Occupied : keys[c] = k
      <3>1. PICK c \in Occupied : keys[c] = k
        BY <2>1
      <3>2. PICK b \in NewOccupied : newKeys[b] = keys[c] /\ newValues[b] = values[c]
        BY <1>1, <1>2 DEF IInv, RehashFaithful
      <3>3. At(k)' = values'[b]
        BY <1>1, <1>3, <3>1, <3>2, NextState
      <3>4. At(k) = values[c]
        BY <3>1, AtIsStored
      <3> QED
        BY <1>1, <3>2, <3>3, <3>4
    <2>2. CASE \A c \in Occupied : keys[c] # k
      <3>1. \A b \in NewOccupied : newKeys[b] # k
        BY <1>1, <2>2 DEF IInv, RehashFaithful
      <3>2. At(k)' = None
        BY <1>1, <1>3, <3>1, NextState
      <3> QED
        BY <2>2, <3>2, AtIsStored
    <2> QED
      BY <2>1, <2>2
  <1> QED
    BY <1>4 DEF Contents

LEMMA RehashEndStep ==
    ASSUME IInv, IInv', RehashEnd
    PROVE  [Map!Next]_Map!mapVars
  <1>1. pc = "rehash" /\ size' = size
    BY DEF RehashEnd
  <1>2. Contents' = Contents
    BY RehashEndContents
  <1>3. CASE call.op = "set"
    BY <1>1, <1>2, <1>3, SilentStep DEF RehashEnd
  <1>4. CASE call.op # "set"
    <2>1. Return("ok") /\ call.op \in {"reserve"}
      BY <1>1, <1>4 DEF RehashEnd, IInv, ControlShape
    <2>2. Map!Answer({"reserve"}, "ok", Contents')
      BY <1>1, <2>1, Answers
    <2> QED
      BY <1>2, <2>2 DEF Map!Next, Map!Reserve, Contents
  <1> QED
    BY <1>3, <1>4

\* Storing: every other key keeps its bucket and its value.
LEMMA StoreContents ==
    ASSUME IInv, IInv', SetReplace \/ SetInsert
    PROVE  /\ pc \in {"find", "stage"} /\ Return("ok") /\ call.op \in {"set"}
           /\ call.key \in Keys /\ call.value \in Values
           /\ Contents' = [Contents EXCEPT ![call.key] = call.value]
  <1>1. /\ TypeOK /\ ChainsUnbroken /\ ControlShape /\ TypeOK'
        /\ TableShape
    BY DEF IInv
  <1>a. /\ pc \in {"find", "stage"} /\ Return("ok") /\ call.op \in {"set"}
        /\ call.key \in Keys /\ call.value \in Values
    BY <1>1 DEF SetReplace, SetInsert, ControlShape
  <1>b. PICK k \in Keys, v \in Values : k = call.key /\ v = call.value
    BY <1>a
  <1>2. /\ pc \in {"find", "stage"} /\ Return("ok") /\ call.op \in {"set"}
        /\ k = call.key /\ v = call.value
    BY <1>a, <1>b
  <1>3. PICK f \in Buckets(capacity) :
           /\ UNCHANGED capacity
           /\ values' = [values EXCEPT ![f] = v]
           /\ keys' = [keys EXCEPT ![f] = k]
           /\ Occupied' = Occupied \cup {f}
           /\ \A b \in Occupied : b # f => keys[b] # k
           /\ f \in Occupied => keys[f] = k
    <2>1. CASE SetReplace
      <3>1. Found(k) /\ Stop(k) \in Occupied /\ keys[Stop(k)] = k
        BY <1>1, <1>2, <2>1, FindsStored DEF SetReplace, Found
      <3>2. \A b \in Occupied : keys[b] = k => b = Stop(k)
        BY <1>1, <3>1 DEF ChainsUnbroken
      <3>3. /\ UNCHANGED <<capacity, states, keys>>
            /\ values' = [values EXCEPT ![Stop(k)] = v]
        BY <1>2, <2>1 DEF SetReplace
      <3>4. Occupied' = Occupied
        BY <3>3 DEF Occupied
      <3>5. keys' = [keys EXCEPT ![Stop(k)] = k]
        BY <1>1, <3>1, <3>3 DEF TypeOK
      <3>6. Stop(k) \in Buckets(capacity)
        BY <3>1 DEF Occupied
      <3> QED
        BY <3>1, <3>2, <3>3, <3>4, <3>5, <3>6
    <2>2. CASE SetInsert
      <3>1. ~Crowded /\ \A b \in Occupied : keys[b] # k
        BY <1>1, <1>2, <2>2 DEF SetInsert, ControlShape
      <3>2. capacity > 0
        BY <1>1, <3>1 DEF TypeOK, Crowded
      <3>3. Stops(k) # {}
        BY <1>1, <3>2, EmptyBucketExists DEF Stops
      <3>4. FreeSlot(k) \in Buckets(capacity) /\ FreeSlot(k) \notin Occupied
        BY <1>1, <1>2, <3>1, <3>3, FreeSlotOnChain
        DEF Occupied, EMPTY, OCCUPIED, DELETED
      <3>5. /\ UNCHANGED capacity
            /\ states' = [states EXCEPT ![FreeSlot(k)] = OCCUPIED]
            /\ values' = [values EXCEPT ![FreeSlot(k)] = v]
            /\ keys' = [keys EXCEPT ![FreeSlot(k)] = k]
        BY <1>2, <2>2 DEF SetInsert
      <3>6. Occupied' = Occupied \cup {FreeSlot(k)}
        BY <1>1, <3>4, <3>5 DEF TypeOK, Occupied
      <3> QED
        BY <3>1, <3>4, <3>5, <3>6
    <2> QED
      BY <2>1, <2>2
  <1>4. \A b \in Occupied : b \in Buckets(capacity)
    BY DEF Occupied
  <1>5. keys'[f] = k /\ values'[f] = v
    BY <1>1, <1>3 DEF TypeOK
  <1>6. \A b \in Occupied : b # f => keys'[b] = keys[b] /\ values'[b] = values[b]
    BY <1>1, <1>3, <1>4 DEF TypeOK
  <1>7. At(k)' = v
    BY <1>2, <1>3, <1>5, NextState
  <1>8. ASSUME NEW j \in Keys, j # k PROVE At(j)' = At(j)
    <2>1. CASE \E b \in Occupied : keys[b] = j
      <3>1. PICK b \in Occupied : keys[b] = j
        BY <2>1
      <3>2. b # f
        BY <1>3, <1>8, <3>1
      <3>3. At(j)' = values'[b]
        BY <1>3, <1>6, <3>1, <3>2, NextState
      <3> QED
        BY <1>6, <3>1, <3>2, <3>3, AtIsStored
    <2>2. CASE \A b \in Occupied : keys[b] # j
      <3>1. \A b \in Occupied' : keys'[b] # j
        BY <1>3, <1>5, <1>6, <1>8, <2>2
      <3> QED
        BY <2>2, <3>1, AtIsStored, NextState
    <2> QED
      BY <2>1, <2>2
  <1>9. Contents' = [Contents EXCEPT ![k] = v]
    BY <1>7, <1>8 DEF Contents
  <1> QED
    BY <1>a, <1>b, <1>9

LEMMA StoreStep ==
    ASSUME IInv, IInv', SetReplace \/ SetInsert
    PROVE  [Map!Next]_Map!mapVars
  <1>1. /\ pc \in {"find", "stage"} /\ Return("ok") /\ call.op \in {"set"}
        /\ call.key \in Keys /\ call.value \in Values
        /\ Contents' = [Contents EXCEPT ![call.key] = call.value]
    BY StoreContents
  <1>2. Map!Answer({"set"}, "ok", Contents')
    BY <1>1, Answers
  <1> QED
    BY <1>1, <1>2 DEF Map!Next, Map!Set, Contents

LEMMA DeleteStep ==
    ASSUME IInv, IInv', Delete
    PROVE  [Map!Next]_Map!mapVars
  <1>1. TypeOK /\ ChainsUnbroken /\ ControlShape /\ TableShape
    BY DEF IInv
  <1>a. pc = "delete" /\ call.key # None /\ call.key \in Keys
    BY <1>1 DEF Delete, TypeOK, CallRecords
  <1>b. PICK k \in Keys : k = call.key
    BY <1>a
  <1> DEFINE d == Stop(k)
  <1>2. /\ pc = "delete" /\ Return("ok") /\ Found(k) /\ k = call.key
        /\ keys' = [keys EXCEPT ![d] = None]
        /\ values' = [values EXCEPT ![d] = None]
        /\ UNCHANGED capacity
    BY <1>b DEF Delete
  <1>3. call.op \in {"delete"} /\ k \in Keys
    BY <1>1, <1>2 DEF ControlShape
  <1>4. d \in Occupied /\ keys[d] = k /\ d \in Buckets(capacity)
    <2>1. d \in Occupied /\ keys[d] = k
      BY <1>1, <1>2, <1>3, FindsStored DEF Found
    <2> QED
      BY <2>1 DEF Occupied
  <1>5. Occupied' = Occupied \ {d}
    <2>1. CASE size = 1
      <3>1. Cardinality(Occupied) = 1 /\ IsFiniteSet(Occupied)
        <4>1. capacity \in Nat /\ Occupied \in SUBSET Buckets(capacity)
          BY <1>1 DEF TypeOK, Occupied
        <4> QED
          BY <1>1, <2>1, <4>1, BucketSetsFinite DEF TableShape
      <3>2. Occupied = {d}
        BY <1>4, <3>1, FS_Singleton
      <3>3. states' = [c \in Buckets(capacity) |-> EMPTY]
        BY <2>1 DEF Delete
      <3>4. Occupied' = {}
        BY <1>2, <3>3 DEF Occupied, EMPTY, OCCUPIED
      <3> QED
        BY <3>2, <3>4
    <2>2. CASE size # 1
      <3>1. states' = [states EXCEPT ![d] = DELETED]
        BY <1>b, <2>2 DEF Delete
      <3> QED
        BY <1>1, <1>2, <1>4, <3>1 DEF TypeOK, Occupied, OCCUPIED, DELETED
    <2> QED
      BY <2>1, <2>2
  <1>6. \A b \in Occupied \ {d} : keys'[b] = keys[b] /\ values'[b] = values[b]
    BY <1>1, <1>2 DEF TypeOK, Occupied
  <1>7. \A b \in Occupied \ {d} : keys[b] # k
    BY <1>1, <1>4 DEF ChainsUnbroken
  <1>8. At(k)' = None
    BY <1>3, <1>5, <1>6, <1>7, NextState
  <1>9. ASSUME NEW j \in Keys, j # k PROVE At(j)' = At(j)
    <2>1. CASE \E b \in Occupied : keys[b] = j
      <3>1. PICK b \in Occupied \ {d} : keys[b] = j
        BY <1>4, <1>9, <2>1
      <3>2. At(j)' = values'[b]
        BY <1>5, <1>6, <3>1, NextState
      <3> QED
        BY <1>6, <3>1, <3>2, AtIsStored
    <2>2. CASE \A b \in Occupied : keys[b] # j
      <3>1. \A b \in Occupied' : keys'[b] # j
        BY <1>5, <1>6, <2>2
      <3> QED
        BY <2>2, <3>1, AtIsStored, NextState
    <2> QED
      BY <2>1, <2>2
  <1>10. Contents' = [Contents EXCEPT ![k] = None]
    BY <1>8, <1>9 DEF Contents
  <1>11. k \in Map!Present(Contents)
    <2>1. At(k) = values[d] /\ values[d] \in Values
      BY <1>1, <1>3, <1>4, AtIsStored DEF ChainsUnbroken
    <2> QED
      BY <1>3, <2>1, NoneAssumption DEF Map!Present, Contents
  <1>12. Map!Answer({"delete"}, "ok", Contents')
    BY <1>2, <1>3, Answers
  <1> QED
    BY <1>2, <1>10, <1>11, <1>12 DEF Map!Next, Map!Delete, Contents

LEMMA EmptyStep ==
    ASSUME IInv, IInv', Clear \/ Destroy
    PROVE  [Map!Next]_Map!mapVars
  <1>1. Return("ok") /\ pc \in {"clear", "destroy"}
    BY DEF Clear, Destroy
  <1>2. call.op \in {"clear", "destroy"}
    BY <1>1 DEF IInv, ControlShape
  <1>3. Occupied' = {}
    <2>1. CASE Clear
      BY <2>1 DEF Clear, Occupied, EMPTY, OCCUPIED
    <2>2. CASE Destroy
      BY <2>2 DEF Destroy, Occupied, Buckets
    <2> QED
      BY <2>1, <2>2
  <1>4. \A k \in Keys : At(k)' = None
    BY <1>3, NextState
  <1>5. Contents' = [k \in Keys |-> None]
    BY <1>4 DEF Contents
  <1>6. Map!Answer({"clear", "destroy"}, "ok", Contents')
    BY <1>1, <1>2, Answers
  <1> QED
    BY <1>5, <1>6 DEF Map!Next, Map!Clear

LEMMA DeleteMissingStep ==
    ASSUME IInv, IInv', DeleteMissing
    PROVE  [Map!Next]_Map!mapVars
  <1>1. /\ pc = "delete" /\ Fail /\ call.op \in {"delete"}
        /\ call.key # None /\ capacity # 0
             => Stops(call.key) # {} /\ ~Found(call.key)
    BY DEF DeleteMissing, IInv, ControlShape
  <1>2. call.key \notin Map!Present(Contents)
    <2>1. SUFFICES ASSUME call.key \in Keys, At(call.key) # None
                   PROVE  FALSE
      BY DEF Map!Present, Contents
    <2>2. Found(call.key)
      BY <2>1 DEF At
    <2>3. capacity = 0
      BY <1>1, <2>1, <2>2, NoneAssumption
    <2>4. Buckets(capacity) = {}
      BY <2>3 DEF Buckets
    <2> QED
      BY <2>2, <2>4 DEF Found, Stops
  <1>3. Contents' = Contents
    BY <1>1, ContentsKept DEF Fail, table
  <1>4. Map!Answer({"delete"}, "error", Contents')
    BY <1>1, Answers DEF Fail
  <1> QED
    BY <1>2, <1>3, <1>4 DEF Map!Next, Map!DeleteMissing, Contents

\* The phases that only work on the running call.
LEMMA InnerStep ==
    ASSUME RehashStep \/ SetCopyKey \/ ReserveDouble
             \/ \E cap \in {InitCapacity, capacity, capacity * 2, buckets} :
                   RehashStart(cap)
    PROVE  [Map!Next]_Map!mapVars
  <1>1. UNCHANGED table /\ UNCHANGED call
    BY DEF RehashStep, SetCopyKey, ReserveDouble, RehashStart, control
  <1>2. Contents' = Contents
    BY <1>1, ContentsKept DEF table
  <1> QED
    BY <1>1, <1>2, SilentStep DEF table

\* The answer of hashmap_reserve without a rehash.
LEMMA ReserveStep ==
    ASSUME IInv, IInv', UNCHANGED table, Return("ok"), pc # "idle",
           call.op = "reserve"
    PROVE  [Map!Next]_Map!mapVars
  <1>1. Contents' = Contents
    BY ContentsKept DEF table
  <1>2. Map!Answer({"reserve"}, "ok", Contents')
    BY Answers
  <1> QED
    BY <1>1, <1>2 DEF Map!Next, Map!Reserve, Contents

LEMMA NextStep ==
    ASSUME IInv, IInv', [Next]_vars
    PROVE  [Map!Next]_Map!mapVars
  <1>1. ControlShape
    BY DEF IInv
  <1>2. CASE Calls
    <2>1. ASSUME NEW k \in Keys \cup {None}, NEW v \in Values \cup {None},
                 Call("set", k, v, 0)
          PROVE  [Map!Next]_Map!mapVars
      BY <2>1, CallStep
    <2>2. ASSUME NEW k \in Keys \cup {None}, Call("delete", k, None, 0)
          PROVE  [Map!Next]_Map!mapVars
      BY <2>2, CallStep
    <2>3. ASSUME NEW n \in Requests, Call("reserve", None, None, n)
          PROVE  [Map!Next]_Map!mapVars
      BY <2>3, CallStep
    <2>4. ASSUME Call("clear", None, None, 0) PROVE [Map!Next]_Map!mapVars
      BY <2>4, CallStep
    <2>5. ASSUME Call("destroy", None, None, 0) PROVE [Map!Next]_Map!mapVars
      BY <2>5, CallStep
    <2> QED
      BY <1>2, <2>1, <2>2, <2>3, <2>4, <2>5 DEF Calls
  <1>3. CASE RehashStep \/ SetCopyKey \/ ReserveDouble
    BY <1>3, InnerStep
  <1>4. CASE RehashEnd
    BY <1>4, RehashEndStep
  <1>5. CASE SetInvalid \/ SetCopyFails
    BY <1>1, <1>5, FailStep DEF SetInvalid, SetCopyFails, ControlShape
  <1>6. CASE SetPrepare
    <2>1. pc = "set" /\ call.op = "set"
      BY <1>1, <1>6 DEF SetPrepare, ControlShape
    <2>2. CASE Fail
      BY <2>1, <2>2, FailStep
    <2>3. CASE RehashStart(IF capacity = 0 THEN InitCapacity ELSE capacity * 2)
      BY <2>3, InnerStep
    <2>4. CASE UNCHANGED <<table, newTable, live, call, request>>
      <3>1. Contents' = Contents
        BY <2>4, ContentsKept DEF table
      <3> QED
        BY <2>4, <3>1, SilentStep DEF table
    <2> QED
      BY <1>6, <2>2, <2>3, <2>4 DEF SetPrepare
  <1>7. CASE SetReplace \/ SetInsert
    BY <1>7, StoreStep
  <1>8. CASE SetUnstage
    <2>1. /\ pc = "stage" /\ call.op \in {"set", "reserve"}
          /\ Return("error") /\ UNCHANGED table
      BY <1>1, <1>8 DEF SetUnstage, ControlShape
    <2>2. Contents' = Contents
      BY <2>1, ContentsKept DEF table
    <2>3. Map!Answer({"set", "reserve"}, "error", Contents')
      BY <2>1, Answers
    <2> QED
      BY <2>2, <2>3 DEF Map!Next, Map!Refuse, Contents
  <1>9. CASE Delete
    BY <1>9, DeleteStep
  <1>10. CASE DeleteMissing
    BY <1>10, DeleteMissingStep
  <1>11. CASE Clear \/ Destroy
    BY <1>11, EmptyStep
  <1>12. CASE ReserveStart
    <2>1. pc = "reserve" /\ call.op = "reserve" /\ UNCHANGED table
      BY <1>1, <1>12 DEF ReserveStart, ControlShape
    <2>2. CASE request = 0
      BY <1>12, <2>1, <2>2, ReserveStep DEF ReserveStart
    <2>3. CASE request # 0
      <3>1. UNCHANGED call
        BY <1>12, <2>3 DEF ReserveStart
      <3>2. Contents' = Contents
        BY <2>1, ContentsKept DEF table
      <3> QED
        BY <2>1, <3>1, <3>2, SilentStep DEF table
    <2> QED
      BY <2>2, <2>3
  <1>13. CASE ReserveRehash
    <2>1. pc = "sizing" /\ call.op = "reserve"
      BY <1>1, <1>13 DEF ReserveRehash, ControlShape
    <2>2. CASE Return("ok") /\ buckets' = 0
               /\ UNCHANGED <<table, newStates, newKeys, newValues, next, live>>
      BY <2>1, <2>2, ReserveStep
    <2>3. CASE Fail
      BY <2>1, <2>3, FailStep
    <2>4. CASE RehashStart(IF buckets < capacity THEN capacity ELSE buckets)
      BY <2>4, InnerStep
    <2> QED
      BY <1>13, <2>2, <2>3, <2>4 DEF ReserveRehash
  <1>14. CASE UNCHANGED vars
    <2>1. UNCHANGED table /\ UNCHANGED call
      BY <1>14 DEF vars, control
    <2>2. Contents' = Contents
      BY <2>1, ContentsKept DEF table
    <2> QED
      BY <2>1, <2>2, SilentStep DEF table
  <1> QED
    BY <1>2, <1>3, <1>4, <1>5, <1>6, <1>7, <1>8, <1>9, <1>10, <1>11, <1>12,
       <1>13, <1>14 DEF Next, Body

\* hashmap.c implements a map: for every hash function, every sequence of
\* calls and every failed allocation, what lookups, the size and the answers
\* show is a behaviour of MapSpec.
THEOREM HashMapImplementsMap == Spec => ImplementsMap
  <1>1. Init => Map!Init
    <2> SUFFICES ASSUME Init PROVE Map!Init
      OBVIOUS
    <2>1. IInv
      BY InitInv
    <2>2. Occupied = {}
      BY DEF Init, Occupied, Buckets
    <2>3. \A k \in Keys : At(k) = None
      BY <2>1, <2>2, AtIsStored
    <2> QED
      BY <2>3 DEF Init, Map!Init
  <1>2. IInv /\ IInv' /\ [Next]_vars => [Map!Next]_Map!mapVars
    BY NextStep
  <1>3. Spec => Map!Spec
    BY <1>1, <1>2, IInvHolds, PTL DEF Spec, Map!Spec
  <1> QED
    BY <1>3 DEF ImplementsMap

-----------------------------------------------------------------------------
(* Counting the buckets that hold a key or a value *)

KeyHolders(k) == {b \in Occupied : keys[b] = k}
ValueHolders(v) == {b \in Occupied : values[b] = v}

\* The buckets that hold a key or a value are finitely many.
LEMMA HoldersFinite ==
    ASSUME TypeOK
    PROVE  /\ \A k \in Keys : IsFiniteSet(KeyHolders(k))
                              /\ Cardinality(KeyHolders(k)) \in Nat
           /\ \A v \in Values : IsFiniteSet(ValueHolders(v))
                                /\ Cardinality(ValueHolders(v)) \in Nat
  <1>1. capacity \in Nat
    BY DEF TypeOK
  <1>2. \A k \in Keys : KeyHolders(k) \in SUBSET Buckets(capacity)
    BY DEF KeyHolders, Occupied
  <1>3. \A v \in Values : ValueHolders(v) \in SUBSET Buckets(capacity)
    BY DEF ValueHolders, Occupied
  <1> QED
    BY <1>1, <1>2, <1>3, BucketSetsFinite

\* LiveCopies in terms of the holders.
LEMMA LiveCopiesHolders ==
    LiveCopies <=>
        /\ \A k \in Keys : liveKeys[k] = Cardinality(KeyHolders(k)) + Staged(k)
        /\ \A v \in Values : liveValues[v] = Cardinality(ValueHolders(v))
  BY DEF LiveCopies, KeyHolders, ValueHolders

\* The same of the next state.
LEMMA LiveCopiesHoldersNext ==
    LiveCopies' <=>
        /\ \A k \in Keys :
              liveKeys'[k] = Cardinality(KeyHolders(k)') + Staged(k)'
        /\ \A v \in Values : liveValues'[v] = Cardinality(ValueHolders(v)')
  BY DEF LiveCopies, KeyHolders, ValueHolders

\* A step that changes at most bucket b changes the counts of what b held
\* and of what it holds then.
LEMMA OneBucketChanges ==
    ASSUME TypeOK, NEW b, Occupied' \ {b} = Occupied \ {b},
           \A c \in Occupied \ {b} : keys'[c] = keys[c] /\ values'[c] = values[c]
    PROVE  /\ \A k \in Keys :
                 /\ Cardinality(KeyHolders(k)) \in Nat
                 /\ Cardinality(KeyHolders(k)') =
                      Cardinality(KeyHolders(k))
                        - (IF b \in Occupied /\ keys[b] = k THEN 1 ELSE 0)
                        + (IF b \in Occupied' /\ keys'[b] = k THEN 1 ELSE 0)
           /\ \A v \in Values :
                 /\ Cardinality(ValueHolders(v)) \in Nat
                 /\ Cardinality(ValueHolders(v)') =
                      Cardinality(ValueHolders(v))
                        - (IF b \in Occupied /\ values[b] = v THEN 1 ELSE 0)
                        + (IF b \in Occupied' /\ values'[b] = v THEN 1 ELSE 0)
  <1>1. ASSUME NEW k \in Keys
        PROVE  /\ Cardinality(KeyHolders(k)) \in Nat
               /\ Cardinality(KeyHolders(k)') =
                    Cardinality(KeyHolders(k))
                      - (IF b \in Occupied /\ keys[b] = k THEN 1 ELSE 0)
                      + (IF b \in Occupied' /\ keys'[b] = k THEN 1 ELSE 0)
    <2>1. KeyHolders(k) \ {b} = KeyHolders(k)' \ {b}
      BY DEF KeyHolders
    <2>2. /\ b \in KeyHolders(k) <=> b \in Occupied /\ keys[b] = k
          /\ b \in KeyHolders(k)' <=> b \in Occupied' /\ keys'[b] = k
      BY DEF KeyHolders
    <2>3. IsFiniteSet(KeyHolders(k))
      BY HoldersFinite
    <2>4. /\ Cardinality(KeyHolders(k)) \in Nat
          /\ Cardinality(KeyHolders(k)') =
               Cardinality(KeyHolders(k)) - (IF b \in KeyHolders(k) THEN 1 ELSE 0)
                 + (IF b \in KeyHolders(k)' THEN 1 ELSE 0)
      BY <2>1, <2>3, CountOneChange
    <2> QED
      BY <2>2, <2>4
  <1>2. ASSUME NEW v \in Values
        PROVE  /\ Cardinality(ValueHolders(v)) \in Nat
               /\ Cardinality(ValueHolders(v)') =
                    Cardinality(ValueHolders(v))
                      - (IF b \in Occupied /\ values[b] = v THEN 1 ELSE 0)
                      + (IF b \in Occupied' /\ values'[b] = v THEN 1 ELSE 0)
    <2>1. ValueHolders(v) \ {b} = ValueHolders(v)' \ {b}
      BY DEF ValueHolders
    <2>2. /\ b \in ValueHolders(v) <=> b \in Occupied /\ values[b] = v
          /\ b \in ValueHolders(v)' <=> b \in Occupied' /\ values'[b] = v
      BY DEF ValueHolders
    <2>3. IsFiniteSet(ValueHolders(v))
      BY HoldersFinite
    <2>4. /\ Cardinality(ValueHolders(v)) \in Nat
          /\ Cardinality(ValueHolders(v)') =
               Cardinality(ValueHolders(v))
                 - (IF b \in ValueHolders(v) THEN 1 ELSE 0)
                 + (IF b \in ValueHolders(v)' THEN 1 ELSE 0)
      BY <2>1, <2>3, CountOneChange
    <2> QED
      BY <2>2, <2>4
  <1> QED
    BY <1>1, <1>2

-----------------------------------------------------------------------------
(* LiveCopies, action by action *)

\* A step that leaves the table alone and stages nothing.
LEMMA QuietLive ==
    ASSUME LiveCopies, UNCHANGED table, UNCHANGED live,
           \A k \in Keys : Staged(k)' = Staged(k)
    PROVE  LiveCopies'
  <1>1. \A k \in Keys : KeyHolders(k)' = KeyHolders(k)
    BY DEF KeyHolders, Occupied, table
  <1>2. \A v \in Values : ValueHolders(v)' = ValueHolders(v)
    BY DEF ValueHolders, Occupied, table
  <1> QED
    BY <1>1, <1>2, LiveCopiesHolders, LiveCopiesHoldersNext DEF live

\* The phases other than "stage" have nothing staged.
LEMMA NothingStaged ==
    /\ pc # "stage" => \A k \in Keys : Staged(k) = 0
    /\ pc' # "stage" => \A k \in Keys : Staged(k)' = 0
  BY DEF Staged

\* The table that a rehash has built has as many holders of each key and of
\* each value as the one it replaces.
LEMMA RehashEndLive ==
    ASSUME IInv, LiveCopies, RehashEnd
    PROVE  LiveCopies'
  <1>1. /\ TypeOK /\ RehashFaithful /\ RehashShape /\ ChainsUnbroken
        /\ pc = "rehash" /\ next >= capacity
        /\ capacity \in Nat /\ next \in Nat
    BY DEF IInv, RehashEnd, TypeOK
  <1>2. /\ states' = newStates /\ keys' = newKeys /\ values' = newValues
        /\ capacity' = buckets /\ UNCHANGED live
        /\ pc' \in {"find", "idle"}
    BY DEF RehashEnd, Return
  <1>3. Occupied' = NewOccupied
    BY <1>2 DEF Occupied, NewOccupied
  <1>4. \A c \in Occupied : c < next
    BY <1>1 DEF Occupied, Buckets
  <1>5. \A b \in NewOccupied : \E c \in Occupied :
           keys[c] = newKeys[b] /\ values[c] = newValues[b]
    BY <1>1 DEF RehashFaithful
  <1>6. \A c \in Occupied : \E b \in NewOccupied :
           newKeys[b] = keys[c] /\ newValues[b] = values[c]
    BY <1>1, <1>4 DEF RehashFaithful
  <1>7. \A b, c \in NewOccupied : newKeys[c] = newKeys[b] => c = b
    BY <1>1 DEF RehashFaithful
  <1>8. \A b, c \in Occupied : keys[c] = keys[b] => c = b
    BY <1>1 DEF ChainsUnbroken
  <1> DEFINE Moved(c) == CHOOSE b \in NewOccupied :
                            newKeys[b] = keys[c] /\ newValues[b] = values[c]
  <1>9. \A c \in Occupied : /\ Moved(c) \in NewOccupied
                            /\ newKeys[Moved(c)] = keys[c]
                            /\ newValues[Moved(c)] = values[c]
    BY <1>6
  <1> HIDE DEF Moved
  <1>10. \A c, d \in Occupied : Moved(c) = Moved(d) => c = d
    BY <1>8, <1>9
  <1>11. \A b \in NewOccupied : \E c \in Occupied :
            keys[c] = newKeys[b] /\ values[c] = newValues[b] /\ Moved(c) = b
    BY <1>5, <1>7, <1>9
  <1>12. ASSUME NEW k \in Keys
         PROVE  Cardinality(KeyHolders(k)') = Cardinality(KeyHolders(k))
    <2> DEFINE f == [c \in KeyHolders(k) |-> Moved(c)]
    <2>1. f \in [KeyHolders(k) -> KeyHolders(k)']
      BY <1>2, <1>3, <1>9 DEF KeyHolders
    <2>2. \A x, y \in KeyHolders(k) : f[x] = f[y] => x = y
      BY <1>10 DEF KeyHolders
    <2>3. \A t \in KeyHolders(k)' : \E x \in KeyHolders(k) : f[x] = t
      BY <1>2, <1>3, <1>11 DEF KeyHolders
    <2>4. IsFiniteSet(KeyHolders(k))
      BY <1>1, HoldersFinite
    <2> HIDE DEF f
    <2> QED
      BY <2>1, <2>2, <2>3, <2>4, CountMoved
  <1>13. ASSUME NEW v \in Values
         PROVE  Cardinality(ValueHolders(v)') = Cardinality(ValueHolders(v))
    <2> DEFINE f == [c \in ValueHolders(v) |-> Moved(c)]
    <2>1. f \in [ValueHolders(v) -> ValueHolders(v)']
      BY <1>2, <1>3, <1>9 DEF ValueHolders
    <2>2. \A x, y \in ValueHolders(v) : f[x] = f[y] => x = y
      BY <1>10 DEF ValueHolders
    <2>3. \A t \in ValueHolders(v)' : \E x \in ValueHolders(v) : f[x] = t
      BY <1>2, <1>3, <1>11 DEF ValueHolders
    <2>4. IsFiniteSet(ValueHolders(v))
      BY <1>1, HoldersFinite
    <2> HIDE DEF f
    <2> QED
      BY <2>1, <2>2, <2>3, <2>4, CountMoved
  <1>14. \A k \in Keys : Staged(k)' = Staged(k)
    BY <1>1, <1>2, NothingStaged
  <1> QED
    BY <1>2, <1>12, <1>13, <1>14, LiveCopiesHolders, LiveCopiesHoldersNext DEF live

\* The value that is replaced loses its holder, the new one gains it.
LEMMA SetReplaceLive ==
    ASSUME IInv, LiveCopies, SetReplace
    PROVE  LiveCopies'
  <1> DEFINE b == Stop(call.key)
  <1>1. TypeOK /\ ChainsUnbroken /\ ControlShape
    BY DEF IInv
  <1>2. /\ pc = "find" /\ Found(call.key) /\ pc' = "idle"
        /\ values' = [values EXCEPT ![b] = call.value]
        /\ liveValues' = [[liveValues EXCEPT ![call.value] = @ + 1]
                              EXCEPT ![values[b]] = @ - 1]
        /\ UNCHANGED <<capacity, states, keys, liveKeys>>
    BY DEF SetReplace, Return
  <1>3. call.key \in Keys /\ call.value \in Values
    BY <1>1, <1>2 DEF ControlShape
  <1>4. b \in Occupied /\ values[b] \in Values
    <2>1. Stops(call.key) # {}
      BY <1>2 DEF Found
    <2> QED
      BY <1>1, <1>2, <1>3, <2>1, FindsStored DEF ChainsUnbroken
  <1>5. Occupied' = Occupied
    BY <1>2 DEF Occupied
  <1>6. values \in [Buckets(capacity) -> Values \cup {None}] /\ b \in Buckets(capacity)
    BY <1>1, <1>4 DEF TypeOK, Occupied
  <1>7. values'[b] = call.value /\ \A c \in Occupied \ {b} : values'[c] = values[c]
    BY <1>2, <1>6 DEF Occupied
  <1>8. liveValues \in [Values -> Int]
    BY <1>1 DEF TypeOK
  <1> HIDE DEF b
  <1>9. ASSUME NEW k \in Keys
        PROVE  liveKeys'[k] = Cardinality(KeyHolders(k)') + Staged(k)'
    <2>1. KeyHolders(k)' = KeyHolders(k)
      BY <1>2, <1>5 DEF KeyHolders
    <2>2. Staged(k)' = Staged(k)
      BY <1>2, NothingStaged
    <2> QED
      BY <1>2, <2>1, <2>2, LiveCopiesHolders
  <1>10. ASSUME NEW v \in Values
         PROVE  liveValues'[v] = Cardinality(ValueHolders(v)')
    <2>1. /\ Cardinality(ValueHolders(v)) \in Nat
          /\ Cardinality(ValueHolders(v)') = Cardinality(ValueHolders(v))
               - (IF values[b] = v THEN 1 ELSE 0)
               + (IF call.value = v THEN 1 ELSE 0)
      BY <1>1, <1>2, <1>4, <1>5, <1>7, OneBucketChanges
    <2>2. liveValues[v] = Cardinality(ValueHolders(v))
      BY LiveCopiesHolders
    <2> QED
      BY <1>2, <1>3, <1>4, <1>8, <2>1, <2>2
  <1> QED
    BY <1>9, <1>10, LiveCopiesHoldersNext

\* The copy of the key is staged, or the staged key is destroyed again.
LEMMA StageLive ==
    ASSUME IInv, LiveCopies, SetCopyKey \/ SetUnstage
    PROVE  LiveCopies'
  <1>1. TypeOK /\ ControlShape
    BY DEF IInv
  <1>2. UNCHANGED table /\ UNCHANGED liveValues
    BY DEF SetCopyKey, SetUnstage
  <1>3. call.key \in Keys
    BY <1>1 DEF ControlShape, SetCopyKey, SetUnstage
  <1>4. liveKeys \in [Keys -> Int]
    BY <1>1 DEF TypeOK
  <1>5. ASSUME NEW k \in Keys
        PROVE  liveKeys'[k] = Cardinality(KeyHolders(k)') + Staged(k)'
    <2>1. KeyHolders(k)' = KeyHolders(k)
      BY <1>2 DEF KeyHolders, Occupied, table
    <2>2. liveKeys[k] = Cardinality(KeyHolders(k)) + Staged(k)
      BY LiveCopiesHolders
    <2>3. Cardinality(KeyHolders(k)) \in Nat
      BY <1>1, HoldersFinite
    <2>4. CASE SetCopyKey
      <3>1. /\ pc = "find" /\ pc' = "stage" /\ call' = call
            /\ liveKeys' = [liveKeys EXCEPT ![call.key] = @ + 1]
        BY <2>4 DEF SetCopyKey
      <3>2. Staged(k) = 0 /\ Staged(k)' = IF call.key = k THEN 1 ELSE 0
        BY <3>1 DEF Staged
      <3> QED
        BY <1>3, <1>4, <2>1, <2>2, <2>3, <3>1, <3>2
    <2>5. CASE SetUnstage
      <3>1. /\ pc = "stage" /\ pc' = "idle"
            /\ liveKeys' = [liveKeys EXCEPT ![call.key] = @ - 1]
        BY <2>5 DEF SetUnstage, Return
      <3>2. Staged(k)' = 0 /\ Staged(k) = IF call.key = k THEN 1 ELSE 0
        BY <3>1 DEF Staged
      <3> QED
        BY <1>3, <1>4, <2>1, <2>2, <2>3, <3>1, <3>2
    <2> QED
      BY <2>4, <2>5
  <1>6. \A v \in Values : ValueHolders(v)' = ValueHolders(v)
    BY <1>2 DEF ValueHolders, Occupied, table
  <1> QED
    BY <1>2, <1>5, <1>6, LiveCopiesHolders, LiveCopiesHoldersNext

\* The staged copies move into a bucket that held none.
LEMMA SetInsertLive ==
    ASSUME IInv, LiveCopies, SetInsert
    PROVE  LiveCopies'
  <1> DEFINE b == FreeSlot(call.key)
  <1>1. TypeOK /\ TableShape /\ ChainsUnbroken /\ ControlShape
    BY DEF IInv
  <1>2. /\ pc = "stage" /\ pc' = "idle"
        /\ keys' = [keys EXCEPT ![b] = call.key]
        /\ values' = [values EXCEPT ![b] = call.value]
        /\ states' = [states EXCEPT ![b] = OCCUPIED]
        /\ liveValues' = [liveValues EXCEPT ![call.value] = @ + 1]
        /\ UNCHANGED <<capacity, liveKeys>>
    BY DEF SetInsert, Return
  <1>3. /\ call.key \in Keys /\ call.value \in Values /\ ~Crowded
        /\ \A c \in Occupied : keys[c] # call.key
    BY <1>1, <1>2 DEF ControlShape
  <1>4. Stops(call.key) # {}
    <2>1. capacity > 0
      BY <1>1, <1>3 DEF TypeOK, Crowded
    <2> QED
      BY <1>1, <2>1, EmptyBucketExists DEF Stops
  <1>5. b \in Buckets(capacity) /\ states[b] \in {EMPTY, DELETED}
    BY <1>1, <1>3, <1>4, FreeSlotOnChain
  <1> HIDE DEF b
  <1>6. Occupied' = Occupied \cup {b} /\ b \notin Occupied
    BY <1>1, <1>2, <1>5 DEF TypeOK, Occupied, EMPTY, OCCUPIED, DELETED
  <1>7. /\ keys'[b] = call.key /\ values'[b] = call.value
        /\ \A c \in Occupied \ {b} : keys'[c] = keys[c] /\ values'[c] = values[c]
    BY <1>1, <1>2, <1>5 DEF TypeOK, Occupied
  <1>8. Occupied' \ {b} = Occupied \ {b}
    BY <1>6
  <1>9. liveKeys \in [Keys -> Int] /\ liveValues \in [Values -> Int]
    BY <1>1 DEF TypeOK
  <1>10. ASSUME NEW k \in Keys
         PROVE  liveKeys'[k] = Cardinality(KeyHolders(k)') + Staged(k)'
    <2>1. /\ Cardinality(KeyHolders(k)) \in Nat
          /\ Cardinality(KeyHolders(k)')
               = Cardinality(KeyHolders(k)) + (IF call.key = k THEN 1 ELSE 0)
      BY <1>1, <1>6, <1>7, <1>8, OneBucketChanges
    <2>2. Staged(k) = (IF call.key = k THEN 1 ELSE 0) /\ Staged(k)' = 0
      BY <1>2 DEF Staged
    <2>3. liveKeys[k] = Cardinality(KeyHolders(k)) + Staged(k)
      BY LiveCopiesHolders
    <2> QED
      BY <1>2, <2>1, <2>2, <2>3
  <1>11. ASSUME NEW v \in Values
         PROVE  liveValues'[v] = Cardinality(ValueHolders(v)')
    <2>1. /\ Cardinality(ValueHolders(v)) \in Nat
          /\ Cardinality(ValueHolders(v)')
               = Cardinality(ValueHolders(v)) + (IF call.value = v THEN 1 ELSE 0)
      BY <1>1, <1>6, <1>7, <1>8, OneBucketChanges
    <2>2. liveValues[v] = Cardinality(ValueHolders(v))
      BY LiveCopiesHolders
    <2> QED
      BY <1>2, <1>3, <1>9, <2>1, <2>2
  <1> QED
    BY <1>10, <1>11, LiveCopiesHoldersNext

\* The copies of the deleted entry are destroyed, and no other.
LEMMA DeleteLive ==
    ASSUME IInv, LiveCopies, Delete
    PROVE  LiveCopies'
  <1> DEFINE b == Stop(call.key)
  <1>1. TypeOK /\ TableShape /\ ChainsUnbroken
    BY DEF IInv
  <1>2. /\ pc = "delete" /\ call.key # None /\ Found(call.key) /\ pc' = "idle"
        /\ liveKeys' = [liveKeys EXCEPT ![keys[b]] = @ - 1]
        /\ liveValues' = [liveValues EXCEPT ![values[b]] = @ - 1]
        /\ keys' = [keys EXCEPT ![b] = None]
        /\ values' = [values EXCEPT ![b] = None]
        /\ states' = IF size = 1 THEN [c \in Buckets(capacity) |-> EMPTY]
                                 ELSE [states EXCEPT ![b] = DELETED]
        /\ UNCHANGED capacity
    BY DEF Delete, Return
  <1>3. call.key \in Keys
    BY <1>1, <1>2 DEF TypeOK, CallRecords
  <1>4. b \in Occupied /\ keys[b] \in Keys /\ values[b] \in Values
    <2>1. Stops(call.key) # {}
      BY <1>2 DEF Found
    <2> QED
      BY <1>1, <1>2, <1>3, <2>1, FindsStored DEF ChainsUnbroken
  <1> HIDE DEF b
  <1>5. Occupied' = Occupied \ {b}
    <2>1. CASE size = 1
      <3>1. IsFiniteSet(Occupied) /\ Cardinality(Occupied) = 1
        BY <1>1, <2>1, BucketSetsFinite DEF TypeOK, TableShape, Occupied
      <3>2. Occupied = {b}
        BY <1>4, <3>1, FS_Singleton
      <3>3. Occupied' = {}
        BY <1>2, <2>1 DEF Occupied, EMPTY, OCCUPIED
      <3> QED
        BY <3>2, <3>3
    <2>2. CASE size # 1
      BY <1>1, <1>2, <1>4, <2>2 DEF TypeOK, Occupied, OCCUPIED, DELETED
    <2> QED
      BY <2>1, <2>2
  <1>6. \A c \in Occupied \ {b} : keys'[c] = keys[c] /\ values'[c] = values[c]
    BY <1>1, <1>2 DEF TypeOK, Occupied
  <1>7. Occupied' \ {b} = Occupied \ {b} /\ b \notin Occupied'
    BY <1>5
  <1>8. liveKeys \in [Keys -> Int] /\ liveValues \in [Values -> Int]
    BY <1>1 DEF TypeOK
  <1>9. ASSUME NEW k \in Keys
        PROVE  liveKeys'[k] = Cardinality(KeyHolders(k)') + Staged(k)'
    <2>1. /\ Cardinality(KeyHolders(k)) \in Nat
          /\ Cardinality(KeyHolders(k)')
               = Cardinality(KeyHolders(k)) - (IF keys[b] = k THEN 1 ELSE 0)
      BY <1>1, <1>4, <1>6, <1>7, OneBucketChanges
    <2>2. Staged(k) = 0 /\ Staged(k)' = 0
      BY <1>2 DEF Staged
    <2>3. liveKeys[k] = Cardinality(KeyHolders(k)) + Staged(k)
      BY LiveCopiesHolders
    <2> QED
      BY <1>2, <1>4, <1>8, <2>1, <2>2, <2>3
  <1>10. ASSUME NEW v \in Values
         PROVE  liveValues'[v] = Cardinality(ValueHolders(v)')
    <2>1. /\ Cardinality(ValueHolders(v)) \in Nat
          /\ Cardinality(ValueHolders(v)')
               = Cardinality(ValueHolders(v)) - (IF values[b] = v THEN 1 ELSE 0)
      BY <1>1, <1>4, <1>6, <1>7, OneBucketChanges
    <2>2. liveValues[v] = Cardinality(ValueHolders(v))
      BY LiveCopiesHolders
    <2> QED
      BY <1>2, <1>4, <1>8, <2>1, <2>2
  <1> QED
    BY <1>9, <1>10, LiveCopiesHoldersNext

\* hashmap_clear and hashmap_destroy destroy every copy the entries hold.
LEMMA EmptiedLive ==
    ASSUME IInv, LiveCopies, Clear \/ Destroy
    PROVE  LiveCopies'
  <1>1. TypeOK
    BY DEF IInv
  <1>2. DestroyEntries /\ pc # "stage" /\ pc' = "idle"
    BY DEF Clear, Destroy, Return
  <1>3. Occupied' = {}
    <2>1. CASE Clear
      BY <2>1 DEF Clear, Occupied, EMPTY, OCCUPIED
    <2>2. CASE Destroy
      BY <2>2 DEF Destroy, Occupied, Buckets
    <2> QED
      BY <2>1, <2>2
  <1>4. ASSUME NEW k \in Keys
        PROVE  liveKeys'[k] = Cardinality(KeyHolders(k)') + Staged(k)'
    <2>1. KeyHolders(k)' = {}
      BY <1>3 DEF KeyHolders
    <2>2. liveKeys'[k] = liveKeys[k] - Cardinality(KeyHolders(k))
      BY <1>2 DEF DestroyEntries, KeyHolders
    <2>3. liveKeys[k] = Cardinality(KeyHolders(k)) + Staged(k)
      BY LiveCopiesHolders
    <2>4. Staged(k) = 0 /\ Staged(k)' = 0
      BY <1>2 DEF Staged
    <2>5. Cardinality(KeyHolders(k)) \in Nat
      BY <1>1, HoldersFinite
    <2> QED
      BY <2>1, <2>2, <2>3, <2>4, <2>5, FS_EmptySet
  <1>5. ASSUME NEW v \in Values
        PROVE  liveValues'[v] = Cardinality(ValueHolders(v)')
    <2>1. ValueHolders(v)' = {}
      BY <1>3 DEF ValueHolders
    <2>2. liveValues'[v] = liveValues[v] - Cardinality(ValueHolders(v))
      BY <1>2 DEF DestroyEntries, ValueHolders
    <2>3. liveValues[v] = Cardinality(ValueHolders(v))
      BY LiveCopiesHolders
    <2>4. Cardinality(ValueHolders(v)) \in Nat
      BY <1>1, HoldersFinite
    <2> QED
      BY <2>1, <2>2, <2>3, <2>4, FS_EmptySet
  <1> QED
    BY <1>4, <1>5, LiveCopiesHoldersNext

\* Calls, the rehash on its way, the sizing loop, and all that fails.
LEMMA OtherLive ==
    ASSUME LiveCopies,
           \/ Calls \/ RehashStep \/ SetInvalid \/ SetPrepare \/ SetCopyFails
           \/ DeleteMissing \/ ReserveStart \/ ReserveDouble \/ ReserveRehash
    PROVE  LiveCopies'
  <1> USE DEF Fail, Return, RehashStart
  <1>1. UNCHANGED table /\ UNCHANGED live
    BY DEF Calls, Call, RehashStep, SetInvalid, SetPrepare, SetCopyFails,
           DeleteMissing, ReserveStart, ReserveDouble, ReserveRehash
  <1>2. pc # "stage" /\ pc' # "stage"
    <2>1. CASE Calls
      BY <2>1 DEF Calls, Call
    <2>2. CASE RehashStep \/ ReserveDouble
      BY <2>2 DEF RehashStep, ReserveDouble, control
    <2>3. CASE \/ SetInvalid \/ SetPrepare \/ SetCopyFails \/ DeleteMissing
               \/ ReserveStart \/ ReserveRehash
      BY <2>3 DEF SetInvalid, SetPrepare, SetCopyFails, DeleteMissing,
                  ReserveStart, ReserveRehash
    <2> QED
      BY <2>1, <2>2, <2>3
  <1>3. \A k \in Keys : Staged(k)' = Staged(k)
    BY <1>2, NothingStaged
  <1> QED
    BY <1>1, <1>3, QuietLive

-----------------------------------------------------------------------------
(* The inductive invariant *)

\* Only the sizing loop starts a rehash for hashmap_reserve, and it ends
\* with enough buckets.
LEMMA ReserveSizedStep ==
    ASSUME IInv, ReserveSized, [Next]_vars
    PROVE  ReserveSized'
  <1> SUFFICES ASSUME pc' = "rehash", call'.op = "reserve"
               PROVE  request' * 4 <= buckets' * 3
    BY DEF ReserveSized
  <1>1. TypeOK /\ ControlShape
    BY DEF IInv
  <1>2. CASE RehashStep
    BY <1>2 DEF ReserveSized, RehashStep, control
  <1>3. CASE ReserveRehash
    <2>1. /\ Sufficient(buckets) /\ UNCHANGED <<call, request>>
          /\ buckets' = IF buckets < capacity THEN capacity ELSE buckets
      BY <1>3 DEF ReserveRehash, RehashStart, Fail, Return
    <2>2. buckets \in Nat /\ capacity \in Nat /\ request \in Nat
      BY <1>1 DEF TypeOK
    <2> QED
      BY <2>1, <2>2 DEF Sufficient
  <1>4. CASE SetPrepare
    <2>1. call.op = "set" /\ UNCHANGED call
      BY <1>1, <1>4 DEF SetPrepare, ControlShape, RehashStart, Fail, Return
    <2> QED
      BY <2>1
  <1>5. CASE UNCHANGED vars
    <2>1. UNCHANGED <<newTable, control>>
      BY <1>5 DEF vars
    <2> QED
      BY <2>1 DEF ReserveSized, newTable, control
  <1>6. CASE Calls
    BY <1>6 DEF Calls, Call
  <1>7. CASE \/ RehashEnd \/ SetInvalid \/ SetReplace \/ SetCopyKey
             \/ SetCopyFails \/ SetUnstage \/ SetInsert \/ DeleteMissing
             \/ Delete \/ Clear \/ Destroy \/ ReserveStart \/ ReserveDouble
    BY <1>7 DEF RehashEnd, SetInvalid, SetReplace, SetCopyKey, SetCopyFails,
                SetUnstage, SetInsert, DeleteMissing, Delete, Clear, Destroy,
                ReserveStart, ReserveDouble, Fail, Return, control
  <1> QED
    BY <1>2, <1>3, <1>4, <1>5, <1>6, <1>7 DEF Next, Body

LEMMA CopiesInit ==
    ASSUME Init
    PROVE  CopiesInv
  <1>1. IInv
    BY InitInv
  <1>2. ReserveSized
    BY DEF Init, ReserveSized
  <1>3. LiveCopies
    <2>1. Occupied = {}
      BY DEF Init, Occupied, Buckets
    <2>2. /\ \A k \in Keys : KeyHolders(k) = {} /\ Staged(k) = 0
          /\ \A v \in Values : ValueHolders(v) = {}
      BY <2>1 DEF Init, KeyHolders, ValueHolders, Staged
    <2>3. /\ \A k \in Keys : liveKeys[k] = 0
          /\ \A v \in Values : liveValues[v] = 0
      BY DEF Init
    <2> QED
      BY <2>2, <2>3, FS_EmptySet, LiveCopiesHolders
  <1> QED
    BY <1>1, <1>2, <1>3 DEF CopiesInv

LEMMA CopiesStep ==
    ASSUME CopiesInv, [Next]_vars
    PROVE  CopiesInv'
  <1>1. IInv /\ ReserveSized /\ LiveCopies
    BY DEF CopiesInv
  <1>2. IInv'
    BY <1>1, NextInv
  <1>3. ReserveSized'
    BY <1>1, ReserveSizedStep
  <1>4. LiveCopies'
    <2>1. CASE RehashEnd
      BY <1>1, <2>1, RehashEndLive
    <2>2. CASE SetReplace
      BY <1>1, <2>2, SetReplaceLive
    <2>3. CASE SetCopyKey \/ SetUnstage
      BY <1>1, <2>3, StageLive
    <2>4. CASE SetInsert
      BY <1>1, <2>4, SetInsertLive
    <2>5. CASE Delete
      BY <1>1, <2>5, DeleteLive
    <2>6. CASE Clear \/ Destroy
      BY <1>1, <2>6, EmptiedLive
    <2>7. CASE \/ Calls \/ RehashStep \/ SetInvalid \/ SetPrepare \/ SetCopyFails
               \/ DeleteMissing \/ ReserveStart \/ ReserveDouble \/ ReserveRehash
      BY <1>1, <2>7, OtherLive
    <2>8. CASE UNCHANGED vars
      <3>1. UNCHANGED table /\ UNCHANGED live /\ UNCHANGED control
        BY <2>8 DEF vars
      <3>2. \A k \in Keys : Staged(k)' = Staged(k)
        BY <3>1 DEF Staged, control
      <3> QED
        BY <1>1, <3>1, <3>2, QuietLive
    <2> QED
      BY <2>1, <2>2, <2>3, <2>4, <2>5, <2>6, <2>7, <2>8 DEF Next, Body
  <1> QED
    BY <1>2, <1>3, <1>4 DEF CopiesInv

\* The invariant behind the two theorems below, for every instance.
THEOREM CopiesInvHolds == Spec => []CopiesInv
  <1>1. Init => CopiesInv
    BY CopiesInit
  <1>2. CopiesInv /\ [Next]_vars => CopiesInv'
    BY CopiesStep
  <1> QED
    BY <1>1, <1>2, PTL DEF Spec

\* No call of src/hashmap.c leaks a key or a value or destroys one twice,
\* whatever fails on its way.
THEOREM LiveCopiesHold == Spec => []LiveCopies
  <1>1. CopiesInv => LiveCopies
    BY DEF CopiesInv
  <1> QED
    BY <1>1, CopiesInvHolds, PTL

\* A step with which hashmap_reserve answers 0 leaves a table large enough for
\* the request and, when anything was asked for, without a tombstone.
LEMMA ReserveAnswers ==
    ASSUME CopiesInv, [Next]_vars, call.op = "reserve", pc # "idle",
           call'.ret = "ok"
    PROVE  request = 0 \/ (request * 4 <= capacity' * 3 /\ tombstones' = 0)
  <1>1. TypeOK /\ ControlShape /\ ReserveSized
    BY DEF CopiesInv, IInv
  <1>2. call.ret = "pending" /\ pc \in {"reserve", "sizing", "rehash"}
    BY <1>1 DEF ControlShape, TypeOK, Phases
  <1>3. capacity \in Nat /\ buckets \in Nat /\ request \in Nat
    BY <1>1 DEF TypeOK
  <1>4. CASE RehashEnd
    <2>1. pc = "rehash" /\ capacity' = buckets /\ tombstones' = 0
      BY <1>4 DEF RehashEnd
    <2> QED
      BY <1>1, <2>1 DEF ReserveSized
  <1>5. CASE ReserveStart
    BY <1>2, <1>5 DEF ReserveStart
  <1>6. CASE ReserveRehash
    <2>1. \/ /\ Sufficient(buckets) /\ capacity' = capacity /\ tombstones' = tombstones
             /\ buckets <= capacity /\ tombstones = 0
          \/ RehashStart(IF buckets < capacity THEN capacity ELSE buckets)
          \/ Fail
      BY <1>6 DEF ReserveRehash, table
    <2>2. ~ RehashStart(IF buckets < capacity THEN capacity ELSE buckets)
      BY <1>2 DEF RehashStart
    <2>3. ~ Fail
      BY <1>1 DEF TypeOK, CallRecords, Fail, Return
    <2> QED
      BY <1>3, <2>1, <2>2, <2>3 DEF Sufficient
  <1>7. CASE Calls
    BY <1>7 DEF Calls, Call
  <1>8. CASE UNCHANGED vars
    BY <1>2, <1>8 DEF vars, control
  <1>9. CASE RehashStep \/ ReserveDouble
    BY <1>2, <1>9 DEF RehashStep, ReserveDouble, control
  <1>10. CASE \/ SetInvalid \/ SetPrepare \/ SetReplace \/ SetCopyKey
              \/ SetCopyFails \/ SetUnstage \/ SetInsert \/ DeleteMissing
              \/ Delete \/ Clear \/ Destroy
    BY <1>2, <1>10 DEF SetInvalid, SetPrepare, SetReplace, SetCopyKey,
            SetCopyFails, SetUnstage, SetInsert, DeleteMissing, Delete, Clear,
            Destroy
  <1> QED
    BY <1>4, <1>5, <1>6, <1>7, <1>8, <1>9, <1>10 DEF Next, Body

\* Such a table has room for every new entry up to the last one asked for.
LEMMA RoomAsked ==
    ASSUME NEW req \in Nat, NEW room \in Nat, NEW stored \in Nat, NEW dead,
           req = 0 \/ (req * 4 <= room * 3 /\ dead = 0),
           NEW entries \in stored + 1 .. req
    PROVE  (entries + dead) * 4 <= room * 3
  <1>1. entries \in Nat /\ 1 <= entries /\ entries <= req
    OBVIOUS
  <1>2. dead = 0 /\ req * 4 <= room * 3
    BY <1>1
  <1> QED
    BY <1>1, <1>2

\* After hashmap_reserve(n) has answered 0 no hashmap_set of a new key up to the
\* n-th rehashes the table, whatever deletions came before (src/hashmap.h:82).
THEOREM ReserveMakesRoomHolds == Spec => ReserveMakesRoom
  <1>1. CopiesInv /\ [Next]_vars
          => [call.op = "reserve" /\ pc # "idle" /\ call'.ret = "ok"
                => \A entries \in size' + 1 .. request :
                      (entries + tombstones') * 4 <= capacity' * 3]_vars
    <2> SUFFICES ASSUME CopiesInv, [Next]_vars, call.op = "reserve", pc # "idle",
                        call'.ret = "ok", NEW entries \in size' + 1 .. request
                 PROVE  (entries + tombstones') * 4 <= capacity' * 3
      OBVIOUS
    <2>1. request = 0 \/ (request * 4 <= capacity' * 3 /\ tombstones' = 0)
      BY ReserveAnswers
    <2>2. CopiesInv'
      BY CopiesStep
    <2>3. size' \in Nat /\ capacity' \in Nat /\ request \in Nat
      BY <2>2 DEF CopiesInv, IInv, TypeOK
    <2> QED
      BY <2>1, <2>3, RoomAsked
  <1> QED
    BY <1>1, CopiesInvHolds, PTL DEF Spec, ReserveMakesRoom

-----------------------------------------------------------------------------
(* hashmap_copy: the inductive invariant *)

\* The map holds the first n entries of the source and nothing else.
Holds(n) ==
    /\ size = n /\ tombstones = 0
    /\ \A m \in 1 .. n : Contents[source[m][1]] = source[m][2]
    /\ \A k \in Keys : Contents[k] # None => \E m \in 1 .. n : source[m][1] = k

Emptied == size = 0 /\ Occupied = {} /\ Tombstones = {}
Roomy == Len(source) * 4 <= capacity * 3

\* What hashmap_copy knows when it makes each of its calls, and what the
\* running one keeps.
CopyShape ==
    /\ copying \in {"none", "destroy", "reserve", "set", "clear"}
    /\ copying # "none" => source \in Sources /\ answer = "none"
    /\ answer # "none" => pc = "idle"
    /\ answer = "ok" => source \in Sources /\ Holds(Len(source))
    /\ answer = "error" => Emptied
    /\ copying \in {"destroy", "clear"} =>
          call.op = copying /\ (pc = "idle" => Emptied)
    /\ copying \in {"destroy", "reserve"} => at = 0
    /\ copying = "reserve" =>
          /\ call.op = "reserve" /\ Holds(0)
          /\ pc # "idle" => request = Len(source)
          /\ call.ret = "ok" => Roomy
    /\ copying = "set" =>
          /\ call.op = "set" /\ at \in 1 .. Len(source) /\ pc # "rehash"
          /\ call.key = source[at][1] /\ call.value = source[at][2]
          /\ Roomy
          /\ Holds(IF call.ret = "ok" THEN at ELSE at - 1)

CopyInv == CopiesInv /\ CopyShape

\* What is known of the entries of a source.
LEMMA SourceEntries ==
    ASSUME NEW s \in Sources
    PROVE  /\ Len(s) \in Nat
           /\ \A n \in 1 .. Len(s) : s[n][1] \in Keys /\ s[n][2] \in Values
           /\ \A m, n \in 1 .. Len(s) : s[m][1] = s[n][1] => m = n
  <1>1. s \in Seq(Keys \X Values)
    BY SourcesAssumption
  <1>2. Len(s) \in Nat /\ DOMAIN s = 1 .. Len(s)
    BY <1>1, LenProperties
  <1>3. \A n \in 1 .. Len(s) : s[n] \in Keys \X Values
    BY <1>1, <1>2, ElementOfSeq
  <1>4. \A m, n \in DOMAIN s : s[m][1] = s[n][1] => m = n
    BY SourcesAssumption
  <1> QED
    BY <1>2, <1>3, <1>4

\* A call, which may ask for any room, keeps the invariant of HashMap.
LEMMA CallCopies ==
    ASSUME CopiesInv,
           NEW op \in {"set", "delete", "reserve", "clear", "destroy"},
           NEW k \in Keys \cup {None}, NEW v \in Values \cup {None},
           NEW n \in Nat, Call(op, k, v, n)
    PROVE  /\ CopiesInv' /\ Contents' = Contents
           /\ pc = "idle" /\ pc' = op /\ request' = n
           /\ call' = [op |-> op, key |-> k, value |-> v, ret |-> "pending"]
           /\ UNCHANGED table
  <1>1. IInv /\ LiveCopies
    BY DEF CopiesInv
  <1>2. IInv'
    BY <1>1, CallInv
  <1>3. ReserveSized'
    BY DEF ReserveSized, Call
  <1>4. LiveCopies'
    <2>1. pc # "stage" /\ pc' # "stage" /\ UNCHANGED table /\ UNCHANGED live
      BY DEF Call
    <2>2. \A i \in Keys : Staged(i)' = Staged(i)
      BY <2>1, NothingStaged
    <2> QED
      BY <1>1, <2>1, <2>2, QuietLive
  <1>5. Contents' = Contents
    BY ContentsKept DEF Call, table
  <1> QED
    BY <1>2, <1>3, <1>4, <1>5 DEF CopiesInv, Call

\* Where the running call of a copy may be.
LEMMA Running ==
    ASSUME IInv, pc # "idle"
    PROVE  /\ call.ret = "pending"
           /\ call.op = "destroy" => pc = "destroy"
           /\ call.op = "clear" => pc = "clear"
           /\ call.op = "reserve" => pc \in {"reserve", "sizing", "rehash"}
           /\ call.op = "set" => pc \in {"set", "find", "stage", "rehash"}
  BY DEF IInv, ControlShape, TypeOK, Phases

\* A step of the running call answers, or leaves it pending.
LEMMA EmptiedStep ==
    ASSUME CopiesInv, Clear \/ Destroy
    PROVE  Emptied' /\ pc' = "idle"
  <1>1. CASE Clear
    BY <1>1 DEF Clear, Emptied, Occupied, Tombstones, EMPTY, OCCUPIED, DELETED, Return
  <1>2. CASE Destroy
    BY <1>2 DEF Destroy, Emptied, Occupied, Tombstones, Buckets, Return
  <1> QED
    BY <1>1, <1>2

LEMMA NothingHeld == CopiesInv /\ Emptied => Holds(0)
  <1> SUFFICES ASSUME CopiesInv, Emptied PROVE Holds(0)
    OBVIOUS
  <1>1. \A k \in Keys : At(k) = None
    BY AtIsStored DEF CopiesInv, Emptied
  <1>2. tombstones = 0
    BY FS_EmptySet DEF CopiesInv, IInv, TableShape, Emptied
  <1>3. \A k \in Keys : Contents[k] = None
    BY <1>1 DEF Contents
  <1>4. \A m \in 1 .. 0 : Contents[source[m][1]] = source[m][2]
    OBVIOUS
  <1> QED
    BY <1>2, <1>3, <1>4 DEF Holds, Emptied

LEMMA NothingHeldNext ==
    ASSUME CopiesInv', Emptied'
    PROVE  Holds(0)'
  <1>1. (CopiesInv /\ Emptied => Holds(0))'
    BY NothingHeld, PTL
  <1> QED
    BY <1>1

\* What the map holds stays while the counters and the contents do.
LEMMA HoldsKept ==
    ASSUME NEW n, Holds(n), Contents' = Contents, size' = size,
           tombstones' = 0, source' = source
    PROVE  /\ size' = n
           /\ \A m \in 1 .. n : Contents'[source'[m][1]] = source'[m][2]
           /\ \A k \in Keys : Contents'[k] # None => \E m \in 1 .. n : source'[m][1] = k
  BY DEF Holds

-----------------------------------------------------------------------------
(* hashmap_copy: the steps *)

\* The running call of another function, or of hashmap_destroy and
\* hashmap_clear as hashmap_copy calls them.
LEMMA OtherCalls ==
    ASSUME CopyInv, Other, copying = "none"
    PROVE  CopyShape'
  <1>1. copying' = "none" /\ answer' = "none"
    BY DEF Other, copy
  <1> QED
    BY <1>1 DEF CopyShape

LEMMA EmptyingCalls ==
    ASSUME CopyInv, Body, UNCHANGED copy, copying \in {"destroy", "clear"}
    PROVE  CopyShape'
  <1>1. CopiesInv /\ IInv /\ pc # "idle" /\ call.op = copying
    BY DEF CopyInv, CopyShape, CopiesInv, Body, RehashStep, RehashEnd, SetInvalid,
           SetPrepare, SetReplace, SetCopyKey, SetCopyFails, SetUnstage, SetInsert,
           DeleteMissing, Delete, Clear, Destroy, ReserveStart, ReserveDouble,
           ReserveRehash
  <1>2. pc = copying
    BY <1>1, Running DEF CopyInv, CopyShape
  <1>3. Clear \/ Destroy
    BY <1>2 DEF Body, RehashStep, RehashEnd, SetInvalid,
           SetPrepare, SetReplace, SetCopyKey, SetCopyFails, SetUnstage, SetInsert,
           DeleteMissing, Delete, Clear, Destroy, ReserveStart, ReserveDouble,
           ReserveRehash
  <1>4. Emptied' /\ pc' = "idle"
    BY <1>1, <1>3, EmptiedStep
  <1>5. call'.op = call.op
    BY <1>1, <1>3 DEF Clear, Destroy, Return, CopiesInv, IInv, TypeOK, CallRecords
  <1>6. /\ copying' = copying /\ source' = source /\ at' = at /\ answer' = answer
        /\ answer = "none" /\ source \in Sources
        /\ copying = "destroy" => at = 0
    BY DEF copy, CopyInv, CopyShape
  <1> QED
    BY <1>1, <1>4, <1>5, <1>6 DEF CopyShape

LEMMA ReservingCalls ==
    ASSUME CopyInv, CopiesInv', Body, UNCHANGED copy, copying = "reserve"
    PROVE  CopyShape'
  <1>1. CopiesInv /\ IInv /\ IInv' /\ pc # "idle" /\ call.op = "reserve"
    BY DEF CopyInv, CopyShape, CopiesInv, Body, RehashStep, RehashEnd, SetInvalid,
           SetPrepare, SetReplace, SetCopyKey, SetCopyFails, SetUnstage, SetInsert,
           DeleteMissing, Delete, Clear, Destroy, ReserveStart, ReserveDouble,
           ReserveRehash
  <1>2. /\ copying' = copying /\ source' = source /\ at' = at /\ answer' = answer
        /\ answer = "none" /\ source \in Sources /\ at = 0
        /\ Holds(0) /\ request = Len(source)
    BY <1>1 DEF copy, CopyInv, CopyShape
  <1>3. pc \in {"reserve", "sizing", "rehash"} /\ call.ret = "pending"
    BY <1>1, Running
  <1>4. \/ RehashStep \/ RehashEnd \/ ReserveStart \/ ReserveDouble \/ ReserveRehash
    BY <1>3 DEF Body, SetInvalid,
           SetPrepare, SetReplace, SetCopyKey, SetCopyFails, SetUnstage, SetInsert,
           DeleteMissing, Delete, Clear, Destroy
  <1>5. tombstones = 0
    BY <1>2 DEF Holds
  <1>6. Contents' = Contents /\ size' = size /\ tombstones' = 0
    <2>1. CASE RehashEnd
      BY <1>1, <2>1, RehashEndContents DEF RehashEnd
    <2>2. CASE RehashStep \/ ReserveStart \/ ReserveDouble \/ ReserveRehash
      <3>1. UNCHANGED table
        BY <2>2 DEF RehashStep, ReserveStart, ReserveDouble, ReserveRehash,
                    RehashStart, Fail
      <3> QED
        BY <1>5, <3>1, ContentsKept DEF table
    <2> QED
      BY <1>4, <2>1, <2>2
  <1>7. call'.op = "reserve" /\ (pc' # "idle" => request' = request)
    <2>1. CASE RehashEnd
      BY <1>1, <2>1 DEF RehashEnd, Return, IInv, TypeOK, CallRecords
    <2>2. CASE RehashStep \/ ReserveDouble
      BY <1>1, <2>2 DEF RehashStep, ReserveDouble, control
    <2>3. CASE ReserveStart
      BY <1>1, <2>3 DEF ReserveStart, Return, IInv, TypeOK, CallRecords
    <2>4. CASE ReserveRehash
      BY <1>1, <2>4 DEF ReserveRehash, RehashStart, Fail, Return, IInv, TypeOK,
                        CallRecords
    <2> QED
      BY <1>4, <2>1, <2>2, <2>3, <2>4
  <1>8. call'.ret = "ok" => Len(source) * 4 <= capacity' * 3
    <2>1. [Next]_vars
      BY DEF Next
    <2>2. request = Len(source)
      BY <1>2
    <2>3. capacity' \in Nat
      BY DEF CopiesInv, IInv, TypeOK
    <2>4. call'.ret = "ok" => request = 0 \/ request * 4 <= capacity' * 3
      BY <1>1, <2>1, ReserveAnswers
    <2> QED
      BY <2>2, <2>3, <2>4
  <1>9. Holds(0)'
    <2>1. /\ size' = 0
          /\ \A m \in 1 .. 0 : Contents'[source'[m][1]] = source'[m][2]
          /\ \A k \in Keys : Contents'[k] # None => \E m \in 1 .. 0 : source'[m][1] = k
      BY <1>2, <1>6, HoldsKept
    <2> QED
      BY <1>6, <2>1 DEF Holds
  <1> QED
    BY <1>2, <1>7, <1>8, <1>9 DEF CopyShape, Roomy

\* A table with the room for all of the source is never crowded before the
\* last entry is in it, and no key of the source comes twice.
LEMMA SettingCalls ==
    ASSUME CopyInv, CopiesInv', Body, UNCHANGED copy, copying = "set"
    PROVE  CopyShape'
  <1>1. CopiesInv /\ IInv /\ IInv' /\ pc # "idle" /\ call.op = "set"
    BY DEF CopyInv, CopyShape, CopiesInv, Body, RehashStep, RehashEnd, SetInvalid,
           SetPrepare, SetReplace, SetCopyKey, SetCopyFails, SetUnstage, SetInsert,
           DeleteMissing, Delete, Clear, Destroy, ReserveStart, ReserveDouble,
           ReserveRehash
  <1>2. /\ copying' = copying /\ source' = source /\ at' = at /\ answer' = answer
        /\ answer = "none" /\ source \in Sources /\ at \in 1 .. Len(source)
        /\ pc # "rehash"
        /\ call.key = source[at][1] /\ call.value = source[at][2]
        /\ Roomy
    BY <1>1 DEF copy, CopyInv, CopyShape
  <1>3. pc \in {"set", "find", "stage"} /\ call.ret = "pending"
    BY <1>1, <1>2, Running
  <1>4. Holds(at - 1)
    BY <1>3 DEF CopyInv, CopyShape, copy
  <1>5. Len(source) \in Nat /\ at \in Nat /\ at - 1 \in Nat /\ at <= Len(source)
    BY <1>2, SourceEntries
  <1>6. call.key \in Keys /\ call.value \in Values
    BY <1>2, SourceEntries
  <1>7. ~Crowded
    <2>1. size = at - 1 /\ tombstones = 0
      BY <1>4 DEF Holds
    <2>2. capacity \in Nat
      BY <1>1 DEF IInv, TypeOK
    <2> QED
      BY <1>2, <1>5, <2>1, <2>2 DEF Crowded, Roomy
  <1>8. Contents[call.key] = None
    <2>1. SUFFICES ASSUME Contents[call.key] # None PROVE FALSE
      OBVIOUS
    <2>2. PICK m \in 1 .. at - 1 : source[m][1] = call.key
      BY <1>4, <1>6, <2>1 DEF Holds
    <2>3. m \in 1 .. Len(source) /\ m # at
      BY <1>5, <2>2
    <2> QED
      BY <1>2, <2>2, <2>3, SourceEntries
  <1>9. CASE SetInsert
    <2>1. /\ Return("ok") /\ size' = size + 1 /\ capacity' = capacity
          /\ tombstones' = tombstones
                - (IF states[FreeSlot(call.key)] = DELETED THEN 1 ELSE 0)
      BY <1>9 DEF SetInsert
    <2>2. Contents' = [Contents EXCEPT ![call.key] = call.value]
      BY <1>1, <1>9, StoreContents
    <2>3. size = at - 1 /\ tombstones = 0
      BY <1>4 DEF Holds
    <2>4. size' = at
      BY <1>5, <2>1, <2>3
    <2>5. tombstones' = 0
      <3>1. tombstones' \in Nat
        BY <1>1 DEF IInv, TypeOK
      <3>2. tombstones' = 0 \/ tombstones' = 0 - 1
        <4> DEFINE d == IF states[FreeSlot(call.key)] = DELETED THEN 1 ELSE 0
        <4>1. tombstones' = 0 - d
          BY <2>1, <2>3
        <4>2. d = 0 \/ d = 1
          OBVIOUS
        <4> HIDE DEF d
        <4>3. 0 - 0 = 0
          OBVIOUS
        <4> QED
          BY <4>1, <4>2, <4>3
      <3> QED
        BY <3>1, <3>2
    <2>6. ASSUME NEW m \in 1 .. at
          PROVE  Contents'[source'[m][1]] = source'[m][2]
      <3>1. m \in 1 .. Len(source)
        BY <1>5
      <3>2. source[m][1] \in Keys
        BY <1>2, <3>1, SourceEntries
      <3>3. CASE m = at
        BY <1>2, <2>2, <3>2, <3>3 DEF Contents
      <3>4. CASE m # at
        <4>1. m \in 1 .. at - 1
          BY <1>5, <3>4
        <4>2. source[m][1] # call.key
          BY <1>2, <3>1, <3>4, SourceEntries
        <4>3. Contents[source[m][1]] = source[m][2]
          BY <1>4, <4>1 DEF Holds
        <4> QED
          BY <1>2, <2>2, <3>2, <4>2, <4>3 DEF Contents
      <3> QED
        BY <3>3, <3>4
    <2>7. ASSUME NEW k \in Keys, Contents'[k] # None
          PROVE  \E m \in 1 .. at : source'[m][1] = k
      <3>1. CASE k = call.key
        <4>1. at \in 1 .. at
          BY <1>5, <1>2
        <4> QED
          BY <1>2, <3>1, <4>1
      <3>2. CASE k # call.key
        <4>1. Contents[k] # None
          BY <2>2, <2>7, <3>2 DEF Contents
        <4>2. PICK m \in 1 .. at - 1 : source[m][1] = k
          BY <1>4, <4>1 DEF Holds
        <4>3. m \in 1 .. at
          BY <1>5
        <4> QED
          BY <1>2, <4>2, <4>3
      <3> QED
        BY <3>1, <3>2
    <2>8. Holds(at)'
      BY <1>2, <2>4, <2>5, <2>6, <2>7 DEF Holds
    <2>9. /\ call' = [call EXCEPT !.ret = "ok"] /\ pc' = "idle"
      BY <2>1 DEF Return
    <2>10. call'.op = "set" /\ call'.ret = "ok" /\ call'.key = call.key
           /\ call'.value = call.value
      BY <1>1, <2>9 DEF IInv, TypeOK, CallRecords
    <2>11. Roomy'
      BY <1>2, <2>1 DEF Roomy
    <2> QED
      BY <1>2, <2>8, <2>9, <2>10, <2>11 DEF CopyShape
  <1>10. ~SetReplace /\ ~SetInvalid
    <2>1. ~Found(call.key)
      <3>1. SUFFICES ASSUME Found(call.key) PROVE FALSE
        OBVIOUS
      <3>2. /\ Stop(call.key) \in Occupied
            /\ At(call.key) = values[Stop(call.key)]
        BY <1>1, <1>6, <3>1, FindsStored DEF Found, At, IInv
      <3>3. At(call.key) \in Values
        BY <1>1, <3>2 DEF IInv, ChainsUnbroken
      <3> QED
        BY <1>6, <1>8, <3>3, NoneAssumption DEF Contents
    <2> QED
      BY <1>6, <2>1, NoneAssumption DEF SetReplace, SetInvalid
  <1>11. CASE SetPrepare \/ SetCopyKey \/ SetCopyFails \/ SetUnstage
    <2>1. /\ UNCHANGED table /\ pc' # "rehash"
          /\ UNCHANGED call \/ Return("error")
      <3>1. CASE SetPrepare
        BY <1>7, <3>1 DEF SetPrepare
      <3>2. CASE SetCopyKey \/ SetCopyFails \/ SetUnstage
        BY <3>2 DEF SetCopyKey, SetCopyFails, SetUnstage, Fail, Return
      <3> QED
        BY <1>11, <3>1, <3>2
    <2>2. Contents' = Contents /\ size' = size /\ tombstones' = 0 /\ capacity' = capacity
      BY <1>4, <2>1, ContentsKept DEF table, Holds
    <2>3. Holds(at - 1)'
      <3> DEFINE n == at - 1
      <3>1. /\ size' = n
            /\ \A m \in 1 .. n : Contents'[source'[m][1]] = source'[m][2]
            /\ \A k \in Keys : Contents'[k] # None => \E m \in 1 .. n : source'[m][1] = k
        BY <1>2, <1>4, <2>2, HoldsKept
      <3> QED
        BY <1>2, <2>2, <3>1 DEF Holds
    <2>4. /\ call'.op = "set" /\ call'.key = call.key /\ call'.value = call.value
          /\ call'.ret # "ok"
      BY <1>1, <1>3, <2>1 DEF Return, IInv, TypeOK, CallRecords
    <2>5. Roomy'
      BY <1>2, <2>2 DEF Roomy
    <2> QED
      BY <1>2, <2>1, <2>3, <2>4, <2>5 DEF CopyShape
  <1> QED
    BY <1>3, <1>9, <1>10, <1>11 DEF Body, RehashStep, RehashEnd, DeleteMissing,
       Delete, Clear, Destroy, ReserveStart, ReserveDouble, ReserveRehash

\* The calls that hashmap_copy makes, and its answers.
LEMMA CopyCalls ==
    ASSUME CopyInv,
           \/ \E s \in Sources : CopyBegin(s)
           \/ CopyReserve \/ CopySet \/ CopyUndo
    PROVE  CopyInv'
  <1>1. CopiesInv /\ CopyShape
    BY DEF CopyInv
  <1>2. ASSUME NEW s \in Sources, CopyBegin(s)
        PROVE  CopyInv'
    <2>1. /\ Call("destroy", None, None, 0) /\ copying' = "destroy"
          /\ source' = s /\ at' = 0 /\ answer' = "none"
      BY <1>2 DEF CopyBegin
    <2>2. /\ CopiesInv' /\ pc' = "destroy"
          /\ call' = [op |-> "destroy", key |-> None, value |-> None, ret |-> "pending"]
      BY <1>1, <2>1, CallCopies
    <2>3. CopyShape'
      BY <2>1, <2>2 DEF CopyShape
    <2> QED
      BY <2>2, <2>3 DEF CopyInv
  <1>3. CASE CopyReserve
    <2>1. /\ copying = "destroy" /\ Call("reserve", None, None, Len(source))
          /\ copying' = "reserve" /\ UNCHANGED <<source, at, answer>>
      BY <1>3 DEF CopyReserve
    <2>2. source \in Sources /\ answer = "none" /\ at = 0
      BY <1>1, <2>1 DEF CopyShape
    <2>3. Len(source) \in Nat
      BY <2>2, SourceEntries
    <2>4. /\ CopiesInv' /\ Contents' = Contents /\ pc = "idle" /\ pc' = "reserve"
          /\ request' = Len(source) /\ UNCHANGED table
          /\ call' = [op |-> "reserve", key |-> None, value |-> None, ret |-> "pending"]
      BY <1>1, <2>1, <2>3, CallCopies
    <2>5. Emptied
      BY <1>1, <2>1, <2>4 DEF CopyShape
    <2>6. Emptied'
      BY <2>4, <2>5 DEF Emptied, Occupied, Tombstones, table
    <2>7. Holds(0)'
      BY <2>4, <2>6, NothingHeldNext
    <2>8. CopyShape'
      BY <2>1, <2>2, <2>4, <2>7 DEF CopyShape
    <2> QED
      BY <2>4, <2>8 DEF CopyInv
  <1>4. CASE CopySet
    <2>1. /\ Succeeded /\ at < Len(source)
          /\ Call("set", source[at + 1][1], source[at + 1][2], 0)
          /\ copying' = "set" /\ at' = at + 1 /\ source' = source /\ answer' = answer
      BY <1>4 DEF CopySet
    <2>2. source \in Sources /\ answer = "none" /\ copying \in {"reserve", "set"}
          /\ call.ret = "ok"
      BY <1>1, <2>1 DEF CopyShape, Succeeded
    <2>3. Len(source) \in Nat /\ at \in Nat
      BY <1>1, <2>2, SourceEntries DEF CopyShape
    <2>4. at + 1 \in 1 .. Len(source)
      BY <2>1, <2>3
    <2>5. source[at + 1][1] \in Keys /\ source[at + 1][2] \in Values
      BY <2>2, <2>4, SourceEntries
    <2>6. /\ CopiesInv' /\ Contents' = Contents /\ pc = "idle" /\ pc' = "set"
          /\ UNCHANGED table
          /\ call' = [op |-> "set", key |-> source[at + 1][1],
                      value |-> source[at + 1][2], ret |-> "pending"]
      <3>1. 0 \in Nat
        OBVIOUS
      <3> QED
        BY <1>1, <2>1, <2>5, <3>1, CallCopies
    <2>7. Roomy /\ Holds(at)
      BY <1>1, <2>2 DEF CopyShape
    <2>8. Holds(at) => /\ size = at /\ tombstones = 0
                       /\ \A m \in 1 .. at : Contents'[source'[m][1]] = source'[m][2]
                       /\ \A k \in Keys : Contents'[k] # None
                             => \E m \in 1 .. at : source'[m][1] = k
      BY <2>1, <2>6 DEF Holds
    <2>9. at' - 1 = at
      BY <2>1, <2>3
    <2>10. Holds(at - 1)'
      BY <2>6, <2>7, <2>8, <2>9 DEF Holds, table
    <2>11. Roomy'
      BY <2>1, <2>6, <2>7 DEF Roomy, table
    <2>12. CopyShape'
      BY <2>1, <2>2, <2>4, <2>6, <2>10, <2>11 DEF CopyShape
    <2> QED
      BY <2>6, <2>12 DEF CopyInv
  <1>5. CASE CopyUndo
    <2>1. /\ copying \in {"reserve", "set"} /\ Call("clear", None, None, 0)
          /\ copying' = "clear" /\ UNCHANGED <<source, at, answer>>
      BY <1>5 DEF CopyUndo
    <2>2. /\ CopiesInv' /\ pc' = "clear"
          /\ call' = [op |-> "clear", key |-> None, value |-> None, ret |-> "pending"]
      BY <1>1, <2>1, CallCopies
    <2>3. CopyShape'
      BY <1>1, <2>1, <2>2 DEF CopyShape
    <2> QED
      BY <2>2, <2>3 DEF CopyInv
  <1> QED
    BY <1>2, <1>3, <1>4, <1>5

LEMMA CopyAnswers ==
    ASSUME CopyInv, CopyEnd \/ CopyFail \/ UNCHANGED <<vars, copy>>
    PROVE  CopyInv'
  <1>1. CopiesInv /\ CopyShape /\ UNCHANGED vars /\ source' = source /\ at' = at
    BY DEF CopyInv, CopyEnd, CopyFail, copy
  <1>2. CopiesInv'
    BY <1>1, CopiesStep
  <1>3. /\ UNCHANGED <<table, pc, call, request>> /\ Contents' = Contents
        /\ (Emptied => Emptied') /\ (Roomy => Roomy')
    <2>1. UNCHANGED table
      BY <1>1 DEF vars
    <2> QED
      BY <1>1, <2>1, ContentsKept
      DEF vars, control, table, Emptied, Occupied, Tombstones, Roomy
  <1>4. ASSUME NEW n, Holds(n)
        PROVE  /\ size' = n /\ tombstones' = 0
               /\ \A m \in 1 .. n : Contents'[source'[m][1]] = source'[m][2]
               /\ \A k \in Keys : Contents'[k] # None
                     => \E m \in 1 .. n : source'[m][1] = k
    BY <1>1, <1>3, <1>4 DEF Holds, table
  <1>5. CASE CopyEnd
    <2>1. /\ Succeeded /\ at >= Len(source) /\ copying' = "none" /\ answer' = "ok"
      BY <1>5 DEF CopyEnd
    <2>2. /\ source \in Sources /\ Holds(at) /\ at \in 0 .. Len(source)
          /\ pc = "idle"
      <3>1. /\ source \in Sources /\ Holds(at) /\ pc = "idle"
            /\ at = 0 \/ at \in 1 .. Len(source)
        BY <1>1, <2>1 DEF CopyShape, Succeeded
      <3>2. Len(source) \in Nat
        BY <3>1, SourceEntries
      <3> QED
        BY <3>1, <3>2
    <2>3. at = Len(source)
      <3>1. Len(source) \in Nat
        BY <2>2, SourceEntries
      <3> QED
        BY <2>1, <2>2, <3>1
    <2>4. Holds(Len(source))'
      BY <1>1, <1>4, <2>2, <2>3 DEF Holds
    <2>5. CopyShape'
      BY <1>1, <1>3, <2>1, <2>2, <2>4 DEF CopyShape
    <2> QED
      BY <1>2, <2>5 DEF CopyInv
  <1>6. CASE CopyFail
    <2>1. pc = "idle" /\ copying = "clear" /\ copying' = "none" /\ answer' = "error"
      BY <1>6 DEF CopyFail
    <2>2. Emptied'
      BY <1>1, <1>3, <2>1 DEF CopyShape
    <2>3. CopyShape'
      BY <1>3, <2>1, <2>2 DEF CopyShape
    <2> QED
      BY <1>2, <2>3 DEF CopyInv
  <1>7. CASE UNCHANGED <<vars, copy>>
    <2>1. UNCHANGED <<copying, source, at, answer>>
      BY <1>7 DEF copy
    <2>2. answer = "ok" => Holds(Len(source))'
      BY <1>1, <1>4 DEF Holds, CopyShape
    <2>3. copying = "reserve" => Holds(0)'
      BY <1>1, <1>4 DEF Holds, CopyShape
    <2>4. copying = "set" => Holds(IF call.ret = "ok" THEN at ELSE at - 1)'
      <3> DEFINE n == IF call.ret = "ok" THEN at ELSE at - 1
      <3>1. n' = n
        BY <1>1, <1>3
      <3>2. copying = "set" => Holds(n)
        BY <1>1 DEF CopyShape
      <3> HIDE DEF n
      <3>3. copying = "set" => Holds(n)'
        BY <1>4, <3>1, <3>2 DEF Holds
      <3> QED
        BY <3>3 DEF n
    <2>5. CopyShape'
      BY <1>1, <1>3, <2>1, <2>2, <2>3, <2>4 DEF CopyShape
    <2> QED
      BY <1>2, <2>5 DEF CopyInv
  <1> QED
    BY <1>5, <1>6, <1>7

LEMMA CopyStep == CopyInv /\ [CopyNext]_<<vars, copy>> => CopyInv'
  <1> SUFFICES ASSUME CopyInv, [CopyNext]_<<vars, copy>> PROVE CopyInv'
    OBVIOUS
  <1>1. CASE Other
    <2>1. CopiesInv'
      <3>1. [Next]_vars
        BY <1>1 DEF Other, Next
      <3> QED
        BY <3>1, CopiesStep DEF CopyInv
    <2>2. CopyShape'
      <3>1. CASE copying = "none"
        BY <1>1, <3>1, OtherCalls
      <3>2. CASE copying # "none"
        <4>1. answer = "none"
          BY <3>2 DEF CopyInv, CopyShape
        <4>2. Body /\ UNCHANGED copy
          BY <1>1, <3>2, <4>1 DEF Other
        <4>3. copying \in {"destroy", "clear", "reserve", "set"}
          BY <3>2 DEF CopyInv, CopyShape
        <4> QED
          BY <2>1, <4>2, <4>3, EmptyingCalls, ReservingCalls, SettingCalls
      <3> QED
        BY <3>1, <3>2
    <2> QED
      BY <2>1, <2>2 DEF CopyInv
  <1>2. CASE (\E s \in Sources : CopyBegin(s)) \/ CopyReserve \/ CopySet \/ CopyUndo
    BY <1>2, CopyCalls
  <1>3. CASE CopyEnd \/ CopyFail \/ UNCHANGED <<vars, copy>>
    BY <1>3, CopyAnswers
  <1> QED
    BY <1>1, <1>2, <1>3 DEF CopyNext

LEMMA CopyMeans == CopyInv => CopyExact
  <1> SUFFICES ASSUME CopyInv PROVE CopyExact
    OBVIOUS
  <1>1. CASE answer = "ok"
    <2>1. source \in Sources /\ Holds(Len(source)) /\ pc = "idle"
      BY <1>1 DEF CopyInv, CopyShape
    <2>2. DOMAIN source = 1 .. Len(source)
      BY <2>1, SourcesAssumption, LenProperties
    <2>3. \A n \in 1 .. Len(source) : At(source[n][1]) = source[n][2]
      BY <2>1, SourceEntries DEF Holds, Contents
    <2> QED
      BY <1>1, <2>1, <2>2, <2>3 DEF CopyExact, Holds
  <1>2. CASE answer # "ok"
    BY <1>2 DEF CopyExact, CopyInv, CopyShape, Emptied
  <1> QED
    BY <1>1, <1>2

\* A copy holds the entries of its source and no more, or nothing at all:
\* hashmap_copy never leaves a part of the source, whatever fails, and the
\* room it reserves spares it every rehash.
THEOREM CopyExactHolds == CopySpec => []CopyExact
  <1>1. CopyInit => CopyInv
    <2> SUFFICES ASSUME CopyInit PROVE CopyInv
      OBVIOUS
    <2>1. CopiesInv
      BY CopiesInit DEF CopyInit
    <2>2. CopyShape
      BY DEF CopyInit, CopyShape
    <2> QED
      BY <2>1, <2>2 DEF CopyInv
  <1>2. CopyInv /\ [CopyNext]_<<vars, copy>> => CopyInv'
    BY CopyStep
  <1>3. CopyInv => CopyExact
    BY CopyMeans
  <1> QED
    BY <1>1, <1>2, <1>3, PTL DEF CopySpec
=============================================================================
