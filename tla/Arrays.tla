------------------------------- MODULE Arrays -------------------------------
(* The containers that keep all they have in one or two arrays, side by     *)
(* side: forests, both heaps, segment and Fenwick trees, bitsets, strings.  *)
(* They do not interact; turn says which of them a behavior is about.       *)
EXTENDS UnionFind, Sequences

CONSTANTS
    None,
    HeapElements, Capacities, InitCapacity, MaxCapacity, \* of Heap
    LegacyMaxCapacity,                                   \* of LegacyHeap
    SegElements, SegArrays,                              \* of SegTree
    MaxIndices, MaxValue,                                \* of BiTree
    CharBit, MaxBits, Strings,                           \* of BitSet
    NUL, MaxPrealloc, MaxLen, Texts, CharSets, Reserves  \* of Sds

VARIABLES
    turn,
    capacity, heapSize, data, live, pc, call, hole, staged,
    lhCapacity, lhSize, lhData, lhPc, lhCall, lhHole, lhBag,
    segSize, segCapacity, segNodes, segPc, segAt, segRet, segQuery, segOut,
    segValues, stale,
    biSize, biNodes, biValues, biRet,
    bitSize, bits, members, bitRet,
    sds, parts, slots, sdsPc, sdsAt, sdsRet, blocks, content, whole, sep

heapVars == <<capacity, heapSize, data, live, pc, call, hole, staged>>
legacyVars == <<lhCapacity, lhSize, lhData, lhPc, lhCall, lhHole, lhBag>>
segVars == <<segSize, segCapacity, segNodes, segPc, segAt, segRet, segQuery, segOut,
             segValues, stale>>
biVars == <<biSize, biNodes, biValues, biRet>>
bitVars == <<bitSize, bits, members, bitRet>>
sdsVars == <<sds, parts, slots, sdsPc, sdsAt, sdsRet, blocks, content, whole, sep>>

Heaps == INSTANCE Heap WITH Elements <- HeapElements, size <- heapSize
Legacy == INSTANCE LegacyHeap WITH
        Elements <- HeapElements, MaxCapacity <- LegacyMaxCapacity,
        capacity <- lhCapacity, size <- lhSize, data <- lhData, pc <- lhPc,
        call <- lhCall, hole <- lhHole, expected <- lhBag
Seg == INSTANCE SegTree WITH
        Elements <- SegElements, Arrays <- SegArrays, size <- segSize,
        capacity <- segCapacity, nodes <- segNodes, pc <- segPc, at <- segAt,
        ret <- segRet, query <- segQuery, out <- segOut, values <- segValues
Sums == INSTANCE BiTree WITH
        MaxSize <- MaxIndices, size <- biSize, nodes <- biNodes, values <- biValues,
        ret <- biRet
Bits == INSTANCE BitSet WITH MaxSize <- MaxBits, size <- bitSize, ret <- bitRet
Strs == INSTANCE Sds WITH
        Capacities <- Reserves, s <- sds, pc <- sdsPc, at <- sdsAt, ret <- sdsRet, live <- blocks

\* What the proofs assume: the elements and capacities of both heaps, a byte of
\* at least one bit, bounds that are numbers, and arrays and texts that are
\* sequences.
ASSUME HeapsAssumption == Heaps!HeapAssumption /\ LegacyMaxCapacity \in Nat \ {0}
ASSUME SumsAssumption == MaxIndices \in Nat /\ MaxValue \in Nat
ASSUME SegAssumption == \A a \in SegArrays : a \in Seq({a[i] : i \in DOMAIN a})
ASSUME BitsAssumption == CharBit \in Nat \ {0} /\ MaxBits \in Nat
ASSUME StrAssumption ==
    /\ MaxPrealloc \in Nat /\ Reserves \subseteq Nat
    /\ \A t \in Texts : t \in Seq({t[i] : i \in DOMAIN t})

InitEach ==
    /\ Init /\ Heaps!Init /\ Legacy!Init /\ Seg!Init /\ Sums!Init
    /\ Bits!Init /\ Strs!Init
    /\ turn \in {"unionfind", "heap", "legacy", "segtree", "bitree", "bitset", "sds"}

NextEach ==
    /\ UNCHANGED turn
    /\ \/ /\ turn = "unionfind" /\ Next
          /\ UNCHANGED <<heapVars, legacyVars, segVars, biVars, bitVars, sdsVars>>
       \/ /\ turn = "heap" /\ Heaps!Next
          /\ UNCHANGED <<vars, legacyVars, segVars, biVars, bitVars, sdsVars>>
       \/ /\ turn = "legacy" /\ Legacy!Next
          /\ UNCHANGED <<vars, heapVars, segVars, biVars, bitVars, sdsVars>>
       \/ /\ turn = "segtree" /\ Seg!Next
          /\ UNCHANGED <<vars, heapVars, legacyVars, biVars, bitVars, sdsVars>>
       \/ /\ turn = "bitree" /\ Sums!Next
          /\ UNCHANGED <<vars, heapVars, legacyVars, segVars, bitVars, sdsVars>>
       \/ /\ turn = "bitset" /\ Bits!Next
          /\ UNCHANGED <<vars, heapVars, legacyVars, segVars, biVars, sdsVars>>
       \/ /\ turn = "sds" /\ Strs!Next
          /\ UNCHANGED <<vars, heapVars, legacyVars, segVars, biVars, bitVars>>

varsEach == <<vars, heapVars, legacyVars, segVars, biVars, bitVars, sdsVars, turn>>
SpecEach == InitEach /\ [][NextEach]_varsEach

\* The order of both heaps, with the exception of the element on its way, and
\* the bags they show.
HeapOrder == Heaps!HeapOrder /\ Legacy!HeapMatches
ImplementsBag == Heaps!ImplementsBag /\ Legacy!ImplementsHeap

\* The folds, sums, sets and strings of the others.
QueriesFold == turn = "segtree" => Seg!QueriesFold
SumsExact == turn = "bitree" => Sums!SumsExact
BitsMatch == turn = "bitset" => Bits!BitsMatch
StringExact == turn = "sds" => Strs!StringExact
=============================================================================
