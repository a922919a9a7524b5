# TLA+ models of libcp

libcp is a C library of containers for competitive programming. It has no
threads and no I/O; what makes it hard is the state inside each container. A
hash table must keep its probe chains whole through tombstones and rehashes, a
ring buffer has to wrap around, an insertion that fails half-way has to be
undone, and every container owns copies of the elements it was given, which it
must destroy exactly once. The modules here state what each container promises,
model its code on its own representation, and show that the code keeps the
promise: by model checking (TLC) of every container, and by proof (TLAPS) of the
hash map, both red-black trees, the deque, the vector and the heap with their
legacy versions, the list, the graph, the union-find forest, the Fenwick and the
segment tree, the bitset and the strings, for every value of their constants.

Paths of source files are relative to the root of the repository.

## The system

Every container is a C struct used by one caller at a time. Functions answer 0
for success and -1 for failure (of an allocation, of the caller's copy callback,
of an argument check); nothing is shared between containers but the callbacks
`elem_copy` and `elem_destroy`, which the containers call.

| Component | State | Operations that change it | Hard behaviour | Correct when |
|---|---|---|---|---|
| `hashmap` | three arrays of buckets (state, key, value), capacity, size, tombstones | set, delete, reserve, clear, destroy, copy, clone | tombstones against load, rehash with new mask, staged copies on failure | it is a map; chains unbroken; a probe ends; copies owned once |
| `hashset` | a hashmap | add, delete, ... | none of its own | as hashmap |
| `treemap` | red-black tree of nodes with parent pointers | set, delete, clear, copy | rotations and fixups after insertion and deletion | it is a map; ordered; red-black shape |
| `treeset` | a treemap | add, delete, ... | none of its own | as treemap |
| `radixmap` | compressed radix tree of strings | set, delete, clear, copy | splitting an edge, merging after deletion, failing allocations in between | it is a map; no redundant node |
| `radix` | a radixmap | add, delete, ... | none of its own | as radixmap |
| `vector` | array, size, capacity | push, pop, insert, set, erase, reserve, clear, sort, copy | the gap of an insertion whose copy fails | it is a sequence; copies owned once |
| `deque` | ring buffer, head, size, capacity | push and pop at both ends, set, reserve, clear, copy | wrap-around at any capacity, head moved before a copy that fails | it is a sequence; copies owned once |
| `list` | nodes with two links, head, tail, size | push, pop, insert, set, erase by index or node, clear, copy | links at the ends, walks from both ends, freeing while walking | it is a sequence; both directions agree; no leaked node |
| `heap` | array with the heap order | push, pop, clear, copy | sifting on a copy that failed | it is a bag with its top first |
| `unionfind` | parent and size arrays | union, find (compresses), reset, copy | path compression while reading | it is a partition |
| `bitree` | Fenwick array | add, set, reset, copy | index arithmetic on low bits | sums are sums |
| `segtree` | array of merged nodes | build, set, query, reset, copy | a merge callback that fails half-way up | queries are folds |
| `graph` | a vector of edges per node | add_edge, delete_edge, clear, copy | undoing half of an undirected edge, loops | edges are symmetric, counted once |
| `bitset` | packed words | set, flip, and/or/xor, copy, from_string | bits beyond the size in the last word | it is a set of indices |
| `sds` | length-prefixed strings | cat, trim, replace, join, split | length and capacity accounting, aliasing | length <= capacity |
| `legacy/*_typed.h` | macro versions of vector, deque, heap, dict and rbtree | as above | backward-shift deletion, a ring with a free slot, deletion fixup on missing children | as above |

`combine.py` and the makefiles bundle and build sources; they are not modelled.

## Modules

| Module | Models | Abstract specification |
|---|---|---|
| `MapSpec` | what every keyed container promises: a map, a size, calls and answers | - |
| `Probing` | linear probing, shared by the two hash tables | - |
| `HashMap` | `src/hashmap.c` | `MapSpec` |
| `HashMapProofs` | theorems of `HashMap` and `HashMapCopy` | - |
| `HashMapCopy` | `hashmap_copy`, `hashmap_clone` as callers of `HashMap` | - |
| `RedBlackTree` | search, rotations and fixups of a tree as a value | - |
| `TreeMap` | `src/treemap.c`, with the operators of `RedBlackTree` | `MapSpec` |
| `LegacyRBTree` | `src/legacy/rbtree_typed.h`, with the same operators | `MapSpec` |
| `RadixMap` | `src/radixmap.c` but for its copies | `MapSpec` |
| `RadixMapCopy` | `radixmap_copy`, `radixmap_clone` of a `RadixMap` | - |
| `LegacyDict` | `src/legacy/dict_typed.h` | the history variable `expected` |
| `SeqSpec` | what every sequence container promises | - |
| `Deque` | `src/deque.c` | `SeqSpec` |
| `Vector` | `src/vector.c` | `SeqSpec` |
| `List` | `src/list.c` | `SeqSpec` |
| `LegacyDeque`, `LegacyVector` | `src/legacy/deque_typed.h`, `src/legacy/vector_typed.h` | the history variable `expected` |
| `Graph` | `src/graph.c`, over vectors as sequences | the history variable `edges` |
| `TreeMapAndLegacy` | `TreeMap` side by side with `LegacyRBTree` | those of the two |
| `DequeAndLegacy` | `Deque` side by side with `LegacyDeque` and `LegacyVector` | those of the three |
| `VectorAndGraph` | `Vector` side by side with `Graph` | those of the two |
| `PartitionSpec` | what union-find promises | - |
| `UnionFind` | `src/unionfind.c` | `PartitionSpec` |
| `BagSpec` | what the heap promises | - |
| `Heap` | `src/heap.c` | `BagSpec` |
| `LegacyHeap` | `src/legacy/heap_typed.h` | `Heap`, with the history variable `expected` as its bag |
| `SegTree` | `src/segtree.c` | `values`, the array as the caller stored it |
| `BiTree` | `src/bitree.c` | `values` |
| `BitSet` | `src/bitset.c` | `members`, the positions that are on |
| `Sds` | `src/sds.c` | `content`, the string as the caller made it |
| `ContainerLemmas` | lemmas on counting, least members and sequences that the proofs share | - |
| `Arrays` | `UnionFind`, `Heap`, `LegacyHeap`, `SegTree`, `BiTree`, `BitSet`, `Sds` side by side | those of the seven |
| `ListProofs`, `HeapProofs` | theorems of the module in the name | - |
| `TreeMapProofs`, `DequeProofs`, `VectorProofs`, `ArrayProofs` | theorems of `TreeMapAndLegacy`, `DequeAndLegacy`, `VectorAndGraph`, `Arrays` | - |
| `MC...` | instances for TLC | - |

Containers that stand side by side do not interact: `turn` says which of them a
behavior is about. It lets one run look at several, and one module of proofs
cite the lemmas of one for the other.

### How state and actions correspond to code

A call is split where something can fail or where a loop turns. `Call(op, ...)`
is the caller entering a function with arguments from small sets, `None` among
them for NULL; `pc` says where the function stands, `call` keeps its arguments
and, after its return, its answer. Every other action is a stretch of the
function's body from one such point to the next. Since a single caller uses the
container, nothing runs in between, but the caller's copy callback runs at the
steps where `live` grows, and a failure can come at each of them. Argument
checks on the container itself (`map == NULL`) are left out: there is a
container in every state.

`live` counts, per element (and per key), the copies that were made and not yet
destroyed. It is not state of the program: it is what a leak checker sees. A
destroyed element leaves its bits behind in slots that are no longer in use.

- `HashMap`: the variables are the fields of `struct hashmap`; `buckets`,
  `newStates`, `newKeys`, `newValues`, `next` are the locals of
  `hashmap_rehash` and `hashmap_reserve`. `hash & mask` is `Hash[k] % capacity`,
  the capacity being a power of two. `Stops`, `FreeSlot` and `RawStops` are the
  loops of the two `find_slot` functions as "the first such bucket in probe
  order"; an action whose probe would never end is disabled, which `CallReturns`
  and the theorem `FindSlotCorrect` would show. `Hash` is a constant, so the
  hash functions themselves are arbitrary.
- `LegacyDict`: the macros for `int` keys. `cap`, `keys`, `values` are the
  arrays at index 0, `newCap`, ... those at index 1 that `dict_expand` fills. A
  key 0 marks an empty bucket and the entry of key 0 lives in bucket -1. A dict
  that was never expanded has no array: `dict_find` and `dict_delete` of any other
  key read through NULL there (`src/legacy/dict_typed.h:97`), and `pc` says
  "crashed". `dict_set` expands first; so does the caller of the tests. A probe
  that would never end is disabled, which `CallReturns` would show.
  `expected` records what the caller stored; `owned` which value pointers belong
  to a dict that frees its values.
- `Deque`, `Vector`: the fields of the structs. A push makes room (`MakeRoom`),
  then moves head or the tail of the array (`Lower`, `Shift`), then copies the
  element (`Fill`) or fails to (`FillFails`) and undoes the move. `copy` runs
  the same steps once per element of its source.
- `List`: `prev`, `next`, `data` of all nodes, `allocated` what malloc has given
  out. Clearing takes a step per node; a freed node reads as NULL.

- `LegacyDeque`, `LegacyVector`, `LegacyHeap`: the macros copy plain values and
  call nothing back, so those of the ring and the array are one action each;
  those of the heap take a step per iteration of their loops, as `Heap` does. An
  `assert` is a guard: what it demands is up to the caller. Slots keep what was
  last written there. `exit(1)` without memory ends the behavior.
- `Graph`: `graph_add_edge` of an undirected graph takes a step for each half; a
  loop has both in one vector. What a vector does inside is in `Vector`. `edges`
  is the bag of edges as the caller counts them; the sources of `graph_copy` are
  graphs as calls make them, with their bags.

- `TreeMap`: a node is named by its key; `tree` holds the root and the links and
  colors of all nodes, `value` their values. Left and right are a parameter of
  the fixups, which the code writes out twice. `treemap_set` and
  `treemap_delete` link and unlink in one step and then take a step per
  iteration of their fixup, with its locals `node` and `above` (`parent` in the
  code). `liveValues` is `live` for values; a key lives and dies with its node.
  `treemap_copy` is calls of `destroy`, `set` and `clear`, which the caller of
  the model makes in every order.

- `LegacyRBTree`: as `TreeMap`, but the node of a deletion is named by the key
  that leaves (the code moves the successor's key and value into the node of the
  deleted key and frees the successor's node, which leaves the same tree). The
  tree owns its values. Where the code calls `exit(1)` or dereferences NULL, `pc`
  says "exited" or "crashed" and nothing follows. The loop of
  `_rbt_delete_fixup` never turns, which `LegacyShape` states, and has no action.

- `HashMapCopy`: `hashmap_copy` is a caller of the map it copies into. Each of
  its calls (destroy, reserve, a set per entry, clear when one fails) is made with
  `Call` and runs as in `HashMap`, rehashes and failures included; `at` is its
  place in the source, whose entries are a sequence in the order of the buckets.

- `RadixMap`: `tree` holds the fields of all nodes; the lists of children are
  linked as in the code, and a pointer to a link (`radixmap_find_child_link`) is
  "whatever leads to this node" (`Redirect`). `radixmap_split_insert` takes a
  step for each node it allocates and one to link them; the recursion of
  `radixmap_delete_node` is the sequence `path`, shortened by one per step.
  `unmerged` is not state of the program: it remembers at which nodes a merge
  found no memory. A destroyed map refuses every call.
- `RadixMapCopy`: the copy of a node goes by the name of the node. `frames` is
  the recursion of `radixmap_node_clone_chain`: a node each, and the link it has
  come to. A step allocates one node with its value, returns one link, or, after
  a failure, unwinds one level with the links that level already has.

- `UnionFind`, `BiTree`, `BitSet`: no call can fail half-way or calls back, so
  each is one action; finds compress paths in all the calls that do so in the
  code. A byte of a bitset is the set of its bits that are on. The source of a
  copy is a container as calls make it.
- `Heap`: a push grows the array, stages a copy and moves the hole `hole` up; a
  pop destroys the top and lets the last element sink; one step per iteration.
- `SegTree`: a step per merge, which is code of the caller and may fail, and in a
  query a step per iteration, with up to two of them. Values are sequences and a
  merge concatenates them, so that a fold in any other order shows: concatenation
  is associative and has an identity, and nothing else that a merge need not have.
  `stale` and `query.spoilt` are not state of the program: the one remembers which
  nodes a failed merge has left behind, the other whether a query met one.
- `Sds`: a string is a block with `len`, `alloc` and its bytes. A byte written
  outside the block would extend the domain of its buffer, which `StringExact`
  excludes, and a byte never written is None. Splitting takes a step per part;
  `slots` is the size of the array that `sdssplitlen` has counted the parts for.
  The sum that `sdsjoinlen` reserves and stores (`TotalLen`), the length that
  `sdsreplacelen` computes and the count of parts are loops of their own, apart
  from those that write, as in the code. What `sdstrim` should leave is said by
  `Keeps`, not by its loops.

Calls by node (`list_insert_before`, ...) carry the position of that node in
`call.at`, so that the abstract sequence need not know nodes.

## Runs

| Run | Instance | Shows |
|---|---|---|
| `hashmap_safety` | 7 keys, 1 value, tables of 8 and 16 buckets, reserve 0, 6, 7 | types, counters and load (`TableShape`), chains (`ChainsUnbroken`), rehash prefixes (`RehashFaithful`), `ReserveMakesRoom`, and that the invariant of the proofs, copies included, holds (`CopiesInv`) |
| `hashmap_map` | 4 keys, 2 values, tables of 4 and 8 buckets; copies of maps of 0, 3 and 4 entries | `ImplementsMap`, `LiveCopies`, `CallReturns`, `CopyExact` |
| `legacy_dict` | keys 0, 1, 2, 9, 17; tables of 2, 4, 8 and 16 | lookups, size and termination where chains do not wrap around |
| `legacy_dict_lookup` | keys 7, 15, 23 | finding: a stored key is lost |
| `legacy_dict_values` | keys 1, 2, 9, owned values | finding: a value in use is freed |
| `treemap` | `TreeMap`: 7 keys, one of them with 2 values; `LegacyRBTree`: 5 keys, one with 2 values | `Linked`, `RedBlack`, `WalksInOrder`, `ImplementsMap`; `LegacyShape`, `LegacyImplementsMap` |
| `legacy_rbtree_fixup` | the same, the legacy tree only | finding: the deletion fixup starts at NULL |
| `radixmap` | 5 strings, one of them empty, one with 2 values; 8 nodes; copies of up to 5 nodes | `TreeShape`, `PrefixesMatch`, `Compressed`, `ImplementsMap`, `CopyExact` |
| `deque` | `Deque`: 2 elements, buffers of 2, 3, 4 and 6 slots; `LegacyDeque`: 3 and 6 slots; `LegacyVector`: 2 and 4 slots | `RingShape`, `LiveCopies`, `ImplementsSequence`; `LegacySequences` |
| `vector` | `Vector`: 2 elements, arrays of 2, 3 and 4 slots; `Graph`: up to 3 vertices, 3 edges, 2 weights | `LiveCopies`, `ImplementsSequence`; `AdjacencyMatches` |
| `list` | 2 elements, 4 nodes, symmetric | `ListShape`, `ImplementsSequence` |
| `arrays` | `UnionFind`: 4 elements; `Heap`: 7 slots, elements 1, 2, 3; `LegacyHeap`: 3 and 6 slots; `SegTree`: arrays of 0, 1, 3 and 4; `BiTree`: 6 indices, values -1, 0, 1; `BitSet`: bytes of 3 bits, 7 positions; `Sds`: strings of up to 3 bytes | `LowForest`, `ImplementsPartition`; `HeapOrder` (both heaps), `ImplementsBag`; `QueriesFold`; `SumsExact`; `BitsMatch`; `StringExact` |

A module's type invariant `TypeOK` is the first conjunct of one of the invariants
its run checks (`CopiesInv` for the hash map).

Bounds, and why they are enough. `MaxCapacity` is the point where the model has
no more memory: failures of allocation happen below it too. For the hash map,
eight buckets with seven keys in four home buckets, one of them the last, give
chains that collide, wrap around and fill to the load limit; both growth of a
crowded table and rebuilding at the same capacity happen. (The sum of occupied
buckets and tombstones never exceeds the number of distinct keys set since the
table was last rebuilt, so growth under deletions needs more keys than the load
limit of a table: seven for eight buckets.) The second instance starts at four
buckets instead of eight, which the theorems cover for every capacity from 2.
The legacy dict starts at two buckets in `legacy_dict` and not at 8 (`InitCapacity`),
so that its five keys fill tables of 2 and 4 up to the load limit, where one key
more would leave no empty bucket, and grow three times.
For the deque, 3 and 6 are capacities that are no power of two, and sequences up
to 6 wrap at every head. Two elements are enough to tell positions apart where
the code never compares elements. Four nodes give the list an inner pair.
Seven keys make every tree up to two full levels of black nodes, where all cases
of both fixups occur: a red uncle at the root and below it, a red sibling, and
black siblings with no, a near, a far and two red children. `RedBlack` says what
holds between the iterations as well: one red node may have a red parent, and
while `treemap_delete_fixup` runs one subtree may be a black node short.
`Indices` includes values past the end.
For the radix map, three keys branch at one node, one goes on below another and
one is empty: insertions split, end inside a segment, and extend a key; deletions
remove leaves from all places of a list and merge over one and two levels. Eight
nodes are two more than the keys need, so that nodes that could not be merged
can pile up. A copy starts after a refused call only (the tree is that of the
call before it), which keeps the state space small; five nodes are the smallest
tree with a node that has a child linked when the clone of its sibling fails.
The sources of hash map copies hold a chain that wraps around, and one of them
needs the larger table.
A forest of four elements has paths of length two to compress and is where union
by size first matters twice. Seven slots are a heap of three full levels; arrays
start at 3 slots in the model (`InitCapacity`) and not at 8, so that they grow.
The legacy ring does so too, and grows while it wraps around and while it does
not. Three elements leave a segment tree of four leaves partly empty, and four fill
it; a query meets a node on each side, on both, or none, in each of two
iterations before its ends meet. Six indices give a Fenwick tree a last node that covers two of them. With
bytes of three bits (`CharBit`), seven positions are two full bytes and one bit
of a third, and every smaller size leaves a last byte that is full, partly used
or missing. `MaxPrealloc` and `MaxLen` take strings to the length where growth
changes from doubling to a constant; the texts repeat a byte, hold a NUL, and are
empty. Five keys give the legacy tree red uncles and rotations; deletions that
return remove red nodes, or nodes with a red child, only.

Findings, all in the legacy headers:

- `legacy_dict_lookup`: the backward shift of `dict_delete`
  (`src/legacy/dict_typed.h:211`) misses keys whose chain has wrapped around the
  end of the table before the hole. Keys 7, 15 and 23 go to buckets 7, 0 and 1 of a
  table of 8. Deleting 15 leaves the hole `prev = 0`; at `cur = 1` key 23 has
  `p = 7`, which neither disjunct accepts, and stays; a later lookup of 23 stops
  at the empty bucket 0. (A hole in bucket 7 is filled rightly: with `cur = 0` and
  `p = 7` the second disjunct holds.)
- `legacy_dict_values`: the shift copies a value but leaves the old copy in the
  vacated bucket (`src/legacy/dict_typed.h:213`); a later `dict_set` into that
  bucket frees the value the moved entry holds.
- `legacy_rbtree_fixup`: `rbt_delete` of a black leaf hands NULL to
  `_rbt_delete_fixup` (`src/legacy/rbtree_typed.h:347`), which a comment says is
  always given a black node, and which dereferences it. All other deletions leave
  a sound tree.

## Fairness

Only liveness needs it: `CallReturns` of `HashMap` (also under the calls of
`hashmap_copy`) and `LegacyDict` assumes weak
fairness of the body of a call (`WF_vars(Body)`). C code that has been entered
runs on by itself; nothing is assumed of the caller, who may stop calling. The
legacy dict and the legacy tree may end the program (`exit(1)` without memory, a
NULL pointer, which the legacy dict reads until it is expanded) or be freed, so their runs do not check for deadlock.

## Proofs

What TLAPS proves holds for every value of the constants under the assumptions
named in the modules: any sets of elements, keys and values, any hash function,
any initial capacity and any bound on memory, sizes and sources.

| Theorem | Module | Says |
|---|---|---|
| `TypeCorrect` | `HashMapProofs` | `Spec => []TypeOK` |
| `TableShapeHolds` | `HashMapProofs` | counters exact, load at most three quarters |
| `ChainsUnbrokenHold` | `HashMapProofs` | chains whole, no key twice |
| `RehashFaithfulHolds` | `HashMapProofs` | a rehash in progress has moved what it passed |
| `FindSlotCorrect` | `HashMapProofs` | every probe ends and finds exactly the stored keys |
| `LiveCopiesHold` | `HashMapProofs` | every copy of a key or value is in exactly one bucket |
| `ReserveMakesRoomHolds` | `HashMapProofs` | after a reserve no entry up to the n-th needs a rehash, the tombstones left counted in |
| `HashMapImplementsMap` | `HashMapProofs` | the hash map implements `MapSpec` |
| `CopyExactHolds` | `HashMapProofs` | `hashmap_copy` is all or nothing |
| `LinkedHolds` | `TreeMapProofs` | links agree, nothing leaks, inside the fixups too |
| `RedBlackHolds` | `TreeMapProofs` | the red-black shape, with the one exception a fixup mends |
| `WalksInOrderHolds` | `TreeMapProofs` | ends, neighbors and bounds are those of the keys |
| `TreeMapImplementsMap` | `TreeMapProofs` | the tree implements `MapSpec` |
| `LegacyShapeHolds` | `TreeMapProofs` | the legacy tree is sound until a deletion ends the program |
| `LegacyTreeImplementsMap` | `TreeMapProofs` | the legacy tree implements `MapSpec` up to there |
| `RingShapeHolds`, `LiveCopiesHold` | `DequeProofs` | the ring at any capacity, copies owned once |
| `DequeImplementsSequence` | `DequeProofs` | the deque implements `SeqSpec` |
| `LegacySequencesHold` | `DequeProofs` | the legacy ring and array hold what was put there |
| `LiveCopiesHold` | `VectorProofs` | copies owned once, the gap of an insertion included |
| `VectorImplementsSequence` | `VectorProofs` | the vector implements `SeqSpec` |
| `AdjacencyHolds` | `VectorProofs` | the vectors of a graph hold every edge twice, once if directed |
| `ListShapeHolds` | `ListProofs` | both directions agree, no node is leaked |
| `ListImplementsSequence` | `ListProofs` | the list implements `SeqSpec` |
| `HeapOrderHolds` | `HeapProofs` | the heap order but for the element on its way |
| `HeapImplementsBag` | `HeapProofs` | a pop removes a greatest element |
| `LowForestHolds` | `ArrayProofs` | counts exact, every climb at most logarithmic |
| `UnionFindImplementsPartition` | `ArrayProofs` | unions and finds are those of a partition |
| `HeapsOrdered` | `ArrayProofs` | the order of both heaps, the legacy heap's slots included |
| `HeapsImplementBags` | `ArrayProofs` | the legacy heap does what `Heap` does; both are bags |
| `BitsMatchHold` | `ArrayProofs` | bytes, counts and searches of a bitset are those of its set |
| `SumsExactHold` | `ArrayProofs` | range sums of a Fenwick tree are those of its values |
| `QueriesFoldHold` | `ArrayProofs` | a query of a segment tree is the fold of its range, failed merges spoil no more than the nodes above |
| `StringExactHold` | `ArrayProofs` | strings are what calls made of them, and no length computed before writing is wrong |

### Assumptions

They say what the types of the code say: `None` (NULL) is no element, key or
node; capacities, requests and indices are natural numbers, the first capacity
is positive (from 2 for the hash map); a source is a sequence of elements. Four
say more. `HashAssumption` makes a hash a natural number that depends on the key
only. `ListAssumption` makes the nodes finitely many, and the indices closed
under the next one up to their number, so that appending is among the abstract
calls. `SourcesAssumption` of `HashMapCopy` names no key twice in a source,
which `ChainsUnbroken` of the source gives. `TreeMapAssumption` makes the keys
finitely many integers: a finite order of keys is what the tree sees of its
comparison, and the length of a walk is bounded by their number.

Two are about modules that a sum takes in by INSTANCE. `LegacyAssumption` of
`DequeAndLegacy` lets the ring start with two slots or more (eight in the code),
since one of them stays free, and that of `TreeMapAndLegacy` gives the entries
to insert their types. `GraphsAssumption` says that a graph to copy is whole
(`IsGraph`): its vectors hold the edges of its bag, which is what `AdjacencyHolds`
gives of any graph between calls. `HeapsAssumption` of `Arrays` is what the
theorems on `Heap` have as a hypothesis, for both heaps, `BitsAssumption` makes
a byte have at least one bit, `SumsAssumption` the bounds of sums numbers,
`SegAssumption` what segment trees are built from sequences, and `StrAssumption`
texts sequences and the bounds of strings numbers. TLC evaluates all of
them. One is a hypothesis of its theorem instead: `NullIsNoBlock` of `ArrayProofs`
says that `None`, where a string is NULL, is none of the blocks of a string, whose
set is infinite and cannot be evaluated.

### Arguments

Reachability, order and counting usually call for induction over the data. Here
the data is ranked by a number instead (a distance, an index, a size of a
subtree), and what fails somewhere fails first at some least rank, where the
step before gives the contradiction. `LeastNatural` and `GreatestMember` of
`ContainerLemmas` are that argument.

**Hash map.** `IInv` is `TypeOK`, `TableShape`, `ChainsUnbroken` and
`RehashFaithful` with two more parts. `ControlShape` says what a call has
established by the time it comes to each of its steps: that an insertion still
finds the room `hashmap_prepare_insert` made for it, and that the key it stages
is not in the table. `RehashShape` says that the new table has room for the
entries still to come and for the one being inserted. Without the first,
`SetInsert` could break the load limit or store a key twice; without the second,
`RehashEnd` could. The argument about chains rests on three lemmas on probe
distances: the distance is injective, a first bucket of a nonempty set exists
and is unique, and every bucket before it in probe order is outside the set. The
load limit gives an empty bucket in every allocated table (by cardinality), so
every probe ends. For the refinement, the lookups `At(k)` change at the key of a
call only, and the number of keys present is the number of occupied buckets.
`CopiesInv` adds `LiveCopies` and the size that a reserve has asked for; copies
are counted as the cardinality of the buckets that hold them, which each step
changes by one or, in a rehash, permutes. `CopyShape` adds to it, for
`hashmap_copy`, that the map holds the entries of the source up to the one being
set and that the room reserved for all of them is still there, so that no
rehash runs.

**Red-black tree.** The invariant `IInv` of `TreeMapProofs` says that there are
a subtree `sub[n]` for every node and a height `h[n]`, neither of which the code
keeps, for which every child's subtree is the part of its parent's on its side
(`Ordered`), both children of a node have the same black height, but one black
node less where `treemap_delete_fixup` has got to (`Balanced`), and no red node
has a red parent but the one a fixup is about to look at (`Clashes`). Each
rotation, the new leaf, the node spliced out and the successor lifted into its
place have a lemma for each of the three parts, and each iteration of the
fixups is shown to hand on the same exception one or two levels up. That the
walks end, and at the right node, follows from the sizes of the subtrees, which
shrink on the way down. `LinkedHolds` and `RedBlackHolds` read their
statements, which speak of walks and of counts of black nodes along a path, off
that invariant from the root downwards (`TopDown`). What lies outside a subtree
lies on one side of all of it (`OneSide`): so the climb of `treemap_next` ends
at the neighbor, and the last hit of `treemap_find_bound_node` is the least.

**Legacy tree.** The same lemmas, with the rank of a sound tree until a deletion
is lost at a NULL pointer. The node that a deletion takes out has one child at
most; when it is black and has one, that child is red and is a leaf, by the black
heights, so that the fixup starts at a red node, which it blackens, or at the
root, or at NULL. This is why its loop never turns and why every deletion that
returns has left a sound tree.

**Deque and vector.** The invariant is the geometry of the ring (or array)
wherever a call stands, and `LiveCopies`. The positions of the sequence are
distinct slots, also when they wrap around a capacity that is no power of two;
growth moves them all and keeps the sequence. Inserting, replacing and
rearranging change the number of occurrences of an element as `ContainerLemmas`
says.

**Legacy ring and array.** Head and tail lie in the ring, and the slots from one to
the other are as many as elements, never all of them. Growth lays the two parts
of a ring that wraps around end to end and so keeps the sequence; this is where a
first capacity of one slot would break it.

**Graph.** Every vector holds as many halves of an edge as are due: one for each
copy of the edge, two for a loop of an undirected graph, and one more of the
edge whose first half `graph_add_edge` has just pushed (`GraphInv`). From this
follows that a half at one end has its counterpart at the other, that
`graph_find_directed_edge` finds a second half of a loop behind the first, and
that popping takes back just the half that was pushed. Appending and removing
change the number of halves in a sequence by one, or not at all.

**List.** The invariant says that there is an order `o` of the nodes allocated
with which `next` and `prev` agree at every position (`Linked`). `ListShape`
follows: a walk from either end comes to `o[n]` after `n` links.

**Heap.** `HeapOrder` is inductive as it stands. That the top is greatest holds
because every slot is below a slot with a smaller index. Every step of
`LegacyHeap` is a step of `Heap` or none, where the slots behind the end and the
one that a push has taken but not written count as empty (`Kept`); the theorems
on `Heap` then hold of it, too.

**Fenwick tree.** The invariant says that there are sums `t` of the first values,
and that node `i` holds `t[i] - t[i - LowBit(i)]` (`Accumulates`). A query then
telescopes. An update changes the sums beyond its index, and so the nodes that
count the index; that `bitree_add` comes to just these (`NodesAbove`) holds because
no node between `i` and `i + LowBit(i)` counts `i`, and because those that count
the next one and stand behind it count `i`, too (`WayUp`). Both are proved from
the least number for which they fail: it is odd or twice a lesser one.

**Segment tree.** `IsTree` says that a node is the merge of its children, and that
they are so, too, unless it is stale or still to come in the loop of a build or a
set (`Pending`); a merge that fails makes stale just what is pending, so that a
node with a stale child is stale. Nodes to come are `Up` of a leaf, which is
closed under parents. The invariant of a query (`QueryShape`) is that what it has
merged on the left, the fold of the nodes between its ends, and what it has merged
on the right are together the fold of the range, unless it has met a stale node or
has one between its ends. An iteration takes the odd node off either end (`Peel`)
and goes on with the parents of the rest, whose fold is the same (`FoldPairs`); a
stale node in the rest has a stale parent there. `Fold`, `Up`, `Built` and
`NextCapacity` are recursive functions, and what the proof needs of each is that
there is one function with its equation, by the least argument that has none.

**Bitset.** A position is a byte and a place in it, by division. `Packed` says
that the bytes hold the members and nothing else, the bits beyond the size
included, which every operation has to mask. That `Count` is the number of
members follows from a one-to-one map of the members to the bits that are on.

**Strings.** A block in use holds its bytes, their terminator and nothing outside
its capacity (`HeldBlock`), which growing, writing behind the end and writing anew
keep. What the code does with the places where a text is found
(`Count`, `Replaced`, `Pieces`) is defined from a position on by what comes after the
next place; each lemma about two of them is shown for the last position at which
it fails, that is, for none. So the length `sdsreplacelen` computes is that of what
it writes, and there is one part more than places. While a string is split, the
parts so far and those to come are `Pieces` of the whole, and the array has a slot
for each. The sum of `sdsjoinlen` is the length of the parts joined, by the least
number of parts for which it is not.

**Union-find.** The invariant says that there are a root and a rank for every
element with which the parents are a forest: parents share the root and lie
above. The elements on the way up from an element are the least set that holds
it and the parents of its members; when there are `k + 1` of them, its tree has
at least `2^k` elements (`Low`). Path compression only shortens ways and leaves
roots and sizes alone; a union lengthens by one the ways in the tree that is not
the larger one. No way is then longer than the binary logarithm of the size.

### Only model-checked

- Liveness (`CallReturns`), which is out of the prover's reach.
- `LookupsMatch` and `SizeExact` of `LegacyDict`. They do not hold of all keys:
  where chains wrap around the end of the table, `legacy_dict_lookup` finds a key
  lost, and setting it again counts it twice. What is checked is an instance
  without such chains.
- `RadixMap` and `RadixMapCopy`, whose invariants have not been proved: what
  `radixmap_at` finds walks down the segments of strings, which would need the
  subtrees of `TreeMap` again with prefixes for their order.

## Not modelled

- `hashset`, `treeset` and `radix`: each of their functions is one call of the
  map below with a fixed value, so that `MapSpec` with one value is what they
  promise. `combine.py` and the makefiles process text and files.
- Pointers into a container handed back to it as arguments: elements are values
  here. `vector_push(v, vector_at(v, 0))` is outside the model.
- Sizes near `SIZE_MAX`: integers are unbounded. This leaves out the overflow
  checks of the code, and `entry_capacity * 4` in `src/hashmap.c:100`.
- The iteration order of the hash map, which the header leaves open; `sdscmp`,
  the formatting of `vsnprintf`, `vector_bsearch`, and other functions that only
  read and that no property mentions.
- `char*` keys of the legacy dict with their cached hashes; the cursor of the
  legacy tree; what reads of freed nodes answer in `rbtree_free`.
- Copies of segment trees that a failed merge left inconsistent (the models copy
  trees that were built), `bitree_reset` of a tree without nodes, and `bitree_copy`
  of a tree without nodes (`nodes` NULL after a destroy or a failed init), which
  reads through NULL.
- Typed helper macros, which expand to the functions modelled.

## Plan

The models cover every container. What is left are the proofs of `TreeShape` and
`PrefixesMatch` of the radix map, with subtrees as for `TreeMap`.
