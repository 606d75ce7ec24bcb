----------------------------- MODULE UnorderedMap -----------------------------
(***************************************************************************)
(* kstd::unordered_map: separate chaining over a power-of-two bucket       *)
(* array.  A map is its bucket array (a sequence of chains of node         *)
(* addresses, the first node first; <<>> is the null array) and _size; the *)
(* nodes live in one kernel heap, of which `heap` holds the live ones and  *)
(* their entries.  `entries` is a ghost, what a mathematical map would     *)
(* hold; so are the `due`, `seen` and `again` of a loop over a map: the    *)
(* elements it has to meet yet, has met, and whether it met one twice.     *)
(* operator new halts the kernel when the heap is exhausted, so an         *)
(* allocation that returns has succeeded.                                  *)
(***************************************************************************)
EXTENDS Integers, Sequences, FiniteSets, FiniteSetsExt, SequencesExt

CONSTANTS
  Keys,             \* key values; std::hash of an integer is the integer itself
  Maps,             \* the map objects
  INITIAL_BUCKETS,  \* 8 in the code: a power of two
  MaxNodes          \* bound on what the maps hold together

MapAssumption ==
  /\ Keys \subseteq Nat /\ MaxNodes \in Nat /\ INITIAL_BUCKETS \in Nat \ {0}

VARIABLES
  buckets,  \* map -> its chains, one per bucket; Len is _bucket_count
  size,     \* map -> _size
  heap,     \* live node -> its entry
  arrays,   \* map -> number of bucket arrays allocated for it and not freed
  entries,  \* map -> the abstract map (a ghost)
  walk      \* a range-for loop over one map: iterator and ghosts

mvars == <<buckets, size, heap, arrays, entries, walk>>

NoWalk == [map |-> "none", node |-> 0, due |-> {}, seen |-> {}, again |-> FALSE]

\* Hash{}(key) & (_bucket_count - 1u), as an index into the sequence of chains
bucket_index(key, count) == (key % count) + 1

Chain(m, key) == buckets[m][bucket_index(key, Len(buckets[m]))]
NodesOf(chains) == UNION {Range(chains[i]) : i \in DOMAIN chains}

\* A node lands where it would in the old array.
RehashOldIndex(chains, count) ==
  LET place(fresh, n) ==
        [fresh EXCEPT ![bucket_index(heap[n].key, Len(chains))] = <<n>> \o @]
  IN FoldLeft(place, [i \in 1 .. count |-> <<>>], FlattenSeq(chains))

\* Moves every node to the front of its chain in an array of `count` buckets, in the
\* order in which the loop meets them.
Rehash(chains, count) ==
  LET place(fresh, n) == [fresh EXCEPT ![bucket_index(heap[n].key, count)] = <<n>> \o @]
  IN FoldLeft(place, [i \in 1 .. count |-> <<>>], FlattenSeq(chains))

reserve_buckets(chains, wanted) ==
  LET count == IF wanted < INITIAL_BUCKETS THEN INITIAL_BUCKETS ELSE wanted
  IN IF count <= Len(chains) THEN chains
     ELSE IF chains = <<>> THEN [i \in 1 .. count |-> <<>>]
     ELSE Rehash(chains, count)

ensure_capacity(chains, held) ==
  IF Len(chains) = 0 THEN reserve_buckets(chains, INITIAL_BUCKETS)
  ELSE IF held + 1 > Len(chains) THEN reserve_buckets(chains, Len(chains) * 2)
  ELSE chains

insert_node(chains, index, node) == [chains EXCEPT ![index] = <<node>> \o @]

Lookup(chain, key) == SelectSeq(chain, LAMBDA n : heap[n].key = key)

\* The nodes as begin() and ++ meet them.
Order(m) == FlattenSeq(buckets[m])
After(m, n) ==
  LET i == CHOOSE k \in DOMAIN Order(m) : Order(m)[k] = n
  IN IF i = Len(Order(m)) THEN 0 ELSE Order(m)[i + 1]
Begin(m) == IF Order(m) = <<>> THEN 0 ELSE Head(Order(m))

\* operator new answers with any address that is not live; which one makes no difference,
\* so each key has one of its own for each map that may hold it.
Fresh(key, live) ==
  CHOOSE n \in (key * Cardinality(Maps) + 1) .. ((key + 1) * Cardinality(Maps)) : n \notin live
Nodes == 1 .. ((Max(Keys) + 1) * Cardinality(Maps))
Room(live, k) == Cardinality(live) + k <= MaxNodes

\* A loop whose iterator is invalidated is over: rehashing moves the buckets, and the
\* node it stands on may be gone.
EndWalk(m) == walk' = IF walk.map = m THEN NoWalk ELSE walk
Without(f, S) == [x \in (DOMAIN f) \ S |-> f[x]]
-----------------------------------------------------------------------------
Init ==
  /\ buckets = [m \in Maps |-> <<>>]
  /\ size = [m \in Maps |-> 0]
  /\ heap = <<>>
  /\ arrays = [m \in Maps |-> 0]
  /\ entries = [m \in Maps |-> <<>>]
  /\ walk = NoWalk

\* The array ensure_capacity leaves, and the loop it may invalidate; a loop that goes on
\* may or may not meet an element inserted meanwhile.
Grow(m, chains, inserted) ==
  /\ arrays' = [arrays EXCEPT ![m] = 1]
  /\ IF Len(chains) # Len(buckets[m]) THEN EndWalk(m)
     ELSE walk' = IF walk.map # m THEN walk
                  ELSE [walk EXCEPT !.due = @ \ inserted,
                                    !.seen = @ \ inserted]

\* emplace and insert leave the value of a key that is there alone; operator[] then
\* yields it to be assigned.
emplace(m, key, assign) ==
  LET value == IF assign THEN "assigned" ELSE "emplaced"
      chains == ensure_capacity(buckets[m], size[m])
      index == bucket_index(key, Len(chains))
      hit == Lookup(chains[index], key)
      node == Fresh(key, DOMAIN heap)
  IN /\ Grow(m, chains, IF hit = <<>> THEN {key} ELSE {})
     /\ IF hit # <<>>
        THEN /\ buckets' = [buckets EXCEPT ![m] = chains]
             /\ heap' = IF assign THEN [heap EXCEPT ![hit[1]].value = value] ELSE heap
             /\ entries' = IF assign THEN [entries EXCEPT ![m][key] = value] ELSE entries
             /\ UNCHANGED size
        ELSE /\ Room(DOMAIN heap, 1)
             /\ buckets' = [buckets EXCEPT ![m] = insert_node(chains, index, node)]
             /\ heap' = [n \in DOMAIN heap \cup {node} |->
                           IF n = node THEN [key |-> key, value |-> value] ELSE heap[n]]
             /\ size' = [size EXCEPT ![m] = @ + 1]
             /\ entries' = [entries EXCEPT ![m] =
                              [k \in DOMAIN @ \cup {key} |-> IF k = key THEN value ELSE @[k]]]

EraseKey(m, key) ==
  IF buckets[m] = <<>> \/ Lookup(Chain(m, key), key) = <<>>
  THEN UNCHANGED <<buckets, size, heap, entries>>
  ELSE LET n == Lookup(Chain(m, key), key)[1]
       IN /\ buckets' = [buckets EXCEPT ![m][bucket_index(key, Len(buckets[m]))] =
                           SelectSeq(@, LAMBDA x : x # n)]
          /\ heap' = Without(heap, {n})
          /\ size' = [size EXCEPT ![m] = @ - 1]
          /\ entries' = [entries EXCEPT ![m] = Without(@, {key})]

\* erase(key): a loop over the map goes on unless it stands on that element.
erase(m, key) ==
  /\ EraseKey(m, key)
  /\ UNCHANGED arrays
  /\ walk' = IF walk.map # m \/ walk.node = 0 THEN walk
             ELSE IF heap[walk.node].key = key THEN NoWalk
             ELSE [walk EXCEPT !.due = @ \ {key}]

\* for (auto &e : map): begin(), then one step per element.
BeginWalk(m) ==
  /\ walk = NoWalk
  /\ walk' = [map |-> m, node |-> Begin(m), due |-> DOMAIN entries[m],
             seen |-> {}, again |-> FALSE]
  /\ UNCHANGED <<buckets, size, heap, arrays, entries>>

Visit(next) ==
  LET key == heap[walk.node].key
  IN walk' = [walk EXCEPT !.node = next, !.due = @ \ {key}, !.seen = @ \cup {key},
                          !.again = @ \/ key \in walk.seen]

Advance ==
  /\ walk.node # 0
  /\ Visit(After(walk.map, walk.node))
  /\ UNCHANGED <<buckets, size, heap, arrays, entries>>

\* The iterator is advanced past the next chain, not the next node.
NextChain ==
  /\ walk.node # 0
  /\ LET rest == {i \in DOMAIN buckets[walk.map] :
                    /\ i > bucket_index(heap[walk.node].key, Len(buckets[walk.map]))
                    /\ buckets[walk.map][i] # <<>>}
     IN Visit(IF rest = {} THEN 0
              ELSE buckets[walk.map][CHOOSE i \in rest : \A j \in rest : i <= j][1])
  /\ EraseKey(walk.map, heap[walk.node].key)
  /\ UNCHANGED arrays

\* it = map.erase(it)
EraseAtIterator ==
  /\ walk.node # 0
  /\ Visit(After(walk.map, walk.node))
  /\ EraseKey(walk.map, heap[walk.node].key)
  /\ UNCHANGED arrays

FinishWalk ==
  /\ walk # NoWalk /\ walk.node = 0
  /\ walk' = NoWalk
  /\ UNCHANGED <<buckets, size, heap, arrays, entries>>

\* clear() destroys nodes and nulls buckets but the counter is left.
ClearKeepsSize(m) ==
  /\ buckets' = [buckets EXCEPT ![m] = [i \in DOMAIN @ |-> <<>>]]
  /\ heap' = Without(heap, NodesOf(buckets[m]))
  /\ entries' = [entries EXCEPT ![m] = <<>>]
  /\ EndWalk(m)
  /\ UNCHANGED <<arrays, size>>

clear(m) ==
  /\ buckets' = [buckets EXCEPT ![m] = [i \in DOMAIN @ |-> <<>>]]
  /\ heap' = Without(heap, NodesOf(buckets[m]))
  /\ size' = [size EXCEPT ![m] = 0]
  /\ entries' = [entries EXCEPT ![m] = <<>>]
  /\ EndWalk(m)
  /\ UNCHANGED arrays

\* a = b: what a held is freed, then the entries of b are emplaced one by one, in b's
\* order, into an array of as many buckets (or the initial one, when b never had any).
CopyAssign(a, b) ==
  LET emptied == Without(heap, NodesOf(buckets[a]))
      source == Order(b)
      copyOf == [i \in DOMAIN source |-> Fresh(heap[source[i]].key, DOMAIN emptied)]
      count == IF Len(buckets[b]) < INITIAL_BUCKETS THEN INITIAL_BUCKETS ELSE Len(buckets[b])
      place(chains, i) ==
        insert_node(chains, bucket_index(heap[source[i]].key, count), copyOf[i])
  IN /\ a # b /\ Room(DOMAIN emptied, Len(source))
     /\ buckets' = [buckets EXCEPT ![a] =
          FoldLeft(place, [i \in 1 .. count |-> <<>>], [i \in DOMAIN source |-> i])]
     /\ heap' = [n \in DOMAIN emptied \cup Range(copyOf) |->
                   IF n \in Range(copyOf)
                   THEN heap[source[CHOOSE i \in DOMAIN source : copyOf[i] = n]]
                   ELSE emptied[n]]
     /\ size' = [size EXCEPT ![a] = size[b]]
     /\ arrays' = [arrays EXCEPT ![a] = 1]
     /\ entries' = [entries EXCEPT ![a] = entries[b]]
     /\ EndWalk(a)

\* b keeps its bucket array.
MoveKeepsSource(a, b) ==
  /\ a # b
  /\ heap' = Without(heap, NodesOf(buckets[a]))
  /\ buckets' = [buckets EXCEPT ![a] = buckets[b]]
  /\ size' = [size EXCEPT ![a] = size[b]]
  /\ arrays' = [arrays EXCEPT ![a] = arrays[b]]
  /\ entries' = [entries EXCEPT ![a] = entries[b], ![b] = <<>>]
  /\ walk' = IF walk.map \in {a, b} THEN NoWalk ELSE walk

\* a = std::move(b)
MoveAssign(a, b) ==
  /\ a # b
  /\ heap' = Without(heap, NodesOf(buckets[a]))
  /\ buckets' = [buckets EXCEPT ![a] = buckets[b], ![b] = <<>>]
  /\ size' = [size EXCEPT ![a] = size[b], ![b] = 0]
  /\ arrays' = [arrays EXCEPT ![a] = arrays[b], ![b] = 0]
  /\ entries' = [entries EXCEPT ![a] = entries[b], ![b] = <<>>]
  /\ walk' = IF walk.map \in {a, b} THEN NoWalk ELSE walk

\* ~unordered_map, after which the object is constructed anew
clear_and_free(m) ==
  /\ buckets' = [buckets EXCEPT ![m] = <<>>]
  /\ heap' = Without(heap, NodesOf(buckets[m]))
  /\ size' = [size EXCEPT ![m] = 0]
  /\ arrays' = [arrays EXCEPT ![m] = 0]
  /\ entries' = [entries EXCEPT ![m] = <<>>]
  /\ EndWalk(m)

\* The maps are interchangeable: one of them is walked.  No step looks at a value, so one
\* key that may have either shows what happens to all.
Walked == CHOOSE m \in Maps : TRUE

Next ==
  \/ \E m \in Maps, k \in Keys, assign \in BOOLEAN :
       (assign => k = Min(Keys)) /\ emplace(m, k, assign)
  \/ \E m \in Maps, k \in Keys : erase(m, k)
  \/ \E m \in Maps : clear(m) \/ clear_and_free(m)
  \/ BeginWalk(Walked)
  \/ Advance
  \/ EraseAtIterator
  \/ FinishWalk
  \/ \E a, b \in Maps : CopyAssign(a, b) \/ MoveAssign(a, b)

Spec == Init /\ [][Next]_mvars
-----------------------------------------------------------------------------
\* The variables have their types.
TypeOK ==
  /\ \A m \in Maps : \A i \in DOMAIN buckets[m] : buckets[m][i] \in Seq(Nodes)
  /\ size \in [Maps -> 0 .. MaxNodes]
  /\ arrays \in [Maps -> 0 .. 1]
  /\ DOMAIN heap \subseteq Nodes
  /\ walk.map \in Maps \cup {"none"} /\ walk.node \in Nodes \cup {0}

\* find() answers as the abstract map does for every key, through every sequence of
\* insertions, erasures, rehashes, copies and moves (unordered_map.hpp:144-311): a key in
\* the map is found in the one chain that find() searches, with the value last given to
\* it, a key that is not is found nowhere, and size() is the number of keys.
FindsWhatWasStored ==
  \A m \in Maps :
    /\ size[m] = Cardinality(DOMAIN entries[m])
    /\ \A k \in Keys :
         LET hits == IF buckets[m] = <<>> THEN <<>> ELSE Lookup(Chain(m, k), k)
         IN IF k \in DOMAIN entries[m]
            THEN Len(hits) = 1 /\ heap[hits[1]].value = entries[m][k]
            ELSE hits = <<>>

\* Every live node hangs in exactly one chain of one map and every node in a chain is
\* live, so that nothing is freed twice, leaked or reached after it was freed
\* (unordered_map.hpp:201-237, 286-311); a map has a bucket array exactly when one is
\* allocated for it, and its load factor stays at or below one.
NodesOwnedOnce ==
  /\ UNION {Range(Order(m)) : m \in Maps} = DOMAIN heap
  /\ MapThenSumSet(LAMBDA m : Len(Order(m)), Maps) = Cardinality(DOMAIN heap)
  /\ \A m \in Maps : arrays[m] = (IF buckets[m] = <<>> THEN 0 ELSE 1)
                     /\ size[m] <= Len(buckets[m])

\* A loop that erases through the iterator, and during which other elements are erased by
\* key and no rehash takes place, meets every element that was there at its start exactly
\* once (unordered_map.hpp:61-67, 189-199).
WalkMeetsEachOnce ==
  /\ walk.node # 0 => walk.node \in NodesOf(buckets[walk.map])
  /\ ~walk.again
  /\ walk.node = 0 => walk.due = {}
=============================================================================
