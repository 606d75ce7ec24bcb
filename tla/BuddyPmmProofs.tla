--------------------------- MODULE BuddyPmmProofs ---------------------------
(***************************************************************************)
(* The buddy allocator keeps its pages apart for every number of orders,   *)
(* every memory map and every NUMA layout.                                 *)
(***************************************************************************)
EXTENDS BuddyPmm, ArithmeticLemmas, FiniteSetTheorems

\* The least-number principle, from the well-founded order of the finite sets:
\* a minimal initial segment 0 .. x-1 belongs to a least x.
LEMMA LeastNatural ==
  ASSUME NEW T \in SUBSET Nat, T # {}
  PROVE  \E x \in T : \A y \in T : x <= y
<1> DEFINE Below(x) == 0 .. (x - 1)
           U == {Below(x) : x \in T}
<1>1. U \subseteq FiniteSubsetsOf(Nat)
  <2>1. ASSUME NEW x \in T
        PROVE  Below(x) \in SUBSET Nat /\ IsFiniteSet(Below(x))
    BY FS_Interval
  <2>2. QED  BY <2>1 DEF FiniteSubsetsOf
<1>2. PICK u \in U : \A v \in U : ~ (<<v, u>> \in StrictSubsetOrdering(Nat))
  <2>1. U # {}  OBVIOUS
  <2>2. QED  BY <1>1, <2>1, WFMin, FS_StrictSubsetOrderingWellFounded
<1>3. PICK x \in T : u = Below(x)  OBVIOUS
<1>4. ASSUME NEW y \in T, y < x  PROVE FALSE
  <2>1. Below(y) \subseteq Below(x) /\ Below(y) # Below(x)
    <3>1. y \in Below(x) /\ y \notin Below(y)  BY <1>4
    <3>2. QED  BY <3>1, <1>4
  <2>2. Below(y) \in SUBSET Nat /\ Below(x) \in SUBSET Nat  OBVIOUS
  <2>3. <<Below(y), Below(x)>> \in StrictSubsetOrdering(Nat)
    BY <2>1, <2>2 DEF StrictSubsetOrdering
  <2>4. Below(y) \in U  OBVIOUS
  <2>5. QED  BY <1>2, <1>3, <2>3, <2>4
<1>5. QED  BY <1>4
-----------------------------------------------------------------------------
(* Block sizes *)

\* Every block has at least one page.
LEMMA BlockPositive == \A o \in Orders : BlockPages[o] \in Nat \ {0}
<1> SUFFICES ASSUME \E o \in Orders : BlockPages[o] = 0  PROVE FALSE
  BY OrderAssumption
<1> DEFINE T == {o \in Orders : BlockPages[o] = 0}
<1>1. T \in SUBSET Nat /\ T # {}
  <2>1. PICK o \in Orders : BlockPages[o] = 0  OBVIOUS
  <2>2. o \in T  BY <2>1
  <2>3. QED  BY <2>2 DEF Orders
<1>2. PICK m \in T : \A y \in T : m <= y  BY <1>1, LeastNatural
<1>3. m # 0  BY OrderAssumption
<1>4. m - 1 \in Orders /\ m - 1 < MaxOrder  BY <1>3, OrderAssumption DEF Orders
<1>5. BlockPages[(m - 1) + 1] = 2 * BlockPages[m - 1]  BY <1>4, OrderAssumption
<1>6. BlockPages[m - 1] = 0  BY <1>4, <1>5, OrderAssumption DEF Orders
<1>7. m - 1 \in T  BY <1>6, <1>4
<1>8. QED  BY <1>7, <1>2, <1>1

\* The page table of pmm.c has finitely many entries.
LEMMA PagesFinite == IsFiniteSet(Pages)
<1>1. BlockPages[MaxOrder] - 1 \in Int
  BY BlockPositive, OrderAssumption DEF Orders
<1>2. IsFiniteSet(0 .. (BlockPages[MaxOrder] - 1))
  BY <1>1, FS_Interval
<1> QED
  BY <1>2 DEF Pages

\* A block of a higher order holds at least two of a lower one.
LEMMA BlockMonotone ==
  ASSUME NEW i \in Orders, NEW j \in Orders, i < j
  PROVE  2 * BlockPages[i] <= BlockPages[j]
<1> DEFINE T == {k \in Orders : i < k /\ 2 * BlockPages[i] > BlockPages[k]}
<1> SUFFICES ASSUME T # {}  PROVE FALSE
  BY OrderAssumption
<1>1. T \in SUBSET Nat  BY OrderAssumption DEF Orders
<1>2. PICK m \in T : \A y \in T : m <= y  BY <1>1, LeastNatural
<1>3. m - 1 \in Orders /\ m - 1 < MaxOrder /\ i <= m - 1
  BY <1>2, OrderAssumption DEF Orders
<1>4. BlockPages[m] = 2 * BlockPages[m - 1]
  <2>1. BlockPages[(m - 1) + 1] = 2 * BlockPages[m - 1]  BY <1>3, OrderAssumption
  <2>2. (m - 1) + 1 = m  BY OrderAssumption DEF Orders
  <2>3. QED  BY <2>1, <2>2
<1>5. i # m - 1  BY <1>4, OrderAssumption
<1>6. 2 * BlockPages[i] <= BlockPages[m - 1]
  <2>1. m - 1 \notin T  BY <1>2, <1>1
  <2>2. i < m - 1  BY <1>3, <1>5 DEF Orders
  <2>3. QED  BY <2>1, <2>2, <1>3, OrderAssumption
<1>7. QED  BY <1>6, <1>4, <1>3, OrderAssumption, BlockPositive

\* The offsets between two block sizes are covered by the doublings between.
LEMMA BlockCover ==
  ASSUME NEW to \in Orders, NEW from \in Orders, to <= from,
         NEW d \in Nat, BlockPages[to] <= d, d < BlockPages[from]
  PROVE  \E j \in to .. (from - 1) : BlockPages[j] <= d /\ d < 2 * BlockPages[j]
<1> DEFINE T == {k \in to .. from : d < BlockPages[k]}
<1>1. T \in SUBSET Nat /\ T # {}
  <2>1. from \in to .. from /\ from \in Nat /\ to \in Nat
    BY OrderAssumption DEF Orders
  <2>2. from \in T  BY <2>1
  <2>3. QED  BY <2>1, <2>2
<1>2. PICK m \in T : \A y \in T : m <= y  BY <1>1, LeastNatural
<1>3. m # to  BY OrderAssumption
<1>4. m - 1 \in to .. (from - 1) /\ m - 1 \in Orders /\ m - 1 < MaxOrder
  BY <1>2, <1>3, OrderAssumption DEF Orders
<1>5. BlockPages[m] = 2 * BlockPages[m - 1]
  <2>1. BlockPages[(m - 1) + 1] = 2 * BlockPages[m - 1]  BY <1>4, OrderAssumption
  <2>2. (m - 1) + 1 = m  BY OrderAssumption DEF Orders
  <2>3. QED  BY <2>1, <2>2
<1>6. m - 1 \notin T  BY <1>2, <1>1
<1>7. BlockPages[m - 1] <= d  BY <1>6, <1>4, OrderAssumption DEF Orders
<1>8. QED  BY <1>7, <1>5, <1>4, <1>2

\* Climbing one order joins a block with its buddy: the two halves are
\* disjoint and together they are the block one order up.
LEMMA ClimbOneOrder ==
  ASSUME NEW p \in Pages, NEW o \in Orders, o < MaxOrder
  PROVE  LET b == BlockBase(p, o) IN
         /\ b \in Nat /\ Buddy(b, o) \in Int
         /\ Block(BlockBase(p, o + 1), o + 1) = Block(b, o) \cup Block(Buddy(b, o), o)
         /\ Block(b, o) \cap Block(Buddy(b, o), o) = {}
<1> DEFINE s == BlockPages[o]
           b == BlockBase(p, o)
           q == p \div s
<1>1. s \in Nat \ {0}  BY BlockPositive
<1>2. p \in Nat  BY OrderAssumption DEF Pages, Orders
<1>3. BlockPages[o + 1] = 2 * s  BY OrderAssumption
<1>4. q \in Nat /\ b = q * s /\ b \in Nat
  <2>1. q \in Nat /\ p % s \in 0 .. (s - 1) /\ p = (q * s) + (p % s)
    BY <1>1, <1>2, DivisionWithRemainder
  <2>2. q * s \in Nat  BY <2>1, <1>1
  <2>3. QED  BY <2>1, <2>2, <1>2 DEF BlockBase
<1>5. b \div s = q
  <2>1. b = (q * s) + 0 /\ 0 \in 0 .. (s - 1)  BY <1>4, <1>1
  <2>2. QED  BY <2>1, <1>1, <1>4, DivisionUnique
<1>6. BlockBase(p, o + 1) = IF q % 2 = 0 THEN b ELSE b - s
  BY <1>1, <1>2, <1>3, RoundDownTwice DEF BlockBase
<1>7. Buddy(b, o) = IF q % 2 = 0 THEN b + s ELSE b - s
  BY <1>5 DEF Buddy
<1> HIDE DEF s, b, q
<1>8. Block(BlockBase(p, o + 1), o + 1) = Block(b, o) \cup Block(Buddy(b, o), o)
  <2>1. Block(b, o) = b .. (b + s - 1)  BY DEF Block, s
  <2>2. CASE q % 2 = 0
    <3>1. Block(Buddy(b, o), o) = (b + s) .. (b + s + s - 1)  BY <2>2, <1>7 DEF Block, s
    <3>2. Block(BlockBase(p, o + 1), o + 1) = b .. (b + (2 * s) - 1)
      BY <2>2, <1>6, <1>3 DEF Block
    <3>3. QED  BY <2>1, <3>1, <3>2, <1>1, <1>4
  <2>3. CASE q % 2 # 0
    <3>1. Block(Buddy(b, o), o) = (b - s) .. (b - s + s - 1)  BY <2>3, <1>7 DEF Block, s
    <3>2. Block(BlockBase(p, o + 1), o + 1) = (b - s) .. (b - s + (2 * s) - 1)
      BY <2>3, <1>6, <1>3 DEF Block
    <3>3. QED  BY <2>1, <3>1, <3>2, <1>1, <1>4
  <2>4. QED  BY <2>2, <2>3
<1>9. Block(b, o) \cap Block(Buddy(b, o), o) = {}
  <2>1. Block(b, o) = b .. (b + s - 1)  BY DEF Block, s
  <2>2. CASE q % 2 = 0
    <3>1. Block(Buddy(b, o), o) = (b + s) .. (b + s + s - 1)  BY <2>2, <1>7 DEF Block, s
    <3>2. QED  BY <2>1, <3>1, <1>1, <1>4
  <2>3. CASE q % 2 # 0
    <3>1. Block(Buddy(b, o), o) = (b - s) .. (b - s + s - 1)  BY <2>3, <1>7 DEF Block, s
    <3>2. QED  BY <2>1, <3>1, <1>1, <1>4
  <2>4. QED  BY <2>2, <2>3
<1>10. Buddy(b, o) \in Int  BY <1>7, <1>1, <1>4
<1>11. QED  BY <1>4, <1>8, <1>9, <1>10 DEF b

\* The buddies a climb from order o to order k absorbs.
LEMMA ClimbToOrder ==
  ASSUME NEW p \in Pages, NEW o \in Orders, buddy_is_order_aligned(p, o),
         NEW k \in o .. MaxOrder
  PROVE  Block(BlockBase(p, k), k)
           = Block(p, o) \cup UNION {Block(Buddy(BlockBase(p, j), j), j) : j \in o .. (k - 1)}
<1> DEFINE Halves(m) == {Block(Buddy(BlockBase(p, j), j), j) : j \in o .. (m - 1)}
           Good(m) == Block(BlockBase(p, m), m) = Block(p, o) \cup UNION Halves(m)
           T == {m \in o .. MaxOrder : ~ Good(m)}
<1> SUFFICES ASSUME k \in T  PROVE FALSE
  OBVIOUS
<1>1. T \in SUBSET Nat /\ T # {}  BY OrderAssumption DEF Orders
<1>2. PICK m \in T : \A y \in T : m <= y  BY <1>1, LeastNatural
<1>3. p \in Nat /\ o \in Nat /\ MaxOrder \in Nat
  BY OrderAssumption DEF Pages, Orders
<1>4. m # o
  <2>1. BlockBase(p, o) = p
    BY <1>3, BlockPositive DEF BlockBase, buddy_is_order_aligned
  <2>2. o .. (o - 1) = {}  BY <1>3
  <2>3. Good(o)  BY <2>1, <2>2
  <2>4. QED  BY <2>3
<1> DEFINE n == m - 1
<1>5. n \in Orders /\ n < MaxOrder /\ n \in o .. MaxOrder /\ n + 1 = m
  BY <1>2, <1>3, <1>4 DEF Orders
<1>6. Good(n)
  <2>1. n \notin T  BY <1>2, <1>3, <1>5
  <2>2. QED  BY <2>1, <1>5
<1>7. Block(BlockBase(p, m), m)
        = Block(BlockBase(p, n), n) \cup Block(Buddy(BlockBase(p, n), n), n)
  BY <1>5, ClimbOneOrder
<1>8. Halves(m) = Halves(n) \cup {Block(Buddy(BlockBase(p, n), n), n)}
  <2>1. o .. (m - 1) = (o .. (n - 1)) \cup {n}  BY <1>3, <1>5
  <2>2. QED  BY <2>1
<1> HIDE DEF n, Halves
<1>9. Good(m)  BY <1>6, <1>7, <1>8
<1>10. QED  BY <1>9, <1>2

\* Splitting a block of order `from' down to order `to' partitions it into the
\* block that is handed out and the right halves.
LEMMA SplitPartition ==
  ASSUME NEW b \in Nat, NEW to \in Orders, NEW from \in Orders, to <= from
  PROVE  /\ Block(b, from)
              = Block(b, to) \cup UNION {Block(b + BlockPages[j], j) : j \in to .. (from - 1)}
         /\ \A j \in to .. (from - 1) : Block(b, to) \cap Block(b + BlockPages[j], j) = {}
         /\ \A i, j \in to .. (from - 1) : i # j =>
              Block(b + BlockPages[i], i) \cap Block(b + BlockPages[j], j) = {}
<1> DEFINE J == to .. (from - 1)
<1>1. /\ \A j \in Orders : BlockPages[j] \in Nat \ {0}
      /\ J \subseteq Orders /\ to \in Nat /\ from \in Nat /\ Orders \subseteq Nat
  BY BlockPositive, OrderAssumption DEF Orders
<1>2. \A j \in J : BlockPages[to] <= BlockPages[j] /\ 2 * BlockPages[j] <= BlockPages[from]
  <2> TAKE j \in J
  <2>1. j \in Orders /\ to <= j /\ j < from  BY <1>1
  <2>2. 2 * BlockPages[j] <= BlockPages[from]  BY <2>1, BlockMonotone
  <2>3. BlockPages[to] <= BlockPages[j]
    <3>1. CASE to = j  BY <3>1, <1>1
    <3>2. CASE to < j  BY <3>2, <2>1, <1>1, BlockMonotone
    <3>3. QED  BY <3>1, <3>2, <2>1, <1>1
  <2>4. QED  BY <2>2, <2>3
<1>3. BlockPages[to] <= BlockPages[from]
  <2>1. CASE to = from  BY <2>1, <1>1
  <2>2. CASE to < from  BY <2>2, <1>1, BlockMonotone
  <2>3. QED  BY <2>1, <2>2, <1>1
<1>4. ASSUME NEW x \in Block(b, from)
      PROVE  x \in Block(b, to) \/ \E j \in J : x \in Block(b + BlockPages[j], j)
  <2>1. x \in Nat /\ b <= x /\ x < b + BlockPages[from]  BY <1>1 DEF Block
  <2>2. CASE x < b + BlockPages[to]  BY <2>1, <2>2, <1>1 DEF Block
  <2>3. CASE x >= b + BlockPages[to]
    <3>1. x - b \in Nat /\ BlockPages[to] <= x - b /\ x - b < BlockPages[from]
      BY <2>1, <2>3, <1>1
    <3>2. PICK j \in J : BlockPages[j] <= x - b /\ x - b < 2 * BlockPages[j]
      BY <3>1, BlockCover
    <3>3. x \in Block(b + BlockPages[j], j)  BY <3>2, <2>1, <1>1 DEF Block
    <3>4. QED  BY <3>3
  <2>4. QED  BY <2>1, <2>2, <2>3, <1>1
<1>5. Block(b, to) \subseteq Block(b, from)  BY <1>3, <1>1 DEF Block
<1>6. \A j \in J : Block(b + BlockPages[j], j) \subseteq Block(b, from)
  BY <1>2, <1>1 DEF Block
<1>7. \A j \in J : Block(b, to) \cap Block(b + BlockPages[j], j) = {}
  BY <1>2, <1>1 DEF Block
<1>8. ASSUME NEW i \in J, NEW j \in J, i < j
      PROVE  Block(b + BlockPages[i], i) \cap Block(b + BlockPages[j], j) = {}
  <2>1. 2 * BlockPages[i] <= BlockPages[j]  BY <1>8, <1>1, BlockMonotone
  <2>2. QED  BY <2>1, <1>1 DEF Block
<1>9. \A i, j \in J : i # j =>
        Block(b + BlockPages[i], i) \cap Block(b + BlockPages[j], j) = {}
  <2> TAKE i, j \in J
  <2> HAVE i # j
  <2>1. i < j \/ j < i  BY <1>1
  <2>2. QED  BY <2>1, <1>8
<1>10. QED  BY <1>4, <1>5, <1>6, <1>7, <1>9

\* MergeOrder stops at an order up to which every buddy could be absorbed, and the next
\* one could not.
LEMMA MergeOrderStops ==
  ASSUME NEW p \in Pages, NEW o \in Orders
  PROVE  /\ MergeOrder(p, o) \in o .. MaxOrder
         /\ \A j \in o .. (MergeOrder(p, o) - 1) :
              buddy_can_merge(j, Buddy(BlockBase(p, j), j))
         /\ MergeOrder(p, o) < MaxOrder =>
              ~ buddy_can_merge(MergeOrder(p, o), Buddy(BlockBase(p, MergeOrder(p, o)), MergeOrder(p, o)))
<1> DEFINE Can(j) == buddy_can_merge(j, Buddy(BlockBase(p, j), j))
           T == {k \in o .. MaxOrder : k = MaxOrder \/ ~ Can(k)}
           Stop(k) == /\ \A j \in o .. (k - 1) : Can(j)
                      /\ k < MaxOrder => ~ Can(k)
<1> HIDE DEF Can
<1>1. o \in Nat /\ MaxOrder \in Nat /\ o <= MaxOrder  BY OrderAssumption DEF Orders
<1>2. T \in SUBSET Nat /\ MaxOrder \in T  BY <1>1
<1>3. PICK m \in T : \A y \in T : m <= y  BY <1>2, LeastNatural
<1>4. m \in o .. MaxOrder /\ Stop(m)
  <2>1. \A j \in o .. (m - 1) : j \notin T  BY <1>1, <1>3
  <2>2. \A j \in o .. (m - 1) : Can(j)  BY <2>1, <1>1, <1>3
  <2>3. QED  BY <2>2, <1>1, <1>3
<1>5. MergeOrder(p, o) = CHOOSE k \in o .. MaxOrder : Stop(k)
  BY DEF MergeOrder, Can
<1>6. MergeOrder(p, o) \in o .. MaxOrder /\ Stop(MergeOrder(p, o))
  <2> HIDE DEF Stop
  <2>1. QED  BY <1>4, <1>5
<1>7. QED  BY <1>6 DEF Can
-----------------------------------------------------------------------------
(* Inserting and taking a block *)

\* What the free lists, the ownership map and the accounting promise.
Consistent ==
  /\ filed \subseteq [node : Nodes, order : Orders, base : Pages]
  /\ marker \in [Pages -> Orders \cup {NotFree}]
  /\ buddy_page_allocated \subseteq Pages
  /\ free_page_count \in Nat
  /\ watermark_low \in Nat /\ watermark_high \in Nat
  /\ NoPageInTwoPlaces
  /\ MarkersNameFreeBlocks
  /\ CountIsExact
  /\ FreePages \subseteq Pages

\* A block contains its base.
LEMMA BaseInBlock ==
  ASSUME NEW b \in Int, NEW o \in Orders
  PROVE  /\ b \in Block(b, o)
         /\ IsFiniteSet(Block(b, o))
         /\ Cardinality(Block(b, o)) = BlockPages[o]
<1>1. BlockPages[o] \in Nat \ {0}  BY BlockPositive
<1> DEFINE e == b + BlockPages[o] - 1
<1>2. e \in Int /\ b <= e /\ e - b + 1 = BlockPages[o]  BY <1>1
<1>3. Block(b, o) = b .. e  BY DEF Block
<1> HIDE DEF e
<1>4. IsFiniteSet(b .. e) /\ Cardinality(b .. e) = e - b + 1
  BY <1>2, FS_Interval
<1>5. QED  BY <1>2, <1>3, <1>4

\* The markers of the next state name its free blocks when each block of the
\* next state is marked, and a marked page carries the block that marks it.
LEMMA MarkersStep ==
  ASSUME filed' \subseteq [node : Nodes, order : Orders, base : Pages],
         \A x \in filed' : marker'[x.base] = x.order,
         \A q \in Pages : (\E x \in filed' : x.base = q) \/ marker'[q] = NotFree
  PROVE  MarkersNameFreeBlocks'
<1> SUFFICES ASSUME NEW q \in Pages, NEW o \in Orders
             PROVE  marker'[q] = o <=> \E x \in filed' : x.base = q /\ x.order = o
  BY DEF MarkersNameFreeBlocks
<1>1. NotFree \notin Orders  BY OrderAssumption DEF NotFree, Orders
<1>2. ASSUME marker'[q] = o  PROVE \E x \in filed' : x.base = q /\ x.order = o
  <2>1. PICK x \in filed' : x.base = q  BY <1>1, <1>2
  <2>2. QED  BY <2>1, <1>2
<1>3. QED  BY <1>2

\* Inserting a block that holds no free page adds exactly its pages to the
\* free pages, and takes them out of the ownership map.
LEMMA InsertStep ==
  ASSUME Consistent, NEW p \in Pages, NEW o \in Orders,
         buddy_is_order_aligned(p, o),
         Block(p, o) \subseteq Pages, Block(p, o) \cap FreePages = {},
         InsertBlock(p, o)
  PROVE  /\ Consistent'
         /\ FreePages' = FreePages \cup Block(p, o)
         /\ buddy_page_allocated' = buddy_page_allocated \ Block(p, o)
<1> DEFINE k == MergeOrder(p, o)
           base == BlockBase(p, k)
           Bud(j) == Buddy(BlockBase(p, j), j)
           J == o .. (k - 1)
           Abs(j) == FreeBlock(NodeOf(Bud(j)), j, Bud(j))
           absorbed == {Abs(j) : j \in J}
           new == FreeBlock(NodeOf(base), k, base)
<1>1. k \in o .. MaxOrder /\ \A j \in J : buddy_can_merge(j, Bud(j))
  BY MergeOrderStops
<1>2. k \in Orders /\ J \subseteq Orders
  <2> HIDE DEF k
  <2>1. QED  BY <1>1, OrderAssumption DEF Orders
<1>3. Block(base, k) = Block(p, o) \cup UNION {Block(Bud(j), j) : j \in J}
  BY <1>1, ClimbToOrder
<1>4. /\ filed' = (filed \ absorbed) \cup {new}
      /\ marker' = [q \in Pages |->
                      IF q = base THEN k
                      ELSE IF \E x \in absorbed : x.base = q THEN NotFree
                      ELSE marker[q]]
      /\ buddy_page_allocated' = buddy_page_allocated \ Block(base, k)
      /\ free_page_count' = free_page_count + BlockPages[o]
      /\ pmm_update_watermarks
  BY DEF InsertBlock, MarkMerged, CreditPages
<1>5. base \in Int /\ p \in Int
  <2>1. p \in Nat  BY OrderAssumption DEF Pages, Orders
  <2>2. QED  BY <2>1, <1>2, BlockPositive, DivisionWithRemainder DEF BlockBase
<1>6. \A j \in J : Abs(j) \in filed /\ PagesOf(Abs(j)) = Block(Bud(j), j)
  BY <1>1 DEF buddy_can_merge, PagesOf, FreeBlock
<1> HIDE DEF k, base, Bud, Abs, J
<1>7. absorbed \subseteq filed /\ UNION {Block(Bud(j), j) : j \in J} = UNION {PagesOf(x) : x \in absorbed}
  BY <1>6
<1>8. new.base = base /\ new.order = k /\ new.node = NodeOf(base) /\ PagesOf(new) = Block(base, k)
  BY DEF FreeBlock, PagesOf
<1>9. base \in Pages /\ Block(base, k) \subseteq Pages
  <2>1. UNION {PagesOf(x) : x \in absorbed} \subseteq FreePages
    BY <1>7 DEF FreePages
  <2>2. Block(base, k) \subseteq Pages  BY <2>1, <1>3, <1>7 DEF Consistent
  <2>3. QED  BY <2>2, <1>5, <1>2, BaseInBlock
<1>10. new \in [node : Nodes, order : Orders, base : Pages]
  <2>1. NodeOf(base) \in Nodes  BY <1>9, NodeAssumption DEF NodeOf, Nodes
  <2>2. QED  BY <2>1, <1>9, <1>2 DEF FreeBlock
<1> HIDE DEF new, absorbed
<1>11. FreePages' = FreePages \cup Block(p, o)
  <2>1. FreePages' = UNION {PagesOf(x) : x \in filed'}  BY DEF FreePages, PagesOf, Block
  <2>2. FreePages = (UNION {PagesOf(x) : x \in filed \ absorbed}) \cup UNION {PagesOf(x) : x \in absorbed}
    BY <1>7 DEF FreePages
  <2>3. UNION {PagesOf(x) : x \in filed'} = (UNION {PagesOf(x) : x \in filed \ absorbed}) \cup PagesOf(new)
    BY <1>4
  <2>4. QED  BY <2>1, <2>2, <2>3, <1>3, <1>7, <1>8
<1>12. buddy_page_allocated' = buddy_page_allocated \ Block(p, o)
  <2>1. (UNION {PagesOf(x) : x \in absorbed}) \cap buddy_page_allocated = {}
    BY <1>7 DEF Consistent, NoPageInTwoPlaces, FreePages
  <2>2. QED  BY <2>1, <1>3, <1>4, <1>7
<1>13. filed' \subseteq [node : Nodes, order : Orders, base : Pages]
  BY <1>4, <1>10 DEF Consistent
<1>14. \A x, y \in filed' : x # y => PagesOf(x) \cap PagesOf(y) = {}
  <2>1. \A x \in filed \ absorbed : PagesOf(x) \cap PagesOf(new) = {}
    <3> TAKE x \in filed \ absorbed
    <3>1. \A y \in absorbed : PagesOf(x) \cap PagesOf(y) = {}
      BY <1>7 DEF Consistent, NoPageInTwoPlaces
    <3>2. PagesOf(x) \subseteq FreePages  BY DEF FreePages
    <3>3. QED  BY <3>1, <3>2, <1>3, <1>7, <1>8
  <2>2. \A x, y \in filed \ absorbed : x # y => PagesOf(x) \cap PagesOf(y) = {}
    BY DEF Consistent, NoPageInTwoPlaces
  <2>3. QED  BY <2>1, <2>2, <1>4
<1>15. FreePages' \cap buddy_page_allocated' = {}
  BY <1>11, <1>12 DEF Consistent, NoPageInTwoPlaces
<1>16. NoPageInTwoPlaces'
  BY <1>14, <1>15 DEF NoPageInTwoPlaces, PagesOf, Block
<1>17. MarkersNameFreeBlocks'
  <2>1. \A x \in filed' : x.base \in PagesOf(x)
    BY <1>13, BaseInBlock DEF PagesOf, Pages
  <2>2. ASSUME NEW x \in filed'  PROVE marker'[x.base] = x.order
    <3>1. CASE x = new  BY <3>1, <1>4, <1>8, <1>9
    <3>2. CASE x # new
      <4>1. x \in filed \ absorbed  BY <3>2, <1>4
      <4>2. new \in filed' /\ base \in PagesOf(new)  BY <2>1, <1>4, <1>8
      <4>3. x.base # base  BY <4>2, <3>2, <2>1, <1>14
      <4>4. \A y \in absorbed : y.base # x.base
        <5> TAKE y \in absorbed
        <5>1. y # x /\ y \in filed /\ x \in filed  BY <4>1, <1>7
        <5>2. y.base \in PagesOf(y)
          BY <5>1, BaseInBlock DEF Consistent, PagesOf, Pages
        <5>3. PagesOf(x) \cap PagesOf(y) = {}  BY <5>1 DEF Consistent, NoPageInTwoPlaces
        <5>4. QED  BY <5>2, <5>3, <2>1
      <4>5. x.base \in Pages /\ x.order \in Orders  BY <1>13
      <4>6. marker'[x.base] = marker[x.base]  BY <4>3, <4>4, <4>5, <1>4
      <4>7. marker[x.base] = x.order
        BY <4>1, <4>5 DEF Consistent, MarkersNameFreeBlocks
      <4>8. QED  BY <4>6, <4>7
    <3>3. QED  BY <3>1, <3>2
  <2>3. ASSUME NEW q \in Pages, \A x \in filed' : x.base # q
        PROVE  marker'[q] = NotFree
    <3>1. q # base  BY <2>3, <1>4, <1>8
    <3>2. CASE \E x \in absorbed : x.base = q  BY <3>1, <3>2, <1>4
    <3>3. CASE ~ \E x \in absorbed : x.base = q
      <4>1. ~ \E x \in filed : x.base = q  BY <3>3, <2>3, <1>4
      <4>2. marker[q] = NotFree
        BY <4>1 DEF Consistent, MarkersNameFreeBlocks
      <4>3. QED  BY <4>2, <3>1, <3>3, <1>4
    <3>4. QED  BY <3>2, <3>3
  <2>4. QED  BY <2>2, <2>3, <1>13, MarkersStep
<1>18. CountIsExact'
  <2>1. IsFiniteSet(FreePages)
    <3>1. IsFiniteSet(Pages)  BY PagesFinite
    <3>2. QED  BY <3>1, FS_Subset DEF Consistent
  <2>2. IsFiniteSet(Block(p, o)) /\ Cardinality(Block(p, o)) = BlockPages[o]
    BY <1>5, BaseInBlock
  <2>3. FreePages \cap Block(p, o) = {}  OBVIOUS
  <2>4. Cardinality(FreePages \cup Block(p, o)) = Cardinality(FreePages) + BlockPages[o] - 0
    BY <2>1, <2>2, <2>3, FS_Union, FS_EmptySet
  <2>5. Cardinality(FreePages) = free_page_count /\ free_page_count \in Nat /\ BlockPages[o] \in Nat
    BY BlockPositive DEF Consistent, CountIsExact
  <2>6. Cardinality(FreePages') = free_page_count'  BY <2>4, <2>5, <1>4, <1>11
  <2>7. QED  BY <2>6 DEF CountIsExact
<1>19. free_page_count' \in Nat /\ watermark_low' \in Nat /\ watermark_high' \in Nat
  BY <1>4, BlockPositive DEF Consistent, pmm_update_watermarks
<1>20. marker' \in [Pages -> Orders \cup {NotFree}]
  BY <1>4, <1>2 DEF Consistent
<1>21. FreePages' \subseteq Pages /\ buddy_page_allocated' \subseteq Pages
  BY <1>11, <1>12 DEF Consistent
<1>22. QED
  BY <1>11, <1>12, <1>13, <1>16, <1>17, <1>18, <1>19, <1>20, <1>21
  DEF Consistent, Nodes, Orders, Pages, NotFree

\* Taking a block of order o out of a free block removes exactly the pages
\* handed out from the free pages and adds them to the ownership map.
LEMMA TakeStep ==
  ASSUME Consistent, NEW x \in filed, NEW o \in Orders, x.order >= o,
         TakeBlock(x, o)
  PROVE  /\ Consistent'
         /\ Block(x.base, o) \subseteq FreePages
         /\ FreePages' = FreePages \ Block(x.base, o)
         /\ buddy_page_allocated' = buddy_page_allocated \cup Block(x.base, o)
<1> DEFINE b == x.base
           f == x.order
           J == o .. (f - 1)
           Half(j) == FreeBlock(NodeOf(b + BlockPages[j]), j, b + BlockPages[j])
           halves == {Half(j) : j \in J}
           given == Block(b, o)
<1>1. /\ filed' = (filed \ {x}) \cup halves
      /\ marker' = [q \in Pages |->
                      IF \E h \in halves : h.base = q
                      THEN (CHOOSE h \in halves : h.base = q).order
                      ELSE IF q = b THEN NotFree ELSE marker[q]]
      /\ buddy_page_allocated' = (buddy_page_allocated \cup PagesOf(x))
                                   \ UNION {PagesOf(h) : h \in halves}
      /\ free_page_count' = free_page_count - BlockPages[o]
      /\ pmm_update_watermarks
  BY DEF TakeBlock, RightHalves, MarkSplit
<1>2. f \in Orders /\ b \in Pages /\ b \in Nat /\ b \in Int /\ o <= f /\ o \in Nat
  <2>1. f \in Orders /\ b \in Pages  BY DEF Consistent
  <2>2. Orders \subseteq Nat /\ Pages \subseteq Nat
    BY OrderAssumption DEF Pages, Orders
  <2>3. o <= f
    <3>1. f >= o /\ f \in Nat /\ o \in Nat  BY <2>1, <2>2
    <3> HIDE DEF f
    <3>2. QED  BY <3>1
  <2> HIDE DEF f, b
  <2>4. QED  BY <2>1, <2>2, <2>3
<1>3. J \subseteq Orders
  <2> HIDE DEF f
  <2>1. f \in Orders /\ o \in Nat  BY <1>2 DEF f
  <2>2. QED  BY <2>1, OrderAssumption DEF Orders
<1>4. \A j \in J : /\ Half(j).base = b + BlockPages[j] /\ Half(j).order = j
                   /\ Half(j).node = NodeOf(b + BlockPages[j])
                   /\ PagesOf(Half(j)) = Block(b + BlockPages[j], j)
  BY DEF FreeBlock, PagesOf
<1>5. /\ PagesOf(x) = given \cup UNION {Block(b + BlockPages[j], j) : j \in J}
      /\ \A j \in J : given \cap Block(b + BlockPages[j], j) = {}
      /\ \A i, j \in J : i # j =>
           Block(b + BlockPages[i], i) \cap Block(b + BlockPages[j], j) = {}
  BY <1>2, SplitPartition DEF PagesOf
<1>6. \A j \in J : Half(j) \in [node : Nodes, order : Orders, base : Pages]
  <2> TAKE j \in J
  <2>1. j \in Orders /\ BlockPages[j] \in Nat /\ b + BlockPages[j] \in Int
    BY <1>2, <1>3, BlockPositive
  <2>2. b + BlockPages[j] \in Block(b + BlockPages[j], j)  BY <2>1, BaseInBlock
  <2>3. b + BlockPages[j] \in Pages  BY <2>2, <1>5 DEF Consistent, FreePages
  <2>4. NodeOf(b + BlockPages[j]) \in Nodes  BY <2>3, NodeAssumption DEF NodeOf, Nodes
  <2>5. QED  BY <2>1, <2>3, <2>4 DEF FreeBlock
<1> HIDE DEF J, Half, b
<1>7. /\ PagesOf(x) = given \cup UNION {PagesOf(h) : h \in halves}
      /\ \A h \in halves : given \cap PagesOf(h) = {}
      /\ \A g, h \in halves : g # h => PagesOf(g) \cap PagesOf(h) = {}
      /\ halves \subseteq [node : Nodes, order : Orders, base : Pages]
  <2>1. UNION {Block(b + BlockPages[j], j) : j \in J} = UNION {PagesOf(h) : h \in halves}
    BY <1>4
  <2>2. \A g, h \in halves : g # h => PagesOf(g) \cap PagesOf(h) = {}
    BY <1>4, <1>5
  <2>3. QED  BY <2>1, <2>2, <1>4, <1>5, <1>6
<1> HIDE DEF halves, given
<1>8. \A y \in filed : y # x => PagesOf(y) \cap PagesOf(x) = {}
  BY DEF Consistent, NoPageInTwoPlaces
<1>9. given \subseteq FreePages /\ PagesOf(x) \subseteq FreePages
  BY <1>7 DEF FreePages
<1>10. FreePages' = FreePages \ given
  <2>1. FreePages' = UNION {PagesOf(y) : y \in filed'}  BY DEF FreePages, PagesOf, Block
  <2>2. FreePages = (UNION {PagesOf(y) : y \in filed \ {x}}) \cup PagesOf(x)
    BY DEF FreePages
  <2>3. UNION {PagesOf(y) : y \in filed'}
          = (UNION {PagesOf(y) : y \in filed \ {x}}) \cup UNION {PagesOf(h) : h \in halves}
    BY <1>1
  <2>4. (UNION {PagesOf(y) : y \in filed \ {x}}) \cap PagesOf(x) = {}  BY <1>8
  <2>5. (UNION {PagesOf(h) : h \in halves}) \cap given = {}  BY <1>7
  <2>6. QED  BY <2>1, <2>2, <2>3, <2>4, <2>5, <1>7
<1>11. buddy_page_allocated' = buddy_page_allocated \cup given
  <2>1. PagesOf(x) \cap buddy_page_allocated = {}
    BY <1>9 DEF Consistent, NoPageInTwoPlaces
  <2>2. (UNION {PagesOf(h) : h \in halves}) \cap given = {}  BY <1>7
  <2>3. QED  BY <2>1, <2>2, <1>1, <1>7
<1>12. filed' \subseteq [node : Nodes, order : Orders, base : Pages]
  BY <1>1, <1>7 DEF Consistent
<1>13. \A y, z \in filed' : y # z => PagesOf(y) \cap PagesOf(z) = {}
  <2>1. \A y \in filed \ {x}, h \in halves : PagesOf(y) \cap PagesOf(h) = {}
    BY <1>7, <1>8
  <2>2. \A y, z \in filed \ {x} : y # z => PagesOf(y) \cap PagesOf(z) = {}
    BY DEF Consistent, NoPageInTwoPlaces
  <2>3. QED  BY <2>1, <2>2, <1>1, <1>7
<1>14. NoPageInTwoPlaces'
  <2>1. FreePages' \cap buddy_page_allocated' = {}
    BY <1>10, <1>11 DEF Consistent, NoPageInTwoPlaces
  <2>2. QED  BY <2>1, <1>13 DEF NoPageInTwoPlaces, PagesOf, Block
<1>15. MarkersNameFreeBlocks'
  <2>1. \A y \in filed' : y.base \in PagesOf(y)
    BY <1>12, BaseInBlock DEF PagesOf, Pages
  <2>2. ASSUME NEW y \in filed'  PROVE marker'[y.base] = y.order
    <3>1. y.base \in Pages /\ y.order \in Orders  BY <1>12
    <3>2. CASE y \in halves
      <4>1. \A h \in halves : h.base = y.base => h = y
        <5> TAKE h \in halves
        <5>1. h \in filed' /\ h.base \in PagesOf(h) /\ y.base \in PagesOf(y)
          BY <1>1, <2>1
        <5>2. QED  BY <5>1, <3>2, <1>7
      <4>2. (CHOOSE h \in halves : h.base = y.base) = y  BY <3>2, <4>1
      <4>3. QED  BY <4>2, <3>1, <3>2, <1>1
    <3>3. CASE y \notin halves
      <4>1. y \in filed \ {x}  BY <3>3, <1>1
      <4>2. \A h \in halves : h.base # y.base  BY <3>3, <1>1, <1>13, <2>1
      <4>3. y.base # b
        <5>1. b \in Block(b, x.order)  BY <1>2, BaseInBlock
        <5>2. b \in PagesOf(x)  BY <5>1 DEF PagesOf, b
        <5>3. QED  BY <5>2, <4>1, <1>8, <2>1
      <4>4. marker'[y.base] = marker[y.base]  BY <4>2, <4>3, <3>1, <1>1
      <4>5. marker[y.base] = y.order
        BY <4>1, <3>1 DEF Consistent, MarkersNameFreeBlocks
      <4>6. QED  BY <4>4, <4>5
    <3>4. QED  BY <3>2, <3>3
  <2>3. ASSUME NEW q \in Pages, \A y \in filed' : y.base # q
        PROVE  marker'[q] = NotFree
    <3>1. ~ \E h \in halves : h.base = q  BY <2>3, <1>1
    <3>2. CASE q = b  BY <3>1, <3>2, <1>1
    <3>3. CASE q # b
      <4>1. ~ \E y \in filed : y.base = q  BY <2>3, <3>3, <1>1 DEF b
      <4>2. marker[q] = NotFree
        BY <4>1 DEF Consistent, MarkersNameFreeBlocks
      <4>3. QED  BY <4>2, <3>1, <3>3, <1>1
    <3>4. QED  BY <3>2, <3>3
  <2>4. QED  BY <2>2, <2>3, <1>12, MarkersStep
<1>16. CountIsExact' /\ free_page_count' \in Nat
  <2>1. IsFiniteSet(FreePages)
    <3>1. IsFiniteSet(Pages)  BY PagesFinite
    <3>2. QED  BY <3>1, FS_Subset DEF Consistent
  <2>2. Cardinality(given) = BlockPages[o]
    BY <1>2, BaseInBlock DEF given
  <2>3. FreePages \cap given = given  BY <1>9
  <2>4. Cardinality(FreePages \ given) = Cardinality(FreePages) - BlockPages[o]
        /\ IsFiniteSet(FreePages \ given)
    <3>1. /\ IsFiniteSet(FreePages \ given)
          /\ Cardinality(FreePages \ given)
               = Cardinality(FreePages) - Cardinality(FreePages \cap given)
      BY <2>1, FS_Difference
    <3>2. QED  BY <3>1, <2>2, <2>3
  <2>5. Cardinality(FreePages \ given) \in Nat  BY <2>4, FS_CardinalityType
  <2>6. Cardinality(FreePages') = free_page_count'
    BY <2>4, <1>1, <1>10 DEF Consistent, CountIsExact
  <2>7. QED  BY <2>5, <2>6, <1>10 DEF CountIsExact
<1>17. watermark_low' \in Nat /\ watermark_high' \in Nat
  BY <1>1, <1>16 DEF Consistent, pmm_update_watermarks
<1>18. marker' \in [Pages -> Orders \cup {NotFree}]
  <2>1. ASSUME NEW q \in Pages  PROVE marker'[q] \in Orders \cup {NotFree}
    <3>1. CASE \E h \in halves : h.base = q
      <4>1. (CHOOSE h \in halves : h.base = q) \in halves  BY <3>1
      <4>2. QED  BY <4>1, <3>1, <1>1, <1>7
    <3>2. CASE ~ \E h \in halves : h.base = q
      BY <3>2, <1>1 DEF Consistent
    <3>3. QED  BY <3>1, <3>2
  <2>2. QED  BY <2>1, <1>1
<1>19. FreePages' \subseteq Pages /\ buddy_page_allocated' \subseteq Pages
  BY <1>9, <1>10, <1>11 DEF Consistent
<1>20. QED
  BY <1>9, <1>10, <1>11, <1>12, <1>14, <1>15, <1>16, <1>17, <1>18, <1>19
  DEF Consistent, Nodes, Orders, Pages, NotFree, given, b
-----------------------------------------------------------------------------
(* The inductive invariant *)

\* A block of order 0 is a single page.
LEMMA SinglePage ==
  ASSUME NEW p \in Pages
  PROVE  /\ 0 \in Orders /\ Block(p, 0) = {p}
         /\ buddy_is_order_aligned(p, 0)
BY OrderAssumption DEF Pages, Orders, Block, buddy_is_order_aligned

\* The allocator's bookkeeping is the part of the invariant the steps change.
LEMMA InvIsConsistent == BuddyInv => Consistent
BY PageAssumption DEF BuddyInv, Consistent, TypeOK, NoPageLost

\* The free lists are empty before the first pass.
LEMMA InitInv == Init => BuddyInv
<1> SUFFICES ASSUME Init PROVE BuddyInv
  OBVIOUS
<1>1. NotFree \notin Orders  BY OrderAssumption DEF NotFree, Orders
<1>2. FreePages = {}  BY DEF Init, FreePages
<1>3. TypeOK  BY DEF Init, TypeOK
<1>4. NoPageInTwoPlaces  BY <1>2 DEF Init, NoPageInTwoPlaces
<1>5. NoPageLost  BY <1>2 DEF Init, NoPageLost
<1>6. MarkersNameFreeBlocks  BY <1>1 DEF Init, MarkersNameFreeBlocks
<1>7. CountIsExact  BY <1>2, FS_EmptySet DEF Init, CountIsExact
<1>8. QED  BY <1>3, <1>4, <1>5, <1>6, <1>7 DEF BuddyInv

\* Every step of boot and of the allocator's interface keeps the invariant.
LEMMA NextInv == BuddyInv /\ [Next]_vars => BuddyInv'
<1> SUFFICES ASSUME BuddyInv, [Next]_vars  PROVE BuddyInv'
  OBVIOUS
<1> USE DEF counts
<1>0. Consistent  BY InvIsConsistent
<1>1. ASSUME NEW p \in pending, InsertBlock(p, 0), pending' = pending \ {p},
             UNCHANGED <<phase, withheld, counts>>
      PROVE  BuddyInv'
  <2>1. p \in Pages /\ p \notin FreePages /\ p \notin buddy_page_allocated
    BY <1>1, PageAssumption DEF BuddyInv, TypeOK, NoPageLost
  <2>2. /\ 0 \in Orders /\ Block(p, 0) = {p} /\ buddy_is_order_aligned(p, 0)
        /\ Block(p, 0) \subseteq Pages /\ Block(p, 0) \cap FreePages = {}
    BY <2>1, SinglePage
  <2>3. /\ Consistent' /\ FreePages' = FreePages \cup {p}
        /\ buddy_page_allocated' = buddy_page_allocated \ {p}
    BY <1>0, <1>1, <2>1, <2>2, InsertStep
  <2>4. NoPageLost'
    <3>1. p \in BootPages \cup ExtendPages /\ p \notin withheld
      BY <1>1 DEF BuddyInv, TypeOK
    <3>2. QED  BY <3>1, <1>1, <2>1, <2>3 DEF BuddyInv, NoPageLost
  <2>5. TypeOK'  BY <1>1, <2>3 DEF BuddyInv, TypeOK, Consistent
  <2>6. QED  BY <2>3, <2>4, <2>5 DEF BuddyInv, Consistent
<1>2. ASSUME UNCHANGED <<filed, marker, buddy_page_allocated, free_page_count,
                         watermark_low, watermark_high>>,
             TypeOK', pending' \cup withheld' = pending \cup withheld
      PROVE  BuddyInv'
  <2>1. FreePages' = FreePages  BY <1>2 DEF FreePages, PagesOf, Block
  <2>2. NoPageInTwoPlaces'
    BY <1>2, <2>1 DEF BuddyInv, NoPageInTwoPlaces, PagesOf, Block
  <2>3. NoPageLost'  BY <1>2, <2>1 DEF BuddyInv, NoPageLost
  <2>4. MarkersNameFreeBlocks'
    BY <1>2 DEF BuddyInv, MarkersNameFreeBlocks, Pages, Orders
  <2>5. CountIsExact'  BY <1>2, <2>1 DEF BuddyInv, CountIsExact
  <2>6. QED  BY <1>2, <2>2, <2>3, <2>4, <2>5 DEF BuddyInv
<1>3. CASE \E p \in BootPages : PopulateBoot(p)
  BY <1>1, <1>3 DEF PopulateBoot
<1>4. CASE EndPass1
  <2>1. TypeOK'  BY <1>4 DEF BuddyInv, TypeOK, EndPass1
  <2>2. QED  BY <2>1, <1>2, <1>4 DEF EndPass1
<1>5. CASE numa_policy_initialize
  <2>1. TypeOK'  BY <1>5 DEF BuddyInv, TypeOK, numa_policy_initialize
  <2>2. QED  BY <2>1, <1>2, <1>5 DEF numa_policy_initialize
<1>6. CASE \E p \in ExtendPages : PopulateExtend(p)
  BY <1>1, <1>6 DEF PopulateExtend
<1>7. CASE \E p \in ExtendPages : SkipUnmappable(p)
  <2>1. PICK p \in ExtendPages : SkipUnmappable(p)  BY <1>7
  <2>2. pending' \cup withheld' = pending \cup withheld  BY <2>1 DEF SkipUnmappable
  <2>3. TypeOK'  BY <2>1 DEF BuddyInv, TypeOK, SkipUnmappable
  <2>4. QED  BY <2>1, <2>2, <2>3, <1>2 DEF SkipUnmappable
<1>8. CASE EndPass2
  <2>1. TypeOK'  BY <1>8 DEF BuddyInv, TypeOK, EndPass2
  <2>2. QED  BY <2>1, <1>2, <1>8 DEF EndPass2
<1>9. CASE \E o \in Orders : Allocate(o)
  <2>1. PICK o \in Orders : Allocate(o)  BY <1>9
  <2>2. PICK x \in Candidates(o) : TakeBlock(x, o)  BY <2>1 DEF Allocate
  <2>3. x \in filed /\ x.order >= o  BY DEF Candidates
  <2>4. /\ Consistent'
        /\ Block(x.base, o) \subseteq FreePages
        /\ FreePages' = FreePages \ Block(x.base, o)
        /\ buddy_page_allocated' = buddy_page_allocated \cup Block(x.base, o)
    BY <1>0, <2>2, <2>3, TakeStep
  <2>5. UNCHANGED <<phase, pending, withheld, counts>>  BY <2>1 DEF Allocate
  <2>6. TypeOK'  BY <2>4, <2>5 DEF BuddyInv, TypeOK, Consistent
  <2>7. NoPageLost'  BY <2>4, <2>5 DEF BuddyInv, NoPageLost
  <2>8. QED  BY <2>4, <2>6, <2>7 DEF BuddyInv, Consistent
<1>10. CASE \E p \in AnyPage, o \in AnyOrder : Free(p, o)
  <2>1. PICK p \in AnyPage, o \in AnyOrder : Free(p, o)  BY <1>10
  <2>2. /\ p \in Pages /\ o \in Orders /\ buddy_is_order_aligned(p, o)
        /\ Block(p, o) \subseteq buddy_page_allocated /\ InsertBlock(p, o)
        /\ UNCHANGED <<phase, pending, withheld, counts>>
    BY <2>1 DEF Free, GoodArgument, buddy_range_is_allocated
  <2>3. Block(p, o) \subseteq Pages /\ Block(p, o) \cap FreePages = {}
    BY <2>2 DEF BuddyInv, TypeOK, NoPageInTwoPlaces
  <2>4. /\ Consistent'
        /\ FreePages' = FreePages \cup Block(p, o)
        /\ buddy_page_allocated' = buddy_page_allocated \ Block(p, o)
    BY <1>0, <2>2, <2>3, InsertStep
  <2>5. TypeOK'  BY <2>2, <2>4 DEF BuddyInv, TypeOK, Consistent
  <2>6. NoPageLost'  BY <2>2, <2>4 DEF BuddyInv, NoPageLost
  <2>7. QED  BY <2>4, <2>5, <2>6 DEF BuddyInv, Consistent
<1>11. CASE \E p \in AnyPage, o \in AnyOrder : RejectFree(p, o)
  <2>1. PICK p \in AnyPage, o \in AnyOrder : RejectFree(p, o)  BY <1>11
  <2>2. TypeOK'
    <3>1. /\ buddy_rejected_free_count' \in Nat
          /\ buddy_double_free_count' \in Nat
      BY <2>1 DEF BuddyInv, TypeOK, RejectFree
    <3>2. QED  BY <2>1, <3>1 DEF BuddyInv, TypeOK, RejectFree
  <2>3. QED  BY <2>1, <2>2, <1>2 DEF RejectFree
<1>12. CASE UNCHANGED vars
  <2>1. TypeOK'  BY <1>12 DEF BuddyInv, TypeOK, vars
  <2>2. QED  BY <2>1, <1>2, <1>12 DEF vars
<1>13. QED
  BY <1>3, <1>4, <1>5, <1>6, <1>7, <1>8, <1>9, <1>10, <1>11, <1>12 DEF Next

\* A step that leaves the free lists and the ownership map alone moves no page.
\* The steps that change them take pages that are free, or return pages that are
\* allocated; the population passes release new ones, before phase "run".
LEMMA NextMoves ==
  BuddyInv /\ [Next]_vars =>
    /\ buddy_page_allocated' \ buddy_page_allocated \subseteq FreePages
    /\ phase = "run" => FreePages' \ FreePages \subseteq buddy_page_allocated
<1> SUFFICES ASSUME BuddyInv, [Next]_vars
             PROVE  /\ buddy_page_allocated' \ buddy_page_allocated \subseteq FreePages
                    /\ phase = "run" => FreePages' \ FreePages \subseteq buddy_page_allocated
  OBVIOUS
<1>0. Consistent  BY InvIsConsistent
<1>1. ASSUME NEW p \in pending, InsertBlock(p, 0), phase # "run"
      PROVE  buddy_page_allocated' \subseteq buddy_page_allocated
  <2>1. p \in Pages /\ p \notin FreePages
    BY <1>1, PageAssumption DEF BuddyInv, TypeOK, NoPageLost
  <2>2. /\ 0 \in Orders /\ Block(p, 0) = {p} /\ buddy_is_order_aligned(p, 0)
        /\ Block(p, 0) \subseteq Pages /\ Block(p, 0) \cap FreePages = {}
    BY <2>1, SinglePage
  <2>3. buddy_page_allocated' = buddy_page_allocated \ {p}
    BY <1>0, <1>1, <2>1, <2>2, InsertStep
  <2>4. QED  BY <2>3
<1>2. ASSUME UNCHANGED <<filed, buddy_page_allocated>>
      PROVE  FreePages' = FreePages /\ buddy_page_allocated' = buddy_page_allocated
  BY <1>2 DEF FreePages, PagesOf, Block
<1>3. CASE \E p \in BootPages : PopulateBoot(p)
  BY <1>1, <1>3 DEF PopulateBoot
<1>4. CASE \E p \in ExtendPages : PopulateExtend(p)
  BY <1>1, <1>4 DEF PopulateExtend
<1>5. CASE EndPass1 \/ numa_policy_initialize \/ EndPass2
  BY <1>2, <1>5 DEF EndPass1, numa_policy_initialize, EndPass2
<1>6. CASE \E p \in ExtendPages : SkipUnmappable(p)
  BY <1>2, <1>6 DEF SkipUnmappable
<1>7. CASE \E o \in Orders : Allocate(o)
  <2>1. PICK o \in Orders : Allocate(o)  BY <1>7
  <2>2. PICK x \in Candidates(o) : TakeBlock(x, o)  BY <2>1 DEF Allocate
  <2>3. x \in filed /\ x.order >= o  BY DEF Candidates
  <2>4. /\ Block(x.base, o) \subseteq FreePages
        /\ FreePages' = FreePages \ Block(x.base, o)
        /\ buddy_page_allocated' = buddy_page_allocated \cup Block(x.base, o)
    BY <1>0, <2>2, <2>3, TakeStep
  <2>5. QED  BY <2>4
<1>8. CASE \E p \in AnyPage, o \in AnyOrder : Free(p, o)
  <2>1. PICK p \in AnyPage, o \in AnyOrder : Free(p, o)  BY <1>8
  <2>2. /\ p \in Pages /\ o \in Orders /\ buddy_is_order_aligned(p, o)
        /\ Block(p, o) \subseteq buddy_page_allocated /\ InsertBlock(p, o)
    BY <2>1 DEF Free, GoodArgument, buddy_range_is_allocated
  <2>3. Block(p, o) \subseteq Pages /\ Block(p, o) \cap FreePages = {}
    BY <2>2 DEF BuddyInv, TypeOK, NoPageInTwoPlaces
  <2>4. /\ FreePages' = FreePages \cup Block(p, o)
        /\ buddy_page_allocated' = buddy_page_allocated \ Block(p, o)
    BY <1>0, <2>2, <2>3, InsertStep
  <2>5. QED  BY <2>2, <2>4
<1>9. CASE \E p \in AnyPage, o \in AnyOrder : RejectFree(p, o)
  BY <1>2, <1>9 DEF RejectFree
<1>10. CASE UNCHANGED vars
  BY <1>2, <1>10 DEF vars
<1>11. QED
  BY <1>3, <1>4, <1>5, <1>6, <1>7, <1>8, <1>9, <1>10 DEF Next
-----------------------------------------------------------------------------
(* Coalescing *)

\* A block lies at a multiple of its size.
Aligned == \A x \in filed : buddy_is_order_aligned(x.base, x.order)

\* Before the SRAT is read every block is filed under node 0.
EarlyNodes == phase \in {"pass1", "numa"} => \A x \in filed : x.node = 0

CoalescedInv == BuddyInv /\ Aligned /\ EarlyNodes /\ FullyCoalesced

\* The buddy of the buddy is the block itself, and never its own buddy.
LEMMA BuddyOfBuddy ==
  ASSUME NEW b \in Nat, NEW o \in Orders, Buddy(b, o) \in Nat
  PROVE  Buddy(Buddy(b, o), o) = b /\ Buddy(b, o) # b
<1> DEFINE s == BlockPages[o]
           q == b \div s
           r == b % s
<1>1. s \in Nat \ {0}
  BY BlockPositive
<1>2. q \in Nat /\ r \in 0 .. s - 1 /\ b = (q * s) + r
  BY <1>1, DivisionWithRemainder
<1>3. \A x : Buddy(x, o) = IF (x \div s) % 2 = 0 THEN x + s ELSE x - s
  BY DEF Buddy
<1>a. Buddy(b, o) = IF q % 2 = 0 THEN b + s ELSE b - s
  BY <1>3
<1> HIDE DEF s, q, r
<1>4. q * s \in Nat
  BY <1>1, <1>2
<1>5. CASE q % 2 = 0
  <2>1. Buddy(b, o) = b + s
    BY <1>a, <1>5
  <2>2. (q + 1) * s = (q * s) + s /\ b + s \in Nat /\ q + 1 \in Nat
    BY <1>1, <1>2
  <2>3. b + s = ((q + 1) * s) + r
    BY <1>1, <1>2, <1>4, <2>2
  <2>4. (b + s) \div s = q + 1
    BY <1>1, <1>2, <2>2, <2>3, DivisionUnique
  <2>5. (q + 1) % 2 # 0
    BY <1>2, <1>5
  <2>6. Buddy(b + s, o) = (b + s) - s
    <3>1. Buddy(b + s, o) = IF ((b + s) \div s) % 2 = 0 THEN (b + s) + s ELSE (b + s) - s
      BY DEF Buddy, s
    <3> QED
      BY <2>4, <2>5, <3>1
  <2> QED
    BY <1>1, <2>1, <2>6
<1>6. CASE q % 2 # 0
  <2>1. Buddy(b, o) = b - s /\ b - s \in Nat
    BY <1>a, <1>6
  <2>2. q # 0
    BY <1>6
  <2>3. (q - 1) * s = (q * s) - s /\ q - 1 \in Nat
    BY <1>1, <1>2, <2>2
  <2>4. b - s = ((q - 1) * s) + r
    BY <1>1, <1>2, <1>4, <2>3
  <2>5. (b - s) \div s = q - 1
    BY <1>1, <1>2, <2>1, <2>3, <2>4, DivisionUnique
  <2>6. (q - 1) % 2 = 0
    BY <1>2, <1>6, <2>2
  <2>7. Buddy(b - s, o) = b - s + s
    BY <1>3, <2>5, <2>6
  <2> QED
    BY <1>1, <2>1, <2>7
<1> QED
  BY <1>5, <1>6

\* What is aligned to an order is aligned to the lower ones.
LEMMA AlignedBelow ==
  ASSUME NEW b \in Nat, NEW j \in Orders, NEW f \in Orders, j <= f, b % BlockPages[f] = 0
  PROVE  b % BlockPages[j] = 0
<1> DEFINE T == {k \in j .. f : b % BlockPages[k] = 0}
<1>1. j \in Nat /\ f \in Nat /\ j .. f \subseteq Orders
  BY OrderAssumption DEF Orders
<1>2. T \in SUBSET Nat /\ f \in T
  BY <1>1
<1>3. PICK m \in T : \A y \in T : m <= y
  BY <1>2, LeastNatural
<1>4. CASE m > j
  <2> DEFINE s == BlockPages[m - 1]
             q == b \div BlockPages[m]
  <2>1. m - 1 \in j .. f /\ m - 1 \in Orders /\ m - 1 < MaxOrder /\ m \in Orders
    BY <1>1, <1>3, <1>4, OrderAssumption DEF Orders
  <2>2. BlockPages[m] = 2 * s /\ s \in Nat \ {0} /\ BlockPages[m] \in Nat \ {0}
    <3>1. BlockPages[(m - 1) + 1] = 2 * BlockPages[m - 1]
      BY <2>1, OrderAssumption
    <3>2. (m - 1) + 1 = m
      BY <1>1, <1>3
    <3> QED
      BY <2>1, <3>1, <3>2, BlockPositive
  <2>3. q \in Nat /\ b = (q * BlockPages[m]) + 0
    <3>1. b % BlockPages[m] = 0
      BY <1>3
    <3> QED
      BY <2>2, <3>1, DivisionWithRemainder
  <2> HIDE DEF s, q
  <2>4. b = ((q * 2) * s) + 0 /\ q * 2 \in Nat
    BY <2>2, <2>3
  <2>5. b % s = 0
    BY <2>2, <2>4, DivisionUnique
  <2>6. m - 1 \in T
    BY <2>1, <2>5 DEF s
  <2> QED
    BY <1>1, <1>3, <2>6
<1>5. CASE m = j
  BY <1>3, <1>5
<1> QED
  BY <1>1, <1>3, <1>4, <1>5

\* A right half left by a split is the buddy of the left half at the popped base.
LEMMA HalfBuddy ==
  ASSUME NEW b \in Nat, NEW j \in Orders, NEW f \in Orders, j < f, b % BlockPages[f] = 0
  PROVE  /\ (b + BlockPages[j]) % BlockPages[j] = 0
         /\ Buddy(b + BlockPages[j], j) = b
<1> DEFINE s == BlockPages[j]
           d == BlockPages[j + 1]
           q == b \div d
<1>1. j + 1 \in Orders /\ j + 1 <= f /\ j < MaxOrder
  BY OrderAssumption DEF Orders
<1>2. d = 2 * s /\ s \in Nat \ {0} /\ d \in Nat \ {0}
  BY <1>1, BlockPositive, OrderAssumption
<1>3. b % d = 0
  BY <1>1, <1>2, AlignedBelow
<1> HIDE DEF s, d
<1>4. q \in Nat /\ b = (q * d) + 0
  <2>0. d \in Nat \ {0}
    BY <1>2
  <2>1. b \div d \in Nat /\ b = ((b \div d) * d) + (b % d)
    BY <2>0, DivisionWithRemainder
  <2> QED
    BY <1>3, <2>1
<1> HIDE DEF q
<1>5. b + s = (((2 * q) + 1) * s) + 0 /\ (2 * q) + 1 \in Nat /\ b + s \in Nat
  BY <1>2, <1>4
<1>6. (b + s) \div s = (2 * q) + 1 /\ (b + s) % s = 0
  <2> DEFINE e == b + s
             c == (2 * q) + 1
  <2>1. 0 \in 0 .. s - 1 /\ s \in Nat \ {0} /\ e \in Nat /\ c \in Nat /\ e = (c * s) + 0
    BY <1>2, <1>5
  <2> HIDE DEF e, c
  <2>2. e \div s = c /\ e % s = 0
    BY <2>1, DivisionUnique
  <2> QED
    BY <2>2 DEF e, c
<1>7. ((2 * q) + 1) % 2 # 0
  BY <1>4
<1>8. Buddy(b + s, j) = (b + s) - s
  <2>1. Buddy(b + s, j) = IF ((b + s) \div s) % 2 = 0 THEN (b + s) + s ELSE (b + s) - s
    BY DEF Buddy, s
  <2> QED
    BY <1>6, <1>7, <2>1
<1> QED
  BY <1>2, <1>6, <1>8 DEF s

\* An insertion leaves no pair of free buddies: the merge loop stopped because the
\* buddy of the merged block is not in the list it looked in.
LEMMA InsertCoalesces ==
  ASSUME CoalescedInv, NEW p \in Pages, NEW o \in Orders, InsertBlock(p, o),
         filed' \subseteq [node : Nodes, order : Orders, base : Pages], phase' = phase
  PROVE  Aligned' /\ EarlyNodes' /\ FullyCoalesced'
<1> DEFINE k == MergeOrder(p, o)
           base == BlockBase(p, k)
           new == FreeBlock(NodeOf(base), k, base)
           absorbed == {FreeBlock(NodeOf(Buddy(BlockBase(p, j), j)), j, Buddy(BlockBase(p, j), j))
                          : j \in o .. (k - 1)}
<1>1. k \in o .. MaxOrder /\ (k < MaxOrder => ~ buddy_can_merge(k, Buddy(base, k)))
  BY MergeOrderStops
<1>2. filed' = (filed \ absorbed) \cup {new}
  BY DEF InsertBlock
<1>3. new.base = base /\ new.order = k /\ new.node = NodeOf(base) /\ new \in filed'
  BY <1>2 DEF FreeBlock
<1> HIDE DEF k, base, new, absorbed
<1>4. k \in Orders /\ base \in Pages /\ p \in Nat
  BY <1>3, OrderAssumption DEF Pages, Orders
<1>5. \A x \in filed' : x \in filed \/ x = new
  BY <1>2
<1>6. \A q : NodeOf(q)' = NodeOf(q)
  BY DEF NodeOf
<1>7. Aligned'
  <2>1. base % BlockPages[k] = 0
    <3>1. BlockPages[k] \in Nat \ {0}
      BY <1>4, BlockPositive
    <3> DEFINE s == BlockPages[k]
               q == p \div s
    <3>2. q \in Nat /\ p % s \in 0 .. s - 1 /\ p = (q * s) + (p % s)
      BY <1>4, <3>1, DivisionWithRemainder
    <3>3. base = p - (p % s)
      BY DEF base, BlockBase
    <3> HIDE DEF q, s
    <3>4. base = (q * s) + 0 /\ base \in Nat /\ s \in Nat \ {0}
      <4>1. s \in Nat \ {0}
        BY <3>1 DEF s
      <4>2. q * s \in Nat
        BY <3>2, <4>1
      <4> QED
        BY <1>4, <3>2, <3>3, <4>1, <4>2
    <3>5. base % s = 0
      <4>1. 0 \in 0 .. s - 1 /\ q \in Nat
        BY <3>2, <3>4
      <4> QED
        BY <3>4, <4>1, DivisionUnique
    <3> QED
      BY <3>5 DEF s
  <2> QED
    BY <1>3, <1>5, <2>1 DEF CoalescedInv, Aligned, buddy_is_order_aligned
<1>8. EarlyNodes'
  BY <1>3, <1>5 DEF CoalescedInv, EarlyNodes, NodeOf
<1>9. ASSUME NEW y \in filed, y.order = k, k < MaxOrder, y.base = Buddy(base, k),
             y.node = NodeOf(y.base)
      PROVE  FALSE
  <2>1. y \in [node : Nodes, order : Orders, base : Pages]
    BY DEF CoalescedInv, BuddyInv, TypeOK
  <2>2. marker[y.base] = k
    BY <1>4, <1>9, <2>1 DEF CoalescedInv, BuddyInv, MarkersNameFreeBlocks
  <2>3. y = FreeBlock(NodeOf(y.base), k, y.base)
    BY <1>9, <2>1 DEF FreeBlock
  <2> QED
    BY <1>1, <1>9, <2>1, <2>2, <2>3 DEF buddy_can_merge
<1>10. \A x \in filed' : x.base \in Nat /\ x.order \in Orders
  BY OrderAssumption DEF Pages, Orders
<1>11. ASSUME NEW x \in filed', NEW y \in filed', x.order = y.order, x.order < MaxOrder,
              y.base = Buddy(x.base, x.order), x.node = NodeOf(x.base), y.node = NodeOf(y.base)
       PROVE  FALSE
  <2>1. x.base = Buddy(y.base, y.order) /\ x.base # y.base
    BY <1>10, <1>11, BuddyOfBuddy
  <2>2. CASE x = new
    <3>1. y \in filed
      BY <1>5, <2>1, <2>2
    <3> QED
      BY <1>3, <1>9, <1>11, <2>2, <3>1
  <2>3. CASE y = new
    <3>1. x \in filed
      BY <1>5, <2>1, <2>3
    <3> QED
      BY <1>3, <1>9, <1>11, <2>1, <2>3, <3>1
  <2>4. CASE x \in filed /\ y \in filed
    BY <1>11, <2>4 DEF CoalescedInv, FullyCoalesced
  <2> QED
    BY <1>5, <2>2, <2>3, <2>4
<1>12. FullyCoalesced'
  <2> SUFFICES ASSUME NEW x \in filed', NEW y \in filed', x.order = y.order, x.order < MaxOrder,
                      y.base = Buddy(x.base, x.order)
               PROVE  x.node # NodeOf(x.base)' \/ y.node # NodeOf(y.base)'
    BY DEF FullyCoalesced, NodeOf, Buddy
  <2> QED
    BY <1>6, <1>11
<1> QED
  BY <1>7, <1>8, <1>12

\* Neither does a split: the buddy of a right half is the popped base, and no other block
\* begins there.
LEMMA TakeCoalesces ==
  ASSUME CoalescedInv, NEW x \in filed, NEW o \in Orders, x.order >= o, TakeBlock(x, o),
         filed' \subseteq [node : Nodes, order : Orders, base : Pages],
         phase' = phase, phase \notin {"pass1", "numa"}
  PROVE  Aligned' /\ EarlyNodes' /\ FullyCoalesced'
<1> DEFINE b == x.base
           f == x.order
           halves == RightHalves(b, f, o)
<1>1. filed' = (filed \ {x}) \cup halves
  BY DEF TakeBlock
<1>2. /\ f \in Orders /\ b \in Pages /\ b \in Nat /\ o \in Nat /\ f \in Nat
      /\ x \in [node : Nodes, order : Orders, base : Pages]
      /\ b % BlockPages[f] = 0
  <2>1. x \in [node : Nodes, order : Orders, base : Pages]
    BY DEF CoalescedInv, BuddyInv, TypeOK
  <2>2. b % BlockPages[f] = 0
    BY DEF CoalescedInv, Aligned, buddy_is_order_aligned
  <2>3. f \in Orders /\ b \in Pages
    BY <2>1
  <2> HIDE DEF b, f
  <2> QED
    BY <2>1, <2>2, <2>3, OrderAssumption DEF Orders, Pages
<1>3. ASSUME NEW h \in halves
      PROVE  h.order \in Orders /\ h.order < f /\ h.base = b + BlockPages[h.order]
  <2> HIDE DEF b, f
  <2>1. PICK j \in o .. (f - 1) : h = FreeBlock(NodeOf(b + BlockPages[j]), j, b + BlockPages[j])
    BY DEF halves, RightHalves
  <2>2. h.order = j /\ h.base = b + BlockPages[j]
    BY <2>1 DEF FreeBlock
  <2>3. j \in Orders /\ j < f
    BY <1>2, OrderAssumption DEF Orders
  <2> QED
    BY <2>2, <2>3
<1> HIDE DEF b, f, halves
<1>4. ASSUME NEW h \in halves
      PROVE  /\ h.base % BlockPages[h.order] = 0
             /\ Buddy(h.base, h.order) = b
  <2>1. h.order \in Orders /\ h.order < f /\ h.base = b + BlockPages[h.order]
    BY <1>3
  <2>2. /\ (b + BlockPages[h.order]) % BlockPages[h.order] = 0
        /\ Buddy(b + BlockPages[h.order], h.order) = b
    BY <1>2, <2>1, HalfBuddy
  <2> QED
    BY <2>1, <2>2
<1>5. \A y \in filed \ {x} : y.base # b
  <2> SUFFICES ASSUME NEW y \in filed, y # x, y.base = b PROVE FALSE
    OBVIOUS
  <2>1. PagesOf(x) \cap PagesOf(y) = {} /\ y.order \in Orders /\ b \in Int
    BY <1>2 DEF CoalescedInv, BuddyInv, NoPageInTwoPlaces, TypeOK
  <2>2. b \in PagesOf(x) /\ b \in PagesOf(y)
    BY <1>2, <2>1, BaseInBlock DEF PagesOf, b, f
  <2> QED
    BY <2>1, <2>2
<1>6. \A h \in halves : h.base # b
  <2> SUFFICES ASSUME NEW h \in halves PROVE h.base # b
    OBVIOUS
  <2>1. BlockPages[h.order] \in Nat \ {0}
    BY <1>3, BlockPositive
  <2> QED
    BY <1>2, <1>3, <2>1
<1>7. Aligned'
  BY <1>1, <1>4 DEF CoalescedInv, Aligned, buddy_is_order_aligned
<1>8. EarlyNodes'
  BY DEF EarlyNodes
<1>9. \A y \in filed' : y.base \in Nat /\ y.order \in Orders
  BY OrderAssumption DEF Pages, Orders
<1>10. FullyCoalesced'
  <2> SUFFICES ASSUME NEW y \in filed', NEW z \in filed', y.order = z.order, y.order < MaxOrder,
                      z.base = Buddy(y.base, y.order),
                      y.node = NodeOf(y.base)', z.node = NodeOf(z.base)'
               PROVE  FALSE
    BY DEF FullyCoalesced, NodeOf, Buddy
  <2>1. y.base = Buddy(z.base, z.order)
    BY <1>9, BuddyOfBuddy
  <2>2. y \notin halves
    BY <1>1, <1>4, <1>5, <1>6
  <2>3. z \notin halves
    BY <1>1, <1>4, <1>5, <1>6, <2>1
  <2>4. y \in filed /\ z \in filed /\ y.node = NodeOf(y.base) /\ z.node = NodeOf(z.base)
    BY <1>1, <2>2, <2>3 DEF NodeOf
  <2> QED
    BY <2>4 DEF CoalescedInv, FullyCoalesced
<1> QED
  BY <1>7, <1>8, <1>10

\* Every step of boot and of the allocator's interface keeps the free lists coalesced; when
\* the SRAT moves the nodes under the filed blocks no pair of free buddies is left at all.
LEMMA NextCoalesces == CoalescedInv /\ [Next]_vars => CoalescedInv'
<1> SUFFICES ASSUME CoalescedInv, [Next]_vars PROVE CoalescedInv'
  OBVIOUS
<1>1. BuddyInv' /\ filed' \subseteq [node : Nodes, order : Orders, base : Pages]
  BY NextInv DEF CoalescedInv, BuddyInv, TypeOK
<1>2. ASSUME NEW p \in Pages, NEW o \in Orders, InsertBlock(p, o), phase' = phase
      PROVE  CoalescedInv'
  BY <1>1, <1>2, InsertCoalesces DEF CoalescedInv
<1>3. ASSUME UNCHANGED filed, phase' \in {"pass1", "numa"} <=> phase \in {"pass1", "numa"}
      PROVE  CoalescedInv'
  <2>1. Aligned' /\ EarlyNodes'
    BY <1>3 DEF CoalescedInv, Aligned, EarlyNodes, buddy_is_order_aligned
  <2>2. \A q : NodeOf(q)' = NodeOf(q)
    BY <1>3 DEF NodeOf
  <2>3. FullyCoalesced'
    BY <1>3, <2>2 DEF CoalescedInv, FullyCoalesced, Buddy
  <2> QED
    BY <1>1, <2>1, <2>3 DEF CoalescedInv
<1>4. CASE \E p \in BootPages : PopulateBoot(p)
  <2>1. PICK p \in BootPages : PopulateBoot(p)
    BY <1>4
  <2>2. p \in Pages /\ 0 \in Orders
    BY PageAssumption, OrderAssumption DEF Orders
  <2> QED
    BY <1>2, <2>1, <2>2 DEF PopulateBoot
<1>5. CASE \E p \in ExtendPages : PopulateExtend(p)
  <2>1. PICK p \in ExtendPages : PopulateExtend(p)
    BY <1>5
  <2>2. p \in Pages /\ 0 \in Orders
    BY PageAssumption, OrderAssumption DEF Orders
  <2> QED
    BY <1>2, <2>1, <2>2 DEF PopulateExtend
<1>6. CASE numa_policy_initialize
  <2>1. UNCHANGED filed /\ phase = "numa" /\ phase' = "pass2"
    BY <1>6 DEF numa_policy_initialize
  <2>2. \A x \in filed : x.node = NodeOf(x.base)
    BY <2>1 DEF CoalescedInv, EarlyNodes, NodeOf
  <2>3. Aligned' /\ EarlyNodes'
    BY <2>1 DEF CoalescedInv, Aligned, EarlyNodes, buddy_is_order_aligned
  <2>4. FullyCoalesced'
    BY <2>1, <2>2 DEF CoalescedInv, FullyCoalesced, Buddy
  <2> QED
    BY <1>1, <2>3, <2>4 DEF CoalescedInv
<1>7. CASE EndPass1 \/ EndPass2
  BY <1>3, <1>7 DEF EndPass1, EndPass2
<1>8. CASE \E p \in ExtendPages : SkipUnmappable(p)
  BY <1>3, <1>8 DEF SkipUnmappable
<1>9. CASE \E o \in Orders : Allocate(o)
  <2>1. PICK o \in Orders : Allocate(o)
    BY <1>9
  <2>2. PICK x \in Candidates(o) : TakeBlock(x, o)
    BY <2>1 DEF Allocate
  <2>3. x \in filed /\ x.order >= o
    BY DEF Candidates
  <2>4. phase' = phase /\ phase \notin {"pass1", "numa"}
    BY <2>1 DEF Allocate
  <2> QED
    BY <1>1, <2>2, <2>3, <2>4, TakeCoalesces DEF CoalescedInv
<1>10. CASE \E p \in AnyPage, o \in AnyOrder : Free(p, o)
  <2>1. PICK p \in AnyPage, o \in AnyOrder : Free(p, o)
    BY <1>10
  <2> QED
    BY <1>2, <2>1 DEF Free, GoodArgument
<1>11. CASE \E p \in AnyPage, o \in AnyOrder : RejectFree(p, o)
  BY <1>3, <1>11 DEF RejectFree
<1>12. CASE UNCHANGED vars
  BY <1>3, <1>12 DEF vars
<1> QED
  BY <1>4, <1>5, <1>6, <1>7, <1>8, <1>9, <1>10, <1>11, <1>12 DEF Next
-----------------------------------------------------------------------------
(* The theorems *)

\* The inductive invariant holds for every number of orders, every memory map
\* and every NUMA layout.
THEOREM BuddyInvariant == Spec => []BuddyInv
BY InitInv, NextInv, PTL DEF Spec

\* Type correctness of the page allocator's state.
THEOREM TypeCorrect == Spec => []TypeOK
<1>1. BuddyInv => TypeOK  BY DEF BuddyInv
<1>2. QED  BY <1>1, BuddyInvariant, PTL

\* No page is ever in two free blocks, or free and allocated at once, whatever
\* the callers of page_frame_free_order pass: the ownership map alone keeps the
\* free lists sound.
THEOREM NoDoubleUse == Spec => []NoPageInTwoPlaces
<1>1. BuddyInv => NoPageInTwoPlaces  BY DEF BuddyInv
<1>2. QED  BY <1>1, BuddyInvariant, PTL

\* No page the population passes released is ever lost, and none appears.
THEOREM PagesConserved == Spec => []NoPageLost
<1>1. BuddyInv => NoPageLost  BY DEF BuddyInv
<1>2. QED  BY <1>1, BuddyInvariant, PTL

\* The per-page markers that buddy_can_merge reads always tell the truth.
THEOREM MarkersTruthful == Spec => []MarkersNameFreeBlocks
<1>1. BuddyInv => MarkersNameFreeBlocks  BY DEF BuddyInv
<1>2. QED  BY <1>1, BuddyInvariant, PTL

\* free_page_count is exact through every split, merge and rejected free.
THEOREM AccountingExact == Spec => []CountIsExact
<1>1. BuddyInv => CountIsExact  BY DEF BuddyInv
<1>2. QED  BY <1>1, BuddyInvariant, PTL

\* An allocation takes only free pages, and once the population passes are over a
\* free returns only allocated ones, whatever address and order a caller passes.
THEOREM HandsChangeOnce == Spec => PagesChangeHandsOnce
<1>1. BuddyInv /\ [Next]_vars =>
        [/\ buddy_page_allocated' \ buddy_page_allocated \subseteq FreePages
         /\ phase = "run" => FreePages' \ FreePages \subseteq buddy_page_allocated]_vars
  BY NextMoves
<1>2. QED  BY <1>1, BuddyInvariant, PTL DEF Spec, PagesChangeHandsOnce

\* The merge loop of buddy_insert_order never stops early, and no split and no change of
\* the NUMA nodes leaves a pair of buddies free in the lists of their own nodes.
THEOREM CoalescingComplete == Spec => []FullyCoalesced
<1>1. Init => CoalescedInv
  BY InitInv DEF Init, CoalescedInv, Aligned, EarlyNodes, FullyCoalesced
<1>2. CoalescedInv => FullyCoalesced
  BY DEF CoalescedInv
<1> QED
  BY <1>1, <1>2, NextCoalesces, PTL DEF Spec
=============================================================================
