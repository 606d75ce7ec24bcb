------------------------- MODULE TlbShootdownProofs -------------------------
(***************************************************************************)
(* The shootdown of apic_ipi.c removes every stale translation before      *)
(* paging_unmap_page returns, until one is abandoned, for every set of     *)
(* processors, pages and frames.                                           *)
(*                                                                         *)
(* The inductive invariant follows the call: outside the wait no processor *)
(* is in its handler; only the page of the call may be stale; and during   *)
(* the wait either the command was not sent and the count is still full,   *)
(* or a processor that is out of its handler has dropped the page, and the *)
(* others are no more than the count.                                      *)
(***************************************************************************)
EXTENDS TlbShootdown, TLAPS, FiniteSetTheorems

Outstanding == {c \in Remotes : irr[c] \/ handler[c] # "out"}
Quiet == \A c \in Remotes : ~irr[c] /\ handler[c] = "out"

UpToDate(c, p) == tlb[c][p] \in {0, pte[p]}
Clean(c) == (\A p \in PageSet : UpToDate(c, p)) /\ walk[c] \in {0, pde}
Invalidated(c) == ~irr[c] /\ handler[c] \in {"out", "ack"}

\* The directory entry names a page table.
TableInv == pde # 0 => frame_use[pde] = "table"

\* Only the page of the call in progress may be stale, and nowhere between two calls.
CachedInv ==
  /\ \A c \in CPUs, p \in PageSet : p # target => UpToDate(c, p)
  /\ \A c \in CPUs : walk[c] # 0 => frame_use[walk[c]] # "data"
  /\ tlb_pc = "idle" => \A c \in CPUs : Clean(c)
  /\ tlb_pc = "local" => \A c \in Remotes : Clean(c)

\* What the count says while the BSP waits.
SentInv ==
  \/ Quiet /\ shootdown_pending = Cardinality(Remotes)
  \/ /\ Cardinality(Outstanding) <= shootdown_pending
     /\ \A c \in Remotes : Invalidated(c) => Clean(c)

CallInv ==
  /\ \A c \in Remotes : handler[c] # "out" => ~irr[c]
  /\ tlb_pc # "wait" => Quiet
  /\ tlb_pc \in {"pending", "send", "wait"} => shootdown_addr = target
  /\ tlb_pc \in {"address", "pending", "send", "wait"} => Remotes # {}
  /\ tlb_pc = "send" => shootdown_pending = Cardinality(Remotes)
  /\ tlb_pc = "wait" => SentInv

IInv == TlbTypeOK /\ TableInv /\ (timeout_count = 0 => CachedInv /\ CallInv)
-----------------------------------------------------------------------------
\* invlpg leaves a TLB and the cached directory entries well typed.
LEMMA InvlpgType ==
  ASSUME TlbAssumption, TlbTypeOK, NEW c \in CPUs, NEW a, paging_invlpg(c, a)
  PROVE  tlb' \in [CPUs -> [PageSet -> 0 .. MaxMaps]] /\ walk' \in [CPUs -> Frames \cup {0}]
<1>1. 0 \in 0 .. MaxMaps
  BY DEF TlbAssumption
<1>2. CASE a \in PageSet
  BY <1>1, <1>2 DEF TlbTypeOK, paging_invlpg
<1>3. CASE a \notin PageSet
  BY <1>3 DEF TlbTypeOK, paging_invlpg
<1> QED
  BY <1>2, <1>3

\* Every step keeps the types, and keeps the directory entry on a page table.
LEMMA TypeStep == ASSUME TlbAssumption, TlbTypeOK, TableInv, [TlbNext]_tlb_vars PROVE TlbTypeOK' /\ TableInv'
<1> USE DEF TlbTypeOK, TableInv, mapping, cached, ipi_vars, CPUs
<1>0. 0 \notin Frames /\ Frames \subseteq Nat /\ MaxMaps \in Nat /\ MaxTimeouts \in Nat
      /\ Word \in Nat /\ Cardinality(Remotes) \in 0 .. Word - 1
  BY FS_CardinalityType DEF TlbAssumption
<1> USE <1>0
<1>1. ASSUME NEW p \in PageSet, Map(p) PROVE TlbTypeOK' /\ TableInv'
  <2>1. tlb' \in [CPUs -> [PageSet -> 0 .. MaxMaps]] /\ walk' \in [CPUs -> Frames \cup {0}]
    BY <1>1, InvlpgType DEF Map
  <2>2. pte' \in [PageSet -> 0 .. MaxMaps] /\ maps' \in 0 .. MaxMaps
    BY <1>1 DEF Map
  <2>3. /\ pde' \in Frames \cup {0} /\ frame_use' \in [Frames -> {"free", "table", "data"}]
        /\ TableInv'
    BY <1>1 DEF Map, paging_create_page_table
  <2>4. UNCHANGED <<tlb_pc, target, shootdown_addr, shootdown_pending, timeout_count, ipi_vars, completed>>
    BY <1>1 DEF Map
  <2> QED
    BY <2>1, <2>2, <2>3, <2>4
<1>2. ASSUME NEW f \in Frames, AllocateFrame(f) PROVE TlbTypeOK' /\ TableInv'
  BY <1>2 DEF AllocateFrame
<1>3. ASSUME NEW f \in Frames, FreeFrame(f) PROVE TlbTypeOK' /\ TableInv'
  BY <1>3 DEF FreeFrame
<1>4. ASSUME NEW p \in PageSet, Unmap(p) PROVE TlbTypeOK' /\ TableInv'
  <2>1. /\ pte' \in [PageSet -> 0 .. MaxMaps] /\ target' \in PageSet \cup {AllPages}
        /\ tlb_pc' \in {"local", "address"} /\ completed' = FALSE
    BY <1>4 DEF Unmap, Broadcast
  <2>2. UNCHANGED <<maps, cached, shootdown_addr, shootdown_pending, timeout_count, ipi_vars>>
    BY <1>4 DEF Unmap
  <2>3. /\ pde' \in Frames \cup {0} /\ frame_use' \in [Frames -> {"free", "table", "data"}]
        /\ TableInv'
    BY <1>4 DEF Unmap, ReclaimPageTable
  <2> QED
    BY <2>1, <2>2, <2>3
<1>5. CASE broadcast_tlb_flush
  BY <1>5 DEF broadcast_tlb_flush, Broadcast
<1>6. CASE StoreAddress
  BY <1>6 DEF StoreAddress
<1>7. CASE StorePending
  BY <1>7 DEF StorePending, TargetCount
<1>8. ASSUME NEW written \in SendOutcomes, SendIpi(written) PROVE TlbTypeOK' /\ TableInv'
  BY <1>8 DEF SendIpi
<1>9. CASE WaitDone
  BY <1>9 DEF WaitDone
<1>10. CASE WaitAbandoned
  BY <1>10 DEF WaitAbandoned
<1>11. CASE LocalInvalidate
  <2>1. tlb' \in [CPUs -> [PageSet -> 0 .. MaxMaps]] /\ walk' \in [CPUs -> Frames \cup {0}]
    BY <1>11, InvlpgType DEF LocalInvalidate
  <2>2. /\ UNCHANGED <<mapping, target, shootdown_addr, shootdown_pending, timeout_count, ipi_vars,
                       completed>>
        /\ tlb_pc' = "idle"
    BY <1>11 DEF LocalInvalidate
  <2> QED
    BY <2>1, <2>2
<1>12. ASSUME NEW c \in CPUs, NEW p \in PageSet, Access(c, p) PROVE TlbTypeOK' /\ TableInv'
  BY <1>12 DEF Access
<1>13. ASSUME NEW c \in Remotes, HandlerEnter(c) PROVE TlbTypeOK' /\ TableInv'
  BY <1>13 DEF HandlerEnter
<1>14. ASSUME NEW c \in Remotes, HandlerCompare(c) PROVE TlbTypeOK' /\ TableInv'
  BY <1>14 DEF HandlerCompare
<1>15. ASSUME NEW c \in Remotes, HandlerInvalidate(c) PROVE TlbTypeOK' /\ TableInv'
  <2>1. tlb' \in [CPUs -> [PageSet -> 0 .. MaxMaps]] /\ walk' \in [CPUs -> Frames \cup {0}]
    <3>1. CASE paging_flush_tlb(c)
      BY <3>1 DEF paging_flush_tlb
    <3>2. CASE paging_invlpg(c, shootdown_addr)
      BY <3>2, InvlpgType
    <3> QED
      BY <1>15, <3>1, <3>2 DEF HandlerInvalidate
  <2>2. /\ UNCHANGED <<mapping, tlb_pc, target, shootdown_addr, shootdown_pending, timeout_count,
                       irr, isr, completed>>
        /\ handler' = [handler EXCEPT ![c] = "ack"]
    BY <1>15 DEF HandlerInvalidate
  <2> QED
    BY <2>1, <2>2
<1>16. ASSUME NEW c \in Remotes, HandlerAck(c) PROVE TlbTypeOK' /\ TableInv'
  BY <1>16 DEF HandlerAck, Decremented
<1>17. CASE UNCHANGED tlb_vars
  BY <1>17 DEF tlb_vars
<1> HIDE DEF TlbTypeOK, TableInv
<1> QED
  BY <1>1, <1>2, <1>3, <1>4, <1>5, <1>6, <1>7, <1>8, <1>9, <1>10, <1>11, <1>12, <1>13, <1>14,
     <1>15, <1>16, <1>17 DEF TlbNext, CallerStep

\* The processors that have still to answer are finite in number, and one fewer once one
\* of them has.
LEMMA OutstandingCount ==
  ASSUME TlbAssumption
  PROVE  /\ IsFiniteSet(Outstanding) /\ Cardinality(Outstanding) \in Nat
         /\ Cardinality(Outstanding) <= Cardinality(Remotes)
         /\ \A c \in Outstanding : /\ Cardinality(Outstanding) > 0
                                   /\ Cardinality(Outstanding \ {c}) = Cardinality(Outstanding) - 1
<1>1. IsFiniteSet(Remotes) /\ Outstanding \subseteq Remotes
  BY DEF TlbAssumption, Outstanding
<1>2. IsFiniteSet(Outstanding) /\ Cardinality(Outstanding) <= Cardinality(Remotes)
  BY <1>1, FS_Subset
<1>3. Cardinality(Outstanding) \in Nat
  BY <1>2, FS_CardinalityType
<1>4. ASSUME NEW c \in Outstanding
      PROVE  /\ Cardinality(Outstanding) > 0
             /\ Cardinality(Outstanding \ {c}) = Cardinality(Outstanding) - 1
  <2>1. Cardinality(Outstanding) # 0
    BY <1>2, FS_EmptySet
  <2>2. Cardinality(Outstanding \ {c}) = Cardinality(Outstanding) - 1
    BY <1>2, FS_RemoveElement
  <2> QED
    BY <2>1, <2>2, <1>3
<1> QED
  BY <1>2, <1>3, <1>4

\* Mapping, unmapping and the reuse of frames keep the TLBs up to date but for the page
\* of the call (paging_map_page, paging_unmap_page).
LEMMA MappingStep ==
  ASSUME TlbAssumption, TlbTypeOK, TableInv, CachedInv, CallInv,
         \/ \E p \in PageSet : Map(p) \/ Unmap(p)
         \/ \E f \in Frames : AllocateFrame(f) \/ FreeFrame(f)
         \/ broadcast_tlb_flush
  PROVE  CachedInv' /\ CallInv'
<1> USE DEF TlbTypeOK, TableInv, CachedInv, CallInv, Quiet, UpToDate, Clean, mapping, cached, ipi_vars, CPUs
<1>0. 0 \notin Frames /\ AllPages \notin PageSet /\ Bsp \notin Remotes
  BY DEF TlbAssumption
<1>1. ASSUME NEW p \in PageSet, Map(p) PROVE CachedInv' /\ CallInv'
  <2>1. \A c \in CPUs : walk'[c] \in {0, walk[c]} /\ \A q \in PageSet : tlb'[c][q] \in {0, tlb[c][q]}
    BY <1>1 DEF Map, paging_invlpg
  <2>2. tlb_pc = "idle" /\ tlb_pc' = "idle" /\ pte[p] = 0 /\ \A q \in PageSet : q # p => pte'[q] = pte[q]
    BY <1>1 DEF Map
  <2>3. \A c \in CPUs : walk[c] \in {0, pde} /\ \A q \in PageSet : tlb[c][q] \in {0, pte[q]}
    BY <2>2
  <2>4. pde # 0 => pde' = pde /\ frame_use' = frame_use
    BY <1>1 DEF Map
  <2>5. CallInv'
    BY <1>1 DEF Map
  <2>6. \A c \in CPUs : Clean(c)'
    <3> SUFFICES ASSUME NEW c \in CPUs PROVE Clean(c)'
      OBVIOUS
    <3>1. \A q \in PageSet : tlb'[c][q] \in {0, pte[q]}
      BY <2>1, <2>3
    <3>2. \A q \in PageSet : tlb'[c][q] \in {0, pte'[q]}
      BY <2>2, <3>1
    <3>3. walk'[c] \in {0, pde'}
      BY <2>1, <2>3, <2>4
    <3> QED
      BY <3>2, <3>3
  <2>7. \A c \in CPUs : walk'[c] # 0 => frame_use'[walk'[c]] # "data"
    BY <2>1, <2>3, <2>4
  <2> QED
    BY <2>2, <2>5, <2>6, <2>7
<1>2. ASSUME NEW f \in Frames, AllocateFrame(f) PROVE CachedInv' /\ CallInv'
  BY <1>2, <1>0 DEF AllocateFrame
<1>3. ASSUME NEW f \in Frames, FreeFrame(f) PROVE CachedInv' /\ CallInv'
  BY <1>3, <1>0 DEF FreeFrame
<1>4. ASSUME NEW p \in PageSet, Unmap(p) PROVE CachedInv' /\ CallInv'
  <2>1. /\ tlb_pc = "idle" /\ target' = p /\ tlb_pc' = IF Remotes = {} THEN "local" ELSE "address"
        /\ \A q \in PageSet : q # p => pte'[q] = pte[q]
    BY <1>4 DEF Unmap, Broadcast
  <2>2. UNCHANGED <<maps, cached, shootdown_addr, shootdown_pending, timeout_count, ipi_vars>>
    BY <1>4 DEF Unmap
  <2>3. pde # 0 => frame_use'[pde] \in {"table", "free"}
    BY <1>4 DEF Unmap, ReclaimPageTable
  <2> QED
    BY <2>1, <2>2, <2>3
<1>5. CASE broadcast_tlb_flush
  BY <1>5, <1>0 DEF broadcast_tlb_flush, Broadcast
<1> QED
  BY <1>1, <1>2, <1>3, <1>4, <1>5

\* The steps of the BSP's call, up to its own invlpg.
LEMMA CallStep ==
  ASSUME TlbAssumption, TlbTypeOK, TableInv, CachedInv, CallInv, timeout_count' = 0,
         \/ StoreAddress \/ StorePending
         \/ \E written \in SendOutcomes : SendIpi(written)
         \/ WaitDone \/ WaitAbandoned \/ LocalInvalidate
  PROVE  CachedInv' /\ CallInv'
<1> USE DEF TlbTypeOK, CachedInv, CallInv, UpToDate, Clean, mapping, cached, ipi_vars, CPUs
<1>1. CASE StoreAddress
  BY <1>1 DEF StoreAddress, Quiet
<1>2. CASE StorePending
  BY <1>2 DEF StorePending, Quiet, TargetCount
<1>3. ASSUME NEW written \in SendOutcomes, SendIpi(written) PROVE CachedInv' /\ CallInv'
  <2>1. /\ tlb_pc = "send" /\ tlb_pc' = "wait" /\ Quiet /\ shootdown_pending = Cardinality(Remotes)
        /\ UNCHANGED <<mapping, cached, target, shootdown_addr, shootdown_pending, handler>>
    BY <1>3 DEF SendIpi
  <2>2. CachedInv'
    BY <2>1
  <2>3. SentInv'
    <3>1. CASE written
      <4>1. \A c \in Remotes : irr'[c]
        BY <1>3, <3>1 DEF SendIpi
      <4>2. Outstanding' \subseteq Remotes /\ Cardinality(Outstanding') <= Cardinality(Remotes)
        BY FS_Subset DEF TlbAssumption, Outstanding
      <4>3. \A c \in Remotes : ~Invalidated(c)'
        BY <4>1 DEF Invalidated
      <4> QED
        BY <2>1, <4>2, <4>3 DEF SentInv
    <3>2. CASE ~written
      BY <1>3, <3>2, <2>1 DEF SendIpi, SentInv, Quiet
    <3> QED
      BY <3>1, <3>2
  <2> QED
    BY <2>1, <2>2, <2>3 DEF Quiet
<1>4. CASE WaitDone
  <2>1. tlb_pc = "wait" /\ tlb_pc' = "local" /\ shootdown_pending = 0 /\ SentInv /\ Remotes # {}
    BY <1>4 DEF WaitDone
  <2>2. Cardinality(Remotes) # 0
    BY <2>1, FS_EmptySet DEF TlbAssumption
  <2>3. Outstanding = {} /\ \A c \in Remotes : Invalidated(c) => Clean(c)
    <3> HIDE DEF TlbTypeOK, CachedInv, CallInv, Clean
    <3> QED
      BY <2>1, <2>2, OutstandingCount, FS_EmptySet DEF SentInv
  <2>4. \A c \in Remotes : ~irr[c] /\ handler[c] = "out" /\ Clean(c)
    BY <2>3 DEF Outstanding, Invalidated
  <2> QED
    BY <1>4, <2>4 DEF WaitDone, Quiet
<1>5. CASE WaitAbandoned
  BY <1>5 DEF WaitAbandoned
<1>6. CASE LocalInvalidate
  <2>1. /\ tlb_pc = "local" /\ tlb_pc' = "idle"
        /\ UNCHANGED <<mapping, target, shootdown_addr, shootdown_pending, timeout_count, ipi_vars>>
    BY <1>6 DEF LocalInvalidate
  <2>2. walk' = [walk EXCEPT ![Bsp] = 0]
    BY <1>6 DEF LocalInvalidate, paging_invlpg
  <2>3. \A c \in CPUs, p \in PageSet :
          tlb'[c][p] = IF c = Bsp /\ p = target THEN 0 ELSE tlb[c][p]
    BY <1>6 DEF LocalInvalidate, paging_invlpg
  <2>4. \A c \in CPUs : Clean(c)'
    BY <2>1, <2>2, <2>3
  <2> QED
    BY <2>1, <2>2, <2>4 DEF Quiet
<1> QED
  BY <1>1, <1>2, <1>3, <1>4, <1>5, <1>6

\* A memory access caches only present translations.
LEMMA AccessStep ==
  ASSUME TlbAssumption, TlbTypeOK, TableInv, CachedInv, CallInv,
         NEW c \in CPUs, NEW p \in PageSet, Access(c, p)
  PROVE  CachedInv' /\ CallInv'
<1> USE DEF TlbTypeOK, CachedInv, UpToDate, Clean, mapping, ipi_vars, CPUs
<1>1. UNCHANGED <<mapping, tlb_pc, target, shootdown_addr, shootdown_pending, timeout_count, ipi_vars>>
  BY DEF Access
<1>2. \A d \in CPUs, q \in PageSet : tlb'[d][q] \in {tlb[d][q], pte[q]}
  BY DEF Access
<1>3. \A d \in CPUs : walk'[d] \in {walk[d], pde}
  BY DEF Access
<1>4. \A d \in CPUs : Clean(d) => Clean(d)'
  BY <1>1, <1>2, <1>3
<1>5. CachedInv'
  <2>1. \A d \in CPUs, q \in PageSet : q # target => UpToDate(d, q)'
    BY <1>1, <1>2
  <2>2. \A d \in CPUs : walk'[d] # 0 => frame_use'[walk'[d]] # "data"
    BY <1>1, <1>3 DEF TableInv
  <2> QED
    BY <1>1, <1>4, <2>1, <2>2
<1>6. CallInv'
  <2> HIDE DEF Clean
  <2>1. Outstanding' = Outstanding
    BY <1>1 DEF Outstanding
  <2> QED
    BY <1>1, <1>4, <2>1 DEF CallInv, SentInv, Quiet, Invalidated
<1> QED
  BY <1>5, <1>6

\* The handler of vector 0x40 drops the page of the call before it counts itself off.
LEMMA HandlerStep ==
  ASSUME TlbAssumption, TlbTypeOK, TableInv, CachedInv, CallInv, NEW c \in Remotes,
         HandlerEnter(c) \/ HandlerCompare(c) \/ HandlerInvalidate(c) \/ HandlerAck(c)
  PROVE  CachedInv' /\ CallInv'
<1>0. tlb_pc = "wait" /\ SentInv /\ ~Quiet /\ shootdown_addr = target
      /\ Cardinality(Outstanding) <= shootdown_pending /\ c \in Outstanding
      /\ \A d \in Remotes : Invalidated(d) => Clean(d)
  BY DEF HandlerEnter, HandlerCompare, HandlerInvalidate, HandlerAck, CallInv, SentInv, Quiet,
         Outstanding
<1>1. UNCHANGED <<mapping, tlb_pc, target, shootdown_addr, timeout_count>>
  BY DEF HandlerEnter, HandlerCompare, HandlerInvalidate, HandlerAck
<1> USE DEF mapping, cached
<1>2. ASSUME cached' = cached PROVE CachedInv'
  BY <1>1, <1>2 DEF CachedInv, UpToDate, Clean
<1>3. ASSUME cached' = cached, shootdown_pending' = shootdown_pending, Outstanding' = Outstanding,
             \A d \in Remotes : Invalidated(d)' => Invalidated(d)
      PROVE  SentInv'
  <2>1. \A d \in Remotes : Clean(d)' <=> Clean(d)
    BY <1>1, <1>3 DEF Clean, UpToDate
  <2> QED
    BY <1>0, <1>3, <2>1 DEF SentInv
<1>4. ASSUME SentInv', \A d \in Remotes : handler'[d] # "out" => ~irr'[d] PROVE CallInv'
  BY <1>0, <1>1, <1>4 DEF CallInv
<1>5. CASE HandlerEnter(c)
  <2>1. cached' = cached /\ shootdown_pending' = shootdown_pending
    BY <1>5 DEF HandlerEnter
  <2>2. Outstanding' = Outstanding /\ \A d \in Remotes : Invalidated(d)' => Invalidated(d)
    BY <1>5 DEF HandlerEnter, Outstanding, Invalidated, TlbTypeOK
  <2>3. \A d \in Remotes : handler'[d] # "out" => ~irr'[d]
    BY <1>5 DEF HandlerEnter, TlbTypeOK, CallInv
  <2> QED
    BY <1>2, <1>3, <1>4, <2>1, <2>2, <2>3
<1>6. CASE HandlerCompare(c)
  <2>1. cached' = cached /\ shootdown_pending' = shootdown_pending
    BY <1>6 DEF HandlerCompare
  <2>2. Outstanding' = Outstanding /\ \A d \in Remotes : Invalidated(d)' => Invalidated(d)
    BY <1>6 DEF HandlerCompare, Outstanding, Invalidated, TlbTypeOK
  <2>3. \A d \in Remotes : handler'[d] # "out" => ~irr'[d]
    BY <1>6 DEF HandlerCompare, TlbTypeOK, CallInv
  <2> QED
    BY <1>2, <1>3, <1>4, <2>1, <2>2, <2>3
<1>7. CASE HandlerInvalidate(c)
  <2>1. /\ UNCHANGED <<shootdown_pending, irr, isr>>
        /\ handler[c] \in {"flush", "invlpg"} /\ handler' = [handler EXCEPT ![c] = "ack"]
    BY <1>7 DEF HandlerInvalidate
  <2>2. walk' = [walk EXCEPT ![c] = 0]
    BY <1>7 DEF HandlerInvalidate, paging_flush_tlb, paging_invlpg
  <2>3. /\ \A d \in CPUs \ {c} : tlb'[d] = tlb[d]
        /\ \A p \in PageSet : tlb'[c][p] \in {0, tlb[c][p]} /\ (p = target => tlb'[c][p] = 0)
    <3>1. CASE paging_flush_tlb(c)
      BY <3>1 DEF paging_flush_tlb, TlbTypeOK, CPUs
    <3>2. CASE paging_invlpg(c, shootdown_addr)
      BY <1>0, <3>2 DEF paging_invlpg, TlbTypeOK, CPUs
    <3> QED
      BY <1>7, <3>1, <3>2 DEF HandlerInvalidate
  <2>4. CachedInv' /\ Clean(c)' /\ \A d \in Remotes : Clean(d) => Clean(d)'
    <3> USE DEF Clean, UpToDate, CPUs, TlbTypeOK
    <3>1. Clean(c)'
      BY <1>1, <2>2, <2>3 DEF CachedInv
    <3>2. \A d \in Remotes : Clean(d) => Clean(d)'
      BY <3>1, <1>1, <2>2, <2>3
    <3>3. \A d \in CPUs, p \in PageSet : p # target' => UpToDate(d, p)'
      <4> SUFFICES ASSUME NEW d \in CPUs, NEW p \in PageSet, p # target' PROVE UpToDate(d, p)'
        OBVIOUS
      <4>1. target' = target /\ pte' = pte
        BY <1>7 DEF HandlerInvalidate
      <4>2. tlb[d][p] \in {0, pte[p]}
        BY <4>1 DEF CachedInv
      <4>3. tlb'[d][p] \in {0, tlb[d][p]}
        BY <2>3
      <4> QED
        BY <4>1, <4>2, <4>3
    <3>4. \A d \in CPUs : walk'[d] # 0 => frame_use'[walk'[d]] # "data"
      BY <1>1, <2>2 DEF CachedInv
    <3> QED
      BY <1>0, <1>1, <3>1, <3>2, <3>3, <3>4 DEF CachedInv
  <2>5. Outstanding' = Outstanding /\ \A d \in Remotes : d # c /\ Invalidated(d)' => Invalidated(d)
    BY <2>1 DEF Outstanding, Invalidated, TlbTypeOK
  <2>6. SentInv'
    BY <1>0, <2>1, <2>4, <2>5 DEF SentInv
  <2>7. \A d \in Remotes : handler'[d] # "out" => ~irr'[d]
    BY <2>1 DEF TlbTypeOK, CallInv
  <2> QED
    BY <1>4, <2>4, <2>6, <2>7
<1>8. CASE HandlerAck(c)
  <2>1. /\ cached' = cached /\ irr' = irr /\ handler[c] = "ack" /\ ~irr[c]
        /\ handler' = [handler EXCEPT ![c] = "out"]
        /\ shootdown_pending' = Decremented(shootdown_pending)
    BY <1>8 DEF HandlerAck, CallInv
  <2>2. Outstanding' = Outstanding \ {c}
    BY <2>1 DEF Outstanding, TlbTypeOK
  <2>3. /\ Cardinality(Outstanding) \in Nat /\ Cardinality(Outstanding) > 0
        /\ Cardinality(Outstanding') = Cardinality(Outstanding) - 1
    BY <1>0, <2>2, OutstandingCount
  <2>4. shootdown_pending \in 0 .. Word - 1 /\ Word \in Nat
    BY DEF TlbTypeOK, TlbAssumption
  <2>5. shootdown_pending' = shootdown_pending - 1
    <3>1. shootdown_pending > 0
      BY <1>0, <2>3, <2>4
    <3>2. shootdown_pending + Word - 1 = (shootdown_pending - 1) + Word
      BY <2>4
    <3> QED
      BY <2>1, <2>4, <3>1, <3>2 DEF Decremented
  <2>6. Cardinality(Outstanding') <= shootdown_pending'
    BY <1>0, <2>3, <2>4, <2>5
  <2>7. \A d \in Remotes : Invalidated(d)' => Clean(d)'
    <3>1. \A d \in Remotes : Clean(d)' <=> Clean(d)
      BY <1>1, <2>1 DEF Clean, UpToDate
    <3>2. \A d \in Remotes : Invalidated(d)' => Invalidated(d)
      BY <2>1 DEF Invalidated, TlbTypeOK
    <3> QED
      BY <1>0, <3>1, <3>2
  <2>8. \A d \in Remotes : handler'[d] # "out" => ~irr'[d]
    BY <2>1 DEF TlbTypeOK, CallInv
  <2> QED
    BY <1>2, <1>4, <2>1, <2>6, <2>7, <2>8 DEF SentInv
<1> QED
  BY <1>5, <1>6, <1>7, <1>8

\* The four lemmas cover every step; an abandoned shootdown ends what is claimed.
LEMMA IInvInvariant == ASSUME TlbAssumption PROVE TlbSpec => []IInv
<1>1. TlbInit => IInv
  <2> SUFFICES ASSUME TlbInit PROVE IInv
    OBVIOUS
  <2> USE DEF TlbInit
  <2>1. TlbTypeOK
    <3>1. 0 \in 0 .. MaxMaps /\ 0 \in 0 .. Word - 1 /\ 0 \in 0 .. MaxTimeouts
      BY FS_CardinalityType DEF TlbAssumption
    <3>2. tlb \in [CPUs -> [PageSet -> 0 .. MaxMaps]] /\ walk \in [CPUs -> Frames \cup {0}]
      BY <3>1
    <3>3. pte \in [PageSet -> 0 .. MaxMaps] /\ frame_use \in [Frames -> {"free", "table", "data"}]
      BY <3>1
    <3>4. /\ irr \in [Remotes -> BOOLEAN] /\ isr \in [Remotes -> BOOLEAN] /\ completed \in BOOLEAN
          /\ handler \in [Remotes -> {"out", "compare", "flush", "invlpg", "ack"}]
      OBVIOUS
    <3> QED
      BY <3>1, <3>2, <3>3, <3>4 DEF TlbTypeOK
  <2>2. TableInv /\ CachedInv
    BY DEF TableInv, CachedInv, UpToDate, Clean
  <2>3. CallInv
    BY DEF CallInv, Quiet
  <2> QED
    BY <2>1, <2>2, <2>3 DEF IInv
<1>2. IInv /\ [TlbNext]_tlb_vars => IInv'
  <2> SUFFICES ASSUME IInv, [TlbNext]_tlb_vars, timeout_count' = 0 PROVE CachedInv' /\ CallInv'
    BY TypeStep DEF IInv
  <2>1. timeout_count = 0
    <3>1. timeout_count' = timeout_count \/ timeout_count' = timeout_count + 1
      BY Zenon DEF TlbNext, CallerStep, tlb_vars, Map, Unmap, AllocateFrame, FreeFrame,
             broadcast_tlb_flush, StoreAddress, StorePending, SendIpi, WaitDone, WaitAbandoned,
             LocalInvalidate, Access, HandlerEnter, HandlerCompare, HandlerInvalidate, HandlerAck
    <3>2. timeout_count \in Nat
      BY DEF IInv, TlbTypeOK
    <3> QED
      BY <3>1, <3>2
  <2>2. TlbTypeOK /\ TableInv /\ CachedInv /\ CallInv
    BY <2>1 DEF IInv
  <2>3. CASE UNCHANGED tlb_vars
    <3>1. Outstanding' = Outstanding
      BY <2>3 DEF tlb_vars, ipi_vars, Outstanding
    <3> QED
      BY <2>2, <2>3, <3>1 DEF tlb_vars, mapping, cached, ipi_vars, CachedInv, CallInv, SentInv, Quiet,
                              UpToDate, Clean, Invalidated
  <2>4. CASE TlbNext
    BY <2>2, <2>4, MappingStep, CallStep, AccessStep, HandlerStep DEF TlbNext, CallerStep
  <2> QED
    BY <2>3, <2>4
<1> QED
  BY <1>1, <1>2, PTL DEF TlbSpec

\* However many processors, pages and frames there are, whichever processors answer and
\* whether or not a command is sent: until a shootdown is abandoned, no TLB holds a
\* translation of an unmapped page once paging_unmap_page has returned, the count covers
\* every processor still to answer, and nobody walks a frame given to a new owner.
THEOREM ShootdownTheorem ==
  ASSUME TlbAssumption
  PROVE  TlbSpec => []NoStaleTranslation
<1>1. IInv => NoStaleTranslation
  <2> SUFFICES ASSUME IInv PROVE TranslationsCurrent /\ WaitCoversTargets /\ NoWalkOfReusedFrame
    BY DEF IInv, NoStaleTranslation
  <2>1. TranslationsCurrent /\ NoWalkOfReusedFrame
    BY DEF IInv, CachedInv, Clean, UpToDate, TranslationsCurrent, NoWalkOfReusedFrame
  <2>2. ASSUME tlb_pc = "wait", timeout_count = 0
        PROVE  Cardinality({c \in Remotes : irr[c] \/ handler[c] # "out"}) <= shootdown_pending
    <3>1. SentInv /\ shootdown_pending \in Nat
      BY <2>2 DEF IInv, CallInv, TlbTypeOK, TlbAssumption
    <3>2. Cardinality(Outstanding) <= shootdown_pending
      BY <3>1, OutstandingCount DEF SentInv
    <3> QED
      BY <3>2 DEF Outstanding
  <2> QED
    BY <2>1, <2>2 DEF WaitCoversTargets
<1> QED
  BY <1>1, IInvInvariant, PTL
=============================================================================
