-------------------------- MODULE BufferPoolProofs --------------------------
(***************************************************************************)
(* Proofs about the buffer pool for any number of frames, clients, files   *)
(* and pages, and whether or not files are closed only while unused: its   *)
(* table and lists stay consistent, and the pool implements the page store.*)
(***************************************************************************)
EXTENDS BufferPool, FiniteSetTheorems, TLAPS

-----------------------------------------------------------------------------
(* The lists of frames.                                                    *)

\* A list without duplicates loses exactly its head in Tail (list::pop_front).
LEMMA TailEffect ==
    ASSUME NEW list \in Seq(Frame), list # <<>>, NoDuplicates(list)
    PROVE  /\ Head(list) \in Frame
           /\ Head(list) \in Elements(list)
           /\ Tail(list) \in Seq(Frame)
           /\ NoDuplicates(Tail(list))
           /\ \A g : g \in Elements(Tail(list)) <=> g \in Elements(list) /\ g # Head(list)
<1>1. Head(list) = list[1] /\ Len(list) \in Nat /\ Len(list) >= 1 /\ DOMAIN list = 1 .. Len(list)
  OBVIOUS
<1>2. /\ Tail(list) \in Seq(Frame)
      /\ DOMAIN Tail(list) = 1 .. Len(list) - 1
      /\ \A i \in 1 .. Len(list) - 1 : Tail(list)[i] = list[i + 1]
  BY <1>1
<1>3. NoDuplicates(Tail(list))
  <2> SUFFICES ASSUME NEW i \in 1 .. Len(list) - 1, NEW j \in 1 .. Len(list) - 1,
                      list[i + 1] = list[j + 1]
               PROVE  i = j
    BY <1>2, Zenon DEF NoDuplicates
  <2>1. i + 1 \in DOMAIN list /\ j + 1 \in DOMAIN list
    BY <1>1
  <2> QED BY <2>1 DEF NoDuplicates
<1>4. ASSUME NEW g
      PROVE  g \in Elements(Tail(list)) <=> g \in Elements(list) /\ g # Head(list)
  <2>1. ASSUME g \in Elements(Tail(list)) PROVE g \in Elements(list) /\ g # Head(list)
    <3>1. PICK i \in 1 .. Len(list) - 1 : g = list[i + 1]
      BY <2>1, <1>2, Zenon DEF Elements
    <3>2. i + 1 \in DOMAIN list /\ 1 \in DOMAIN list /\ i + 1 # 1
      BY <1>1
    <3> QED BY <3>1, <3>2, <1>1, Zenon DEF Elements, NoDuplicates
  <2>2. ASSUME g \in Elements(list), g # Head(list) PROVE g \in Elements(Tail(list))
    <3>1. PICK i \in 1 .. Len(list) : g = list[i]
      BY <2>2, <1>1, Zenon DEF Elements
    <3>2. i - 1 \in 1 .. Len(list) - 1 /\ Tail(list)[i - 1] = list[i]
      BY <3>1, <2>2, <1>1, <1>2
    <3> QED BY <3>1, <3>2, <1>2, Zenon DEF Elements
  <2> QED BY <2>1, <2>2, Zenon
<1> QED BY <1>1, <1>2, <1>3, <1>4 DEF Elements

\* Appending a frame that is not in the list keeps it free of duplicates.
LEMMA AppendEffect ==
    ASSUME NEW list \in Seq(Frame), NEW f \in Frame,
           NoDuplicates(list), f \notin Elements(list)
    PROVE  /\ Append(list, f) \in Seq(Frame)
           /\ NoDuplicates(Append(list, f))
           /\ \A g : g \in Elements(Append(list, f)) <=> g \in Elements(list) \/ g = f
<1> DEFINE n == Len(list)
<1>1. n \in Nat /\ DOMAIN list = 1 .. n
  OBVIOUS
<1>2. /\ Append(list, f) \in Seq(Frame)
      /\ DOMAIN Append(list, f) = 1 .. n + 1
      /\ \A i \in 1 .. n : Append(list, f)[i] = list[i]
      /\ Append(list, f)[n + 1] = f
  OBVIOUS
<1>3. \A i \in 1 .. n + 1 : i \in 1 .. n \/ i = n + 1
  BY <1>1
<1> HIDE DEF n
<1>4. NoDuplicates(Append(list, f))
  BY <1>1, <1>2, <1>3 DEF NoDuplicates, Elements
<1>5. ASSUME NEW g
      PROVE  g \in Elements(Append(list, f)) <=> g \in Elements(list) \/ g = f
  <2>1. n + 1 \in 1 .. n + 1 /\ \A i \in 1 .. n : i \in 1 .. n + 1
    BY <1>1
  <2> QED BY <1>1, <1>2, <1>3, <2>1, Zenon DEF Elements
<1> QED BY <1>2, <1>4, <1>5, Zenon

\* LRUReplacer::pin takes out exactly the frame, whether or not it is there.
LEMMA PinEffect ==
    ASSUME NEW list \in Seq(Frame), NEW f \in Frame, NoDuplicates(list)
    PROVE  /\ pin(list, f) \in Seq(Frame)
           /\ NoDuplicates(pin(list, f))
           /\ \A g : g \in Elements(pin(list, f)) <=> g \in Elements(list) /\ g # f
<1> DEFINE n == Len(list)
           at == CHOOSE i \in DOMAIN list : list[i] = f
           rest == [i \in 1 .. n - 1 |-> IF i < at THEN list[i] ELSE list[i + 1]]
<1>1. n \in Nat /\ DOMAIN list = 1 .. n /\ \A i \in 1 .. n : list[i] \in Frame
  OBVIOUS
<1>2. CASE f \notin Elements(list)
  BY <1>2, Zenon DEF pin
<1>3. CASE f \in Elements(list)
  <2>1. pin(list, f) = rest
    BY <1>3, Zenon DEF pin
  <2>2. at \in 1 .. n /\ list[at] = f
    BY <1>3, <1>1, Zenon DEF Elements
  <2> HIDE DEF at, n
  <2>3. \A i \in 1 .. n - 1 : i \in 1 .. n /\ i + 1 \in 1 .. n
    BY <1>1
  <2>4. /\ rest \in [1 .. n - 1 -> Frame]
        /\ n - 1 \in Nat
    BY <1>1, <2>2, <2>3
  <2>5. rest \in Seq(Frame) /\ DOMAIN rest = 1 .. n - 1
    BY <2>4
  <2>6. NoDuplicates(rest)
    <3> SUFFICES ASSUME NEW i \in 1 .. n - 1, NEW j \in 1 .. n - 1, rest[i] = rest[j]
                 PROVE  i = j
      BY <2>5, Zenon DEF NoDuplicates
    <3>1. \A k, m \in 1 .. n : list[k] = list[m] => k = m
      BY <1>1, Zenon DEF NoDuplicates
    <3>2. \A k \in 1 .. n - 1 : rest[k] = list[IF k < at THEN k ELSE k + 1]
      OBVIOUS
    <3>3. (IF i < at THEN i ELSE i + 1) = (IF j < at THEN j ELSE j + 1)
      BY <3>1, <3>2, <2>3, Zenon
    <3> QED BY <3>3, <2>2, <1>1
  <2>7. ASSUME NEW g
        PROVE  g \in Elements(rest) <=> g \in Elements(list) /\ g # f
    <3>1. ASSUME g \in Elements(rest) PROVE g \in Elements(list) /\ g # f
      <4>1. PICK i \in 1 .. n - 1 : g = rest[i]
        BY <3>1, <2>5, Zenon DEF Elements
      <4>2. PICK k \in 1 .. n : g = list[k] /\ k # at
        BY <4>1, <2>3, <2>2, <1>1
      <4> QED BY <4>2, <2>2, <1>1, Zenon DEF NoDuplicates, Elements
    <3>2. ASSUME g \in Elements(list), g # f PROVE g \in Elements(rest)
      <4>1. PICK k \in 1 .. n : g = list[k]
        BY <3>2, <1>1, Zenon DEF Elements
      <4>2. k # at
        BY <4>1, <3>2, <2>2, Zenon
      <4>3. CASE k < at
        <5>1. k \in 1 .. n - 1 /\ rest[k] = list[k]
          BY <4>3, <2>2, <1>1
        <5> QED BY <5>1, <4>1, <2>5, Zenon DEF Elements
      <4>4. CASE k > at
        <5>1. k - 1 \in 1 .. n - 1 /\ rest[k - 1] = list[k]
          BY <4>4, <2>2, <1>1
        <5> QED BY <5>1, <4>1, <2>5, Zenon DEF Elements
      <4> QED BY <4>2, <4>3, <4>4, <2>2, <1>1
    <3> QED BY <3>1, <3>2, Zenon
  <2> QED BY <2>1, <2>5, <2>6, <2>7, Zenon
<1> QED BY <1>2, <1>3, Zenon

\* The bound of LRUReplacer::unpin is never met: a list of distinct frames
\* that lacks one is shorter than the pool.
LEMMA RoomForAnother ==
    ASSUME NEW list \in Seq(Frame), NEW f \in Frame,
           NoDuplicates(list), f \notin Elements(list)
    PROVE  Len(list) < PoolSize
<1> SUFFICES ASSUME Len(list) >= PoolSize PROVE FALSE
  BY PoolAssumption
<1> DEFINE long == Append(list, f)
           n == Len(list) + 1
<1>1. long \in Seq(Frame) /\ NoDuplicates(long) /\ Len(long) = n
  BY AppendEffect
<1>n. n \in Nat /\ n > PoolSize
  BY PoolAssumption
<1> HIDE DEF long, n
<1>2. n \in Nat /\ n > PoolSize /\ long \in [1 .. n -> Frame] /\ DOMAIN long = 1 .. n
  BY <1>1, <1>n
<1>3. IsFiniteSet(1 .. n) /\ Cardinality(1 .. n) = n
  BY <1>2, FS_Interval, PoolAssumption
<1>4. IsFiniteSet(Frame) /\ Cardinality(Frame) = PoolSize
  <2>1. 0 \in Int /\ PoolSize - 1 \in Int /\ ~(0 > PoolSize - 1)
    BY PoolAssumption
  <2> QED BY <2>1, FS_Interval, PoolAssumption DEF Frame
<1>5. \E i, j \in 1 .. n : i # j /\ long[i] = long[j]
  BY <1>2, <1>3, <1>4, FS_PigeonHole
<1> QED BY <1>1, <1>2, <1>5, Zenon DEF NoDuplicates

\* LRUReplacer::unpin adds exactly the frame.
LEMMA UnpinEffect ==
    ASSUME NEW list \in Seq(Frame), NEW f \in Frame,
           NoDuplicates(list), f \notin Elements(list)
    PROVE  /\ unpin(list, f) \in Seq(Frame)
           /\ NoDuplicates(unpin(list, f))
           /\ \A g : g \in Elements(unpin(list, f)) <=> g \in Elements(list) \/ g = f
<1>1. unpin(list, f) = Append(list, f)
  BY RoomForAnother, PoolAssumption DEF unpin
<1> QED BY <1>1, AppendEffect

-----------------------------------------------------------------------------
(* The inductive invariant of the table and the lists.                     *)

\* Pages in the pool have been allocated, so new_page never maps a page that
\* is already mapped.
Allocated == \A p \in PageId : page_table[p] # NoFrame => p.page_no < fd2pageno[p.fd]

IInv == TypeOK /\ Allocated /\ PageTableExact /\ FramePartition

\* The id of an empty frame is not the id of a page, and no page is in frame -1.
LEMMA NoPageIsNone == NoPage \notin PageId /\ NoFrame \notin Frame
BY PoolAssumption DEF NoPage, PageId, NoFrame, Frame

\* A mapped page is in a frame that carries its id.
LEMMA MappedFrame ==
    ASSUME IInv, NEW p \in PageId, page_table[p] # NoFrame
    PROVE  page_table[p] \in Frame /\ id[page_table[p]] = p /\ id[page_table[p]] # NoPage
BY NoPageIsNone DEF IInv, TypeOK, PageTableExact

\* Both lists are lists of distinct frames.
LEMMA ListsDistinct ==
    ASSUME IInv
    PROVE  /\ free_list \in Seq(Frame) /\ NoDuplicates(free_list)
           /\ LRUlist \in Seq(Frame) /\ NoDuplicates(LRUlist)
BY Zenon DEF IInv, TypeOK, FramePartition

\* The initial state of BufferPoolManager: all frames are free, in order.
LEMMA InitIInv == Init => IInv
<1> SUFFICES ASSUME Init PROVE IInv
  OBVIOUS
<1>1. /\ free_list \in Seq(Frame) /\ DOMAIN free_list = 1 .. PoolSize
      /\ \A i \in 1 .. PoolSize : free_list[i] = i - 1
  <2>1. PoolSize \in Nat /\ free_list \in [1 .. PoolSize -> Frame]
    BY PoolAssumption DEF Init, Frame
  <2> QED BY <2>1 DEF Init
<1>2. TypeOK
  BY <1>1, PoolAssumption, ZeroAssumption DEF Init, TypeOK
<1>3. Allocated
  BY Zenon DEF Init, Allocated
<1>4. PageTableExact
  BY NoPageIsNone, Zenon DEF Init, PageTableExact
<1>5. FramePartition
  <2>1. NoDuplicates(free_list) /\ NoDuplicates(LRUlist)
    BY <1>1, PoolAssumption DEF Init, NoDuplicates
  <2>2. ASSUME NEW f \in Frame PROVE f \in Elements(free_list)
    <3>1. f + 1 \in 1 .. PoolSize /\ free_list[f + 1] = f
      BY <1>1, PoolAssumption DEF Frame
    <3> QED BY <3>1, <1>1, Zenon DEF Elements
  <2>3. \A f \in Frame : f \notin Elements(LRUlist)
    BY DEF Init, Elements
  <2> QED BY <2>1, <2>2, <2>3 DEF Init, FramePartition
<1> QED BY <1>2, <1>3, <1>4, <1>5, Zenon DEF IInv

\* find_victim_page: the victim is unpinned and in no list afterwards.
LEMMA VictimEffect ==
    ASSUME IInv, HasVictim
    PROVE  /\ Victim \in Frame
           /\ Victim \notin stranded
           /\ pin_count[Victim] = 0
           /\ free_list # <<>> <=> id[Victim] = NoPage
           /\ find_victim_page =>
                /\ free_list' \in Seq(Frame) /\ NoDuplicates(free_list')
                /\ LRUlist' \in Seq(Frame) /\ NoDuplicates(LRUlist')
                /\ \A g : g \in Elements(free_list') <=> g \in Elements(free_list) /\ g # Victim
                /\ \A g : g \in Elements(LRUlist') <=> g \in Elements(LRUlist) /\ g # Victim
<1>1. /\ free_list \in Seq(Frame) /\ NoDuplicates(free_list)
      /\ LRUlist \in Seq(Frame) /\ NoDuplicates(LRUlist)
  BY Zenon DEF IInv, TypeOK, FramePartition
<1>2. CASE free_list # <<>>
  <2>1. Victim = Head(free_list)
    BY <1>2, Zenon DEF Victim
  <2>2. Victim \in Frame /\ Victim \in Elements(free_list)
    BY <2>1, <1>1, <1>2, TailEffect, Zenon
  <2>3. id[Victim] = NoPage /\ pin_count[Victim] = 0 /\ Victim \notin stranded
    BY <2>2, Zenon DEF IInv, FramePartition
  <2>4. \A g \in Elements(LRUlist) : g # Victim
    BY <2>2, <2>3, Zenon DEF IInv, FramePartition
  <2>5. find_victim_page => free_list' = Tail(free_list) /\ LRUlist' = LRUlist
    BY <1>2, Zenon DEF find_victim_page
  <2>6. /\ Tail(free_list) \in Seq(Frame) /\ NoDuplicates(Tail(free_list))
        /\ \A g : g \in Elements(Tail(free_list)) <=> g \in Elements(free_list) /\ g # Victim
    BY <2>1, <1>1, <1>2, TailEffect, Zenon
  <2> QED BY <1>1, <1>2, <2>2, <2>3, <2>4, <2>5, <2>6, Zenon
<1>3. CASE free_list = <<>>
  <2>1. Victim = Head(LRUlist) /\ LRUlist # <<>>
    BY <1>3, Zenon DEF Victim, HasVictim
  <2>2. Victim \in Frame /\ Victim \in Elements(LRUlist)
    BY <2>1, <1>1, TailEffect, Zenon
  <2>3. id[Victim] # NoPage /\ pin_count[Victim] = 0 /\ Victim \notin stranded
    BY <2>2, Zenon DEF IInv, FramePartition
  <2>4. \A g \in Elements(free_list) : g # Victim
    BY <2>2, <2>3, Zenon DEF IInv, FramePartition
  <2>5. find_victim_page => free_list' = free_list /\ LRUlist' = Tail(LRUlist)
    BY <1>3, Zenon DEF find_victim_page
  <2>6. /\ Tail(LRUlist) \in Seq(Frame) /\ NoDuplicates(Tail(LRUlist))
        /\ \A g : g \in Elements(Tail(LRUlist)) <=> g \in Elements(LRUlist) /\ g # Victim
    BY <2>1, <1>1, TailEffect, Zenon
  <2> QED BY <1>1, <1>3, <2>2, <2>3, <2>4, <2>5, <2>6, Zenon
<1> QED BY <1>2, <1>3, Zenon

\* update_page gives the victim to a page that is in no frame and unmaps the
\* page it held; the table and the ids stay in agreement.
LEMMA RemapExact ==
    ASSUME IInv, NEW f \in Frame, NEW p \in PageId, page_table[p] = NoFrame,
           page_table' = Remapped(f, p), id' = [id EXCEPT ![f] = p]
    PROVE  /\ PageTableExact'
           /\ page_table' \in [PageId -> Frame \cup {NoFrame}]
           /\ id' \in [Frame -> PageId \cup {NoPage}]
<1>1. \A q \in PageId : page_table'[q] =
          IF q = p THEN f ELSE IF q = id[f] THEN NoFrame ELSE page_table[q]
  BY Zenon DEF Remapped
<1>2. \A g \in Frame : id'[g] = IF g = f THEN p ELSE id[g]
  BY Zenon DEF IInv, TypeOK
<1>3. PageTableExact'
  BY <1>1, <1>2, NoPageIsNone DEF PageTableExact, IInv, TypeOK
<1>4. page_table' \in [PageId -> Frame \cup {NoFrame}]
  BY Zenon DEF Remapped, IInv, TypeOK
<1>5. id' \in [Frame -> PageId \cup {NoPage}]
  BY Zenon DEF IInv, TypeOK
<1> QED BY <1>3, <1>4, <1>5, Zenon

\* The part that fetch_page and new_page share keeps the table, the lists and
\* the types.
LEMMA InstallStep ==
    ASSUME IInv, NEW c \in Client, NEW p \in PageId, NEW contents \in Data,
           page_table[p] = NoFrame, HasVictim, find_victim_page,
           Install(c, Victim, p, contents),
           UNCHANGED <<stranded, faults, latch>>, fd2pageno' \in [Fd -> 0 .. MaxPages]
    PROVE  TypeOK' /\ PageTableExact' /\ FramePartition'
<1> DEFINE f == Victim
<1>1. /\ f \in Frame /\ f \notin stranded /\ pin_count[f] = 0
      /\ free_list' \in Seq(Frame) /\ NoDuplicates(free_list')
      /\ LRUlist' \in Seq(Frame) /\ NoDuplicates(LRUlist')
      /\ \A g : g \in Elements(free_list') <=> g \in Elements(free_list) /\ g # f
      /\ \A g : g \in Elements(LRUlist') <=> g \in Elements(LRUlist) /\ g # f
  BY VictimEffect, Zenon
<1>2. /\ disk' = WrittenBack(f)
      /\ page_table' = Remapped(f, p)
      /\ id' = [id EXCEPT ![f] = p]
      /\ data' = [data EXCEPT ![f] = contents]
      /\ is_dirty' = [is_dirty EXCEPT ![f] = FALSE]
      /\ pin_count' = [pin_count EXCEPT ![f] = 1]
      /\ ptr' = [ptr EXCEPT ![c][p] = f]
      /\ UNCHANGED <<wrote, stranded, faults, latch>>
  BY Zenon DEF Install
<1> HIDE DEF f
<1>3. /\ PageTableExact'
      /\ page_table' \in [PageId -> Frame \cup {NoFrame}]
      /\ id' \in [Frame -> PageId \cup {NoPage}]
  BY <1>1, <1>2, RemapExact, Zenon
<1>4. disk' \in [PageId -> Data]
  BY <1>1, <1>2, Zenon DEF WrittenBack, IInv, TypeOK
<1>5. TypeOK'
  BY <1>1, <1>2, <1>3, <1>4 DEF IInv, TypeOK
<1>6. FramePartition'
  BY <1>1, <1>2, NoPageIsNone DEF IInv, TypeOK, FramePartition
<1> QED BY <1>3, <1>5, <1>6, Zenon

\* delete_page and a turn of delete_all_pages: the frame becomes free.
LEMMA EmptiedStep ==
    ASSUME IInv, NEW p \in PageId, page_table[p] # NoFrame,
           LRUlist' = pin(LRUlist, page_table[p]), Emptied(page_table[p], p),
           disk' \in [PageId -> Data], UNCHANGED <<fd2pageno, clientVars, faults, latch>>
    PROVE  IInv'
<1> DEFINE f == page_table[p]
<1>1. f \in Frame /\ id[f] = p /\ id[f] # NoPage
  BY MappedFrame, Zenon
<1>2. /\ page_table' = [page_table EXCEPT ![p] = NoFrame]
      /\ id' = [id EXCEPT ![f] = NoPage]
      /\ data' = [data EXCEPT ![f] = Zero]
      /\ is_dirty' = [is_dirty EXCEPT ![f] = FALSE]
      /\ pin_count' = [pin_count EXCEPT ![f] = 0]
      /\ free_list' = Append(free_list, f)
      /\ stranded' = stranded \ {f}
      /\ LRUlist' = pin(LRUlist, f)
      /\ UNCHANGED <<fd2pageno, ptr, wrote, faults, latch>>
  BY Zenon DEF Emptied, clientVars
<1> HIDE DEF f
<1>3. /\ free_list' \in Seq(Frame) /\ NoDuplicates(free_list')
      /\ \A g : g \in Elements(free_list') <=> g \in Elements(free_list) \/ g = f
  <2>1. f \notin Elements(free_list)
    BY <1>1, Zenon DEF IInv, FramePartition
  <2> QED BY <1>1, <1>2, <2>1, ListsDistinct, AppendEffect, Zenon
<1>4. /\ LRUlist' \in Seq(Frame) /\ NoDuplicates(LRUlist')
      /\ \A g : g \in Elements(LRUlist') <=> g \in Elements(LRUlist) /\ g # f
  BY <1>1, <1>2, ListsDistinct, PinEffect
<1>5. TypeOK'
  BY <1>1, <1>2, <1>3, <1>4, ZeroAssumption DEF IInv, TypeOK
<1>6. Allocated'
  BY <1>2, Zenon DEF IInv, TypeOK, Allocated
<1>7. PageTableExact'
  BY <1>1, <1>2, NoPageIsNone DEF IInv, TypeOK, PageTableExact
<1>8. FramePartition'
  BY <1>1, <1>2, <1>3, <1>4 DEF IInv, TypeOK, FramePartition
<1> QED BY <1>5, <1>6, <1>7, <1>8, Zenon DEF IInv

-----------------------------------------------------------------------------
(* One lemma per operation that moves frames.                              *)

\* fetch_page of a page in the pool: the frame leaves the LRU list.
LEMMA FetchHitStep ==
    ASSUME IInv, NEW c \in Client, NEW p \in PageId, FetchHit(c, p)
    PROVE  IInv'
<1> DEFINE f == page_table[p]
<1>1. f \in Frame /\ id[f] # NoPage
  BY MappedFrame, Zenon DEF FetchHit
<1>2. /\ pin_count' = [pin_count EXCEPT ![f] = @ + 1]
      /\ LRUlist' = pin(LRUlist, f)
      /\ ptr' = [ptr EXCEPT ![c][p] = f]
      /\ stranded' = stranded \ {f}
      /\ UNCHANGED <<page_table, free_list, id, data, is_dirty, disk, fd2pageno, wrote, faults,
                     latch>>
  BY Zenon DEF FetchHit
<1> HIDE DEF f
<1>3. /\ LRUlist' \in Seq(Frame) /\ NoDuplicates(LRUlist')
      /\ \A g : g \in Elements(LRUlist') <=> g \in Elements(LRUlist) /\ g # f
  BY <1>1, <1>2, ListsDistinct, PinEffect, Zenon
<1>4. TypeOK'
  BY <1>1, <1>2, <1>3 DEF IInv, TypeOK
<1>5. Allocated' /\ PageTableExact'
  BY <1>2, Zenon DEF IInv, Allocated, PageTableExact
<1>6. FramePartition'
  <2>1. pin_count'[f] # 0
    BY <1>1, <1>2 DEF IInv, TypeOK
  <2> QED BY <1>1, <1>2, <1>3, <2>1 DEF IInv, TypeOK, FramePartition
<1> QED BY <1>4, <1>5, <1>6, Zenon DEF IInv

\* fetch_page of a page that is not in the pool.
LEMMA FetchMissStep ==
    ASSUME IInv, NEW c \in Client, NEW p \in PageId, FetchMiss(c, p)
    PROVE  IInv'
<1>1. TypeOK' /\ PageTableExact' /\ FramePartition'
  BY InstallStep, Zenon DEF FetchMiss, IInv, TypeOK
<1>2. Allocated'
  BY VictimEffect, NoPageIsNone, Zenon
  DEF FetchMiss, MayFetch, Install, Remapped, IInv, TypeOK, Allocated
<1> QED BY <1>1, <1>2, Zenon DEF IInv

\* The page numbers that new_page takes are those of pages.
LEMMA NextPageIsPage ==
    ASSUME IInv, NEW fd \in Fd, fd2pageno[fd] < MaxPages
    PROVE  /\ NextPage(fd) \in PageId
           /\ NextPage(fd).fd = fd /\ NextPage(fd).page_no = fd2pageno[fd]
           /\ page_table[NextPage(fd)] = NoFrame
           /\ [fd2pageno EXCEPT ![fd] = @ + 1] \in [Fd -> 0 .. MaxPages]
           /\ \A p \in PageId : p.fd \in Fd /\ p.page_no \in Int
<1>1. /\ NextPage(fd) \in PageId
      /\ NextPage(fd).fd = fd /\ NextPage(fd).page_no = fd2pageno[fd]
  BY PoolAssumption DEF NextPage, PageId, IInv, TypeOK
<1>2. page_table[NextPage(fd)] = NoFrame
  BY <1>1 DEF IInv, TypeOK, Allocated
<1>3. [fd2pageno EXCEPT ![fd] = @ + 1] \in [Fd -> 0 .. MaxPages]
  BY PoolAssumption DEF IInv, TypeOK
<1>4. \A p \in PageId : p.fd \in Fd /\ p.page_no \in Int
  BY PoolAssumption DEF PageId
<1> QED BY <1>1, <1>2, <1>3, <1>4, Zenon

\* new_page.
LEMMA NewPageStep ==
    ASSUME IInv, NEW c \in Client, NEW fd \in Fd, new_page(c, fd)
    PROVE  IInv'
<1> DEFINE p == NextPage(fd)
<1>1. /\ p \in PageId /\ p.fd = fd /\ p.page_no = fd2pageno[fd]
      /\ page_table[p] = NoFrame
      /\ fd2pageno' \in [Fd -> 0 .. MaxPages]
      /\ \A q \in PageId : q.fd \in Fd /\ q.page_no \in Int
  BY NextPageIsPage, Zenon DEF new_page
<1>2. /\ HasVictim /\ find_victim_page /\ Install(c, Victim, p, Zero)
      /\ fd2pageno' = [fd2pageno EXCEPT ![fd] = @ + 1]
      /\ UNCHANGED <<stranded, faults, latch>>
  BY Zenon DEF new_page
<1> HIDE DEF p
<1>3. TypeOK' /\ PageTableExact' /\ FramePartition'
  BY <1>1, <1>2, InstallStep, ZeroAssumption, Zenon
<1>4. ASSUME NEW q \in PageId, page_table'[q] # NoFrame
      PROVE  q.page_no < fd2pageno'[q.fd]
  <2>1. q = p \/ page_table[q] # NoFrame
    BY <1>2, <1>4, Zenon DEF Install, Remapped
  <2>2. q.page_no <= fd2pageno[q.fd] /\ (q.fd # fd => q.page_no < fd2pageno[q.fd])
    BY <2>1, <1>1 DEF IInv, TypeOK, Allocated
  <2> QED BY <2>2, <1>1, <1>2 DEF IInv, TypeOK
<1>5. Allocated'
  BY <1>4, Zenon DEF Allocated
<1> QED BY <1>3, <1>5, Zenon DEF IInv

\* A failed write-back takes the victim out of its list and changes nothing
\* else but, in new_page, the next page number.
LEMMA WriteFailsStep ==
    ASSUME IInv, WriteFails, UNCHANGED <<page_table, frameVars, disk, clientVars, latch>>,
           fd2pageno' \in [Fd -> 0 .. MaxPages],
           \A p \in PageId : fd2pageno'[p.fd] >= fd2pageno[p.fd] /\ p.fd \in Fd /\ p.page_no \in Int
    PROVE  IInv'
<1> DEFINE f == Victim
<1>1. /\ f \in Frame /\ f \notin stranded /\ pin_count[f] = 0 /\ id[f] # NoPage
      /\ free_list' \in Seq(Frame) /\ NoDuplicates(free_list')
      /\ LRUlist' \in Seq(Frame) /\ NoDuplicates(LRUlist')
      /\ \A g : g \in Elements(free_list') <=> g \in Elements(free_list) /\ g # f
      /\ \A g : g \in Elements(LRUlist') <=> g \in Elements(LRUlist) /\ g # f
  BY VictimEffect, Zenon DEF WriteFails
<1>2. /\ stranded' = stranded \cup {f} /\ faults' = faults + 1 /\ faults < MaxFaults
      /\ UNCHANGED <<page_table, id, data, is_dirty, pin_count, disk, ptr, wrote, latch>>
  BY Zenon DEF WriteFails, frameVars, clientVars
<1> HIDE DEF f
<1>3. TypeOK'
  BY <1>1, <1>2, PoolAssumption DEF IInv, TypeOK
<1>4. Allocated'
  BY <1>2 DEF IInv, TypeOK, Allocated
<1>5. PageTableExact'
  BY <1>2 DEF IInv, PageTableExact
<1>6. FramePartition'
  BY <1>1, <1>2 DEF IInv, TypeOK, FramePartition
<1> QED BY <1>3, <1>4, <1>5, <1>6 DEF IInv

\* A failed read frees the victim.
LEMMA FetchReadFailsStep ==
    ASSUME IInv, NEW c \in Client, NEW p \in PageId, FetchReadFails(c, p)
    PROVE  IInv'
<1> DEFINE f == Victim
           rest == IF free_list # <<>> THEN Tail(free_list) ELSE <<>>
<1>1. /\ f \in Frame /\ f \notin stranded /\ pin_count[f] = 0
      /\ free_list # <<>> <=> id[f] = NoPage
  BY VictimEffect, Zenon DEF FetchReadFails
<1>2. /\ page_table[p] = NoFrame
      /\ faults < MaxFaults /\ faults' = faults + 1
      /\ free_list' = Append(rest, f)
      /\ LRUlist' = (IF free_list # <<>> THEN LRUlist ELSE Tail(LRUlist))
      /\ disk' = WrittenBack(f)
      /\ page_table' = [Remapped(f, p) EXCEPT ![p] = NoFrame]
      /\ id' = [id EXCEPT ![f] = NoPage]
      /\ data' = [data EXCEPT ![f] = Zero]
      /\ is_dirty' = [is_dirty EXCEPT ![f] = FALSE]
      /\ pin_count' = [pin_count EXCEPT ![f] = 0]
      /\ UNCHANGED <<fd2pageno, ptr, wrote, stranded, latch>>
  BY Zenon DEF FetchReadFails, clientVars
<1>3. /\ rest \in Seq(Frame) /\ NoDuplicates(rest)
      /\ \A g : g \in Elements(rest) <=> g \in Elements(free_list) /\ g # f
  <2>1. CASE free_list # <<>>
    BY <2>1, ListsDistinct, TailEffect, Zenon DEF Victim
  <2>2. CASE free_list = <<>>
    BY <2>2 DEF Elements, NoDuplicates
  <2> QED BY <2>1, <2>2, Zenon
<1>4. /\ LRUlist' \in Seq(Frame) /\ NoDuplicates(LRUlist')
      /\ \A g : g \in Elements(LRUlist') <=> g \in Elements(LRUlist) /\ g # f
  <2>1. CASE free_list # <<>>
    <3>1. f \notin Elements(LRUlist)
      BY <1>1, <2>1, Zenon DEF IInv, FramePartition
    <3> QED BY <2>1, <3>1, <1>2, ListsDistinct, Zenon
  <2>2. CASE free_list = <<>>
    <3>1. LRUlist # <<>> /\ f = Head(LRUlist)
      BY <2>2, Zenon DEF FetchReadFails, HasVictim, Victim
    <3> QED BY <2>2, <3>1, <1>2, ListsDistinct, TailEffect
  <2> QED BY <2>1, <2>2, Zenon
<1> HIDE DEF f, rest
<1>5. /\ free_list' \in Seq(Frame) /\ NoDuplicates(free_list')
      /\ \A g : g \in Elements(free_list') <=> g \in Elements(free_list) \/ g = f
  BY <1>1, <1>2, <1>3, AppendEffect, Zenon
<1>6. disk' \in [PageId -> Data]
  BY <1>1, <1>2, Zenon DEF WrittenBack, IInv, TypeOK
<1>7. \A q \in PageId : page_table'[q] = IF q = p \/ q = id[f] THEN NoFrame ELSE page_table[q]
  BY <1>2, Zenon DEF Remapped
<1>8. TypeOK'
  <2>1. page_table' \in [PageId -> Frame \cup {NoFrame}]
    BY <1>1, <1>2, Zenon DEF Remapped, IInv, TypeOK
  <2>2. /\ id' \in [Frame -> PageId \cup {NoPage}]
        /\ data' \in [Frame -> Data]
        /\ is_dirty' \in [Frame -> BOOLEAN]
        /\ pin_count' \in [Frame -> Nat]
        /\ faults' \in 0 .. MaxFaults
    BY <1>1, <1>2, PoolAssumption, ZeroAssumption DEF IInv, TypeOK
  <2> QED BY <1>2, <1>4, <1>5, <1>6, <2>1, <2>2, Zenon DEF IInv, TypeOK
<1>9. Allocated'
  BY <1>2, <1>7, Zenon DEF IInv, Allocated
<1>10. PageTableExact'
  <2>1. ASSUME NEW q \in PageId, NEW g \in Frame PROVE page_table'[q] = g <=> id'[g] = q
    <3>1. id'[g] = IF g = f THEN NoPage ELSE id[g]
      BY <1>2, Zenon DEF IInv, TypeOK
    <3>2. page_table[q] = g <=> id[g] = q
      BY Zenon DEF IInv, PageTableExact
    <3>3. NoPage # q /\ NoFrame # g
      BY NoPageIsNone, Zenon
    <3>4. CASE q = p
      BY <1>2, <1>7, <3>1, <3>2, <3>3, <3>4, Zenon
    <3>5. CASE q # p /\ q = id[f]
      BY <1>1, <1>7, <3>1, <3>2, <3>3, <3>5, Zenon DEF IInv, PageTableExact
    <3>6. CASE q # p /\ q # id[f]
      BY <1>1, <1>7, <3>1, <3>2, <3>3, <3>6, Zenon
    <3> QED BY <3>4, <3>5, <3>6, Zenon
  <2> QED BY <2>1, Zenon DEF PageTableExact
<1>11. FramePartition'
  BY <1>1, <1>2, <1>4, <1>5 DEF IInv, TypeOK, FramePartition
<1> QED BY <1>8, <1>9, <1>10, <1>11, Zenon DEF IInv

\* unpin_page: a frame that loses its last pin becomes evictable, also when
\* the pin is that of another client, as after delete_all_pages.
LEMMA UnpinPageStep ==
    ASSUME IInv, NEW c \in Client, NEW p \in PageId, unpin_page(c, p)
    PROVE  IInv'
<1> DEFINE f == page_table[p]
<1>1. /\ ptr' = [ptr EXCEPT ![c][p] = NoFrame]
      /\ wrote' = [wrote EXCEPT ![c][p] = FALSE]
      /\ UNCHANGED <<page_table, free_list, id, data, disk, fd2pageno, stranded, faults, latch>>
  BY Zenon DEF unpin_page
<1>2. Allocated' /\ PageTableExact'
  BY <1>1, Zenon DEF IInv, Allocated, PageTableExact
<1>3. CASE f # NoFrame /\ pin_count[f] > 0
  <2>1. f \in Frame /\ id[f] # NoPage
    BY <1>3, MappedFrame, Zenon
  <2>2. /\ pin_count' = [pin_count EXCEPT ![f] = @ - 1]
        /\ is_dirty' = [is_dirty EXCEPT ![f] = @ \/ wrote[c][p]]
        /\ LRUlist' = IF pin_count[f] = 1 THEN unpin(LRUlist, f) ELSE LRUlist
    BY <1>3, Zenon DEF unpin_page
  <2>3. f \notin Elements(LRUlist) /\ f \notin stranded
    BY <1>3, <2>1 DEF IInv, TypeOK, FramePartition
  <2>4. /\ LRUlist' \in Seq(Frame) /\ NoDuplicates(LRUlist')
        /\ \A g : g \in Elements(LRUlist')
                    <=> g \in Elements(LRUlist) \/ (g = f /\ pin_count[f] = 1)
    BY <2>1, <2>2, <2>3, ListsDistinct, UnpinEffect
  <2> HIDE DEF f
  <2>5. pin_count' \in [Frame -> Nat] /\ (pin_count'[f] = 0 <=> pin_count[f] = 1)
    BY <1>3, <2>1, <2>2 DEF IInv, TypeOK
  <2>6. is_dirty' \in [Frame -> BOOLEAN]
    BY <2>1, <2>2, Zenon DEF IInv, TypeOK
  <2>7. TypeOK'
    BY <1>1, <2>1, <2>4, <2>5, <2>6 DEF IInv, TypeOK
  <2>8. \A g \in Frame : g # f => pin_count'[g] = pin_count[g]
    BY <2>1, <2>2, Zenon DEF IInv, TypeOK
  <2>9. \A g \in Frame : g # f => (is_dirty'[g] => is_dirty[g])
    BY <2>1, <2>2, Zenon DEF IInv, TypeOK
  <2>10. ASSUME NEW g \in Frame
         PROVE  /\ g \in Elements(free_list') <=> id'[g] = NoPage
                /\ g \in Elements(LRUlist')
                      <=> id'[g] # NoPage /\ pin_count'[g] = 0 /\ g \notin stranded'
                /\ g \in stranded' => id'[g] # NoPage /\ pin_count'[g] = 0
                /\ id'[g] = NoPage => pin_count'[g] = 0 /\ ~is_dirty'[g]
    <3>1. CASE g = f
      BY <3>1, <1>1, <1>3, <2>1, <2>3, <2>4, <2>5 DEF IInv, FramePartition
    <3>2. CASE g # f
      BY <3>2, <1>1, <2>4, <2>8, <2>9 DEF IInv, FramePartition
    <3> QED BY <3>1, <3>2, Zenon
  <2>11. FramePartition'
    BY <1>1, <2>4, <2>10, ListsDistinct DEF FramePartition
  <2> QED BY <1>2, <2>7, <2>11, Zenon DEF IInv
<1>4. CASE ~(f # NoFrame /\ pin_count[f] > 0)
  <2>1. UNCHANGED <<pin_count, is_dirty, LRUlist>>
    BY <1>4, Zenon DEF unpin_page
  <2>2. TypeOK'
    BY <1>1, <2>1, Zenon DEF IInv, TypeOK
  <2>3. FramePartition'
    BY <1>1, <2>1, Zenon DEF IInv, FramePartition
  <2> QED BY <1>2, <2>2, <2>3, Zenon DEF IInv
<1> QED BY <1>3, <1>4, Zenon

\* delete_page and the turns of delete_all_pages.
LEMMA DeleteStep ==
    ASSUME IInv, NEW p \in PageId, delete_page(p) \/ DeleteTurn(p)
    PROVE  IInv'
<1>1. page_table[p] # NoFrame /\ page_table[p] \in Frame
  BY MappedFrame, Zenon DEF delete_page, DeleteTurn
<1>2. disk' \in [PageId -> Data]
  BY <1>1, Zenon DEF delete_page, DeleteTurn, WrittenBack, IInv, TypeOK
<1> QED BY <1>1, <1>2, EmptiedStep, Zenon DEF delete_page, DeleteTurn

\* Flushing, changing data and taking or releasing the latch move no frame.
LEMMA QuietStep ==
    ASSUME IInv,
           \/ \E p \in PageId : flush_page(p)
           \/ \E fd \in Fd : flush_all_pages(fd) \/ delete_all_pages(fd)
           \/ DeleteEnd
           \/ \E c \in Client, p \in PageId, contents \in Data : ChangeData(c, p, contents)
           \/ UNCHANGED vars
    PROVE  IInv'
<1>1. ASSUME NEW p \in PageId, flush_page(p) PROVE IInv'
  <2>1. page_table[p] \in Frame /\ id[page_table[p]] # NoPage
    BY <1>1, MappedFrame, Zenon DEF flush_page
  <2>2. TypeOK'
    BY <1>1, <2>1, Zenon DEF flush_page, tableVars, clientVars, IInv, TypeOK
  <2>3. FramePartition'
    BY <1>1, <2>1, Zenon DEF flush_page, tableVars, IInv, TypeOK, FramePartition
  <2> QED BY <1>1, <2>2, <2>3 DEF flush_page, tableVars, IInv, Allocated, PageTableExact
<1>2. ASSUME NEW fd \in Fd, flush_all_pages(fd) PROVE IInv'
  <2>1. disk' \in [PageId -> Data]
    BY <1>2, MappedFrame, Zenon DEF flush_all_pages, FlushedTo, IInv, TypeOK
  <2>2. is_dirty' \in [Frame -> BOOLEAN] /\ \A f \in Frame : is_dirty'[f] => is_dirty[f]
    BY <1>2, Zenon DEF flush_all_pages
  <2>3. UNCHANGED <<page_table, free_list, LRUlist, id, data, pin_count, fd2pageno, ptr, wrote,
                    stranded, faults, latch>>
    BY <1>2, Zenon DEF flush_all_pages, tableVars, clientVars
  <2>4. TypeOK'
    BY <2>1, <2>2, <2>3, Zenon DEF IInv, TypeOK
  <2>5. FramePartition'
    BY <2>2, <2>3, Zenon DEF IInv, FramePartition
  <2> QED BY <2>3, <2>4, <2>5, Zenon DEF IInv, Allocated, PageTableExact
<1>3. ASSUME (\E fd \in Fd : delete_all_pages(fd)) \/ DeleteEnd PROVE IInv'
  <2>1. /\ UNCHANGED <<page_table, free_list, LRUlist, id, data, is_dirty, pin_count, disk,
                       fd2pageno, ptr, wrote, stranded, faults>>
        /\ latch' \in Fd \cup {NoFd}
    BY <1>3, Zenon DEF delete_all_pages, DeleteEnd, tableVars, frameVars, clientVars
  <2> QED BY <2>1, Zenon DEF IInv, TypeOK, Allocated, PageTableExact, FramePartition
<1>4. ASSUME NEW c \in Client, NEW p \in PageId, NEW contents \in Data, ChangeData(c, p, contents)
      PROVE  IInv'
  <2>1. TypeOK'
    BY <1>4, Zenon DEF ChangeData, tableVars, IInv, TypeOK
  <2> QED BY <1>4, <2>1, Zenon DEF ChangeData, tableVars, IInv, Allocated, PageTableExact, FramePartition
<1>5. ASSUME UNCHANGED vars PROVE IInv'
  BY <1>5, Zenon DEF vars, tableVars, frameVars, clientVars, IInv, TypeOK, Allocated, PageTableExact,
              FramePartition
<1> QED BY <1>1, <1>2, <1>3, <1>4, <1>5

-----------------------------------------------------------------------------
(* The invariant of the table and the lists is inductive.                  *)

\* Every operation of the pool, and every turn of delete_all_pages, keeps IInv.
LEMMA IInvStep == IInv /\ [Next]_vars => IInv'
<1> SUFFICES ASSUME IInv, [Next]_vars PROVE IInv'
  OBVIOUS
<1>1. \A p \in PageId : p.fd \in Fd /\ p.page_no \in Int
  BY PoolAssumption DEF PageId
<1>2. ASSUME NEW c \in Client, ClientStep(c) PROVE IInv'
  <2>1. ASSUME NEW p \in PageId, FetchWriteFails(c, p) PROVE IInv'
    <3>1. WriteFails /\ UNCHANGED <<page_table, frameVars, disk, fd2pageno, clientVars, latch>>
      BY <2>1, Zenon DEF FetchWriteFails
    <3>2. fd2pageno' \in [Fd -> 0 .. MaxPages] /\ \A q \in PageId : fd2pageno'[q.fd] >= fd2pageno[q.fd]
      BY <3>1, <1>1, PoolAssumption DEF IInv, TypeOK
    <3> QED BY <3>1, <3>2, <1>1, WriteFailsStep, Zenon
  <2> QED BY <1>2, <2>1, FetchHitStep, FetchMissStep, FetchReadFailsStep, UnpinPageStep,
             NewPageStep, QuietStep DEF ClientStep
<1>3. ASSUME NEW fd \in Fd, NewWriteFails(fd) PROVE IInv'
  <2>1. /\ WriteFails /\ UNCHANGED <<page_table, frameVars, disk, clientVars, latch>>
        /\ fd2pageno' = [fd2pageno EXCEPT ![fd] = @ + 1] /\ fd2pageno[fd] < MaxPages
    BY <1>3, Zenon DEF NewWriteFails
  <2>2. fd2pageno' \in [Fd -> 0 .. MaxPages]
    BY <2>1, NextPageIsPage, Zenon
  <2>3. \A q \in PageId : fd2pageno'[q.fd] >= fd2pageno[q.fd]
    BY <2>1, <1>1, PoolAssumption DEF IInv, TypeOK
  <2> QED BY <2>1, <2>2, <2>3, <1>1, WriteFailsStep
<1>4. ASSUME FileStep PROVE IInv'
  BY <1>3, <1>4, DeleteStep, QuietStep DEF FileStep
<1> QED BY <1>2, <1>4, QuietStep DEF Next

\* The invariant holds in every reachable state of the pool.
THEOREM PoolInvariance == Spec => []IInv
BY InitIInv, IInvStep, PTL DEF Spec

\* BufferPoolManager's members keep their types, for every pool size and
\* whether or not threads use a file that is being closed.
THEOREM PoolTypeCorrect == Spec => []TypeOK
<1>1. IInv => TypeOK
  BY Zenon DEF IInv
<1> QED BY <1>1, PoolInvariance, PTL

\* page_table_ and the ids of the frames never disagree: fetch_page never
\* finds a frame that holds another page, and no page is in two frames.
THEOREM PageTableExactAlways == Spec => []PageTableExact
<1>1. IInv => PageTableExact
  BY Zenon DEF IInv
<1> QED BY <1>1, PoolInvariance, PTL

\* No operation, failing I/O and delete_all_pages on pinned pages included,
\* loses a frame or puts one into two lists.
THEOREM FramePartitionAlways == Spec => []FramePartition
<1>1. IInv => FramePartition
  BY Zenon DEF IInv
<1> QED BY <1>1, PoolInvariance, PTL

-----------------------------------------------------------------------------
(* The inductive invariant of the pages and the pins.                      *)

\* What holds of one page: a pointer to it is the frame it is in, the pin
\* count of the frame counts its users, and the file has what the frame has
\* unless the frame is dirty or a user has still to unpin a change.
PageOK(p) ==
    /\ \A c \in Client : ptr[c][p] # NoFrame => ptr[c][p] = page_table[p]
    /\ page_table[p] # NoFrame =>
         /\ pin_count[page_table[p]] = Cardinality(Users(p))
         /\ \/ is_dirty[page_table[p]]
            \/ \E c \in Users(p) : wrote[c][p]
            \/ data[page_table[p]] = disk[p]

\* The file that delete_all_pages empties has no user.
ClosedUnused ==
    latch # NoFd => \A c \in Client, p \in PageId : p.fd = latch => ptr[c][p] = NoFrame

\* A page that new_page has not handed out yet was never written.
FreshIsZero == \A p \in PageId : ~(p.page_no < fd2pageno[p.fd]) => disk[p] = Zero

SInv == IInv /\ (\A p \in PageId : PageOK(p)) /\ ClosedUnused /\ FreshIsZero

\* PageOK is the two properties of the pool.
LEMMA PageOKMeaning ==
    (\A p \in PageId : PageOK(p)) <=> PinProtects /\ CleanIsOnDisk
BY Zenon DEF PageOK, PinProtects, CleanIsOnDisk, Users

\* A page has finitely many users, and none exactly if the count is zero.
LEMMA UsersFinite ==
    ASSUME NEW p \in PageId
    PROVE  /\ IsFiniteSet(Users(p)) /\ Cardinality(Users(p)) \in Nat
           /\ Cardinality(Users(p)) = 0 <=> Users(p) = {}
<1>1. Users(p) \in SUBSET Client
  BY Zenon DEF Users
<1>2. IsFiniteSet(Users(p))
  BY <1>1, ClientAssumption, FS_Subset, Zenon
<1> QED BY <1>2, FS_CardinalityType, FS_EmptySet, Zenon

\* A page whose frame, pointers and contents an operation leaves alone stays
\* as it was.
LEMMA PageKept ==
    ASSUME NEW q \in PageId, PageOK(q), page_table'[q] = page_table[q],
           \A d \in Client : ptr'[d][q] = ptr[d][q] /\ wrote'[d][q] = wrote[d][q],
           page_table[q] # NoFrame =>
             /\ pin_count'[page_table[q]] = pin_count[page_table[q]]
             /\ is_dirty'[page_table[q]] = is_dirty[page_table[q]]
             /\ data'[page_table[q]] = data[page_table[q]]
             /\ disk'[q] = disk[q]
    PROVE  PageOK(q)'
<1>1. Users(q)' = Users(q)
  BY Zenon DEF Users
<1>2. ASSUME NEW c \in Client, ptr'[c][q] # NoFrame PROVE ptr'[c][q] = page_table'[q]
  BY <1>2, Zenon DEF PageOK
<1>3. ASSUME page_table'[q] # NoFrame
      PROVE  /\ pin_count'[page_table'[q]] = Cardinality(Users(q)')
             /\ \/ is_dirty'[page_table'[q]]
                \/ \E c \in Users(q)' : wrote'[c][q]
                \/ data'[page_table'[q]] = disk'[q]
  <2>1. pin_count'[page_table'[q]] = Cardinality(Users(q)')
    BY <1>1, <1>3, Zenon DEF PageOK
  <2>2. \/ is_dirty'[page_table'[q]]
        \/ \E c \in Users(q)' : wrote'[c][q]
        \/ data'[page_table'[q]] = disk'[q]
    <3>1. CASE is_dirty[page_table[q]]
      BY <3>1, <1>3, Zenon
    <3>2. CASE \E c \in Users(q) : wrote[c][q]
      BY <3>2, <1>1, Zenon DEF Users
    <3>3. CASE data[page_table[q]] = disk[q]
      BY <3>3, <1>3, Zenon
    <3> QED BY <1>3, <3>1, <3>2, <3>3, Zenon DEF PageOK
  <2> QED BY <2>1, <2>2, Zenon
<1> QED BY <1>2, <1>3, Zenon DEF PageOK, Users

\* A page that is in no frame and that nobody has pinned needs nothing.
LEMMA PageOut ==
    ASSUME NEW q \in PageId, page_table'[q] = NoFrame,
           \A d \in Client : ptr'[d][q] = NoFrame
    PROVE  PageOK(q)'
BY Zenon DEF PageOK

\* A page in no frame has no user.
LEMMA UnmappedUnused ==
    ASSUME SInv, NEW p \in PageId, page_table[p] = NoFrame
    PROVE  Users(p) = {} /\ \A c \in Client : ptr[c][p] = NoFrame
BY Zenon DEF SInv, PageOK, Users

\* The page in a frame without pins has no user, and is in its file unless
\* the frame is dirty.
LEMMA UnpinnedUnused ==
    ASSUME SInv, NEW f \in Frame, id[f] \in PageId, pin_count[f] = 0
    PROVE  /\ page_table[id[f]] = f
           /\ Users(id[f]) = {}
           /\ \A c \in Client : ptr[c][id[f]] = NoFrame
           /\ ~is_dirty[f] => data[f] = disk[id[f]]
<1>1. page_table[id[f]] = f
  BY Zenon DEF SInv, IInv, PageTableExact
<1>2. f # NoFrame
  BY NoPageIsNone, Zenon
<1>3. Users(id[f]) = {}
  BY <1>1, <1>2, UsersFinite, Zenon DEF SInv, PageOK
<1>4. \A c \in Client : ptr[c][id[f]] = NoFrame
  BY <1>3, Zenon DEF Users
<1>5. ~is_dirty[f] => data[f] = disk[id[f]]
  BY <1>1, <1>2, <1>3, Zenon DEF SInv, PageOK
<1> QED BY <1>1, <1>3, <1>4, <1>5

\* update_page writes a dirty victim to its own page and nowhere else.
LEMMA WriteBackEffect ==
    ASSUME IInv, NEW f \in Frame
    PROVE  \A q \in PageId : WrittenBack(f)[q] =
              IF q = id[f] /\ is_dirty[f] THEN data[f] ELSE disk[q]
<1>1. CASE id[f] # NoPage /\ is_dirty[f]
  <2>1. WrittenBack(f) = [disk EXCEPT ![id[f]] = data[f]] /\ id[f] \in PageId
    BY <1>1, Zenon DEF WrittenBack, IInv, TypeOK
  <2> QED BY <1>1, <2>1, Zenon DEF IInv, TypeOK
<1>2. CASE ~(id[f] # NoPage /\ is_dirty[f])
  <2>1. WrittenBack(f) = disk
    BY <1>2, Zenon DEF WrittenBack
  <2> QED BY <1>2, <2>1, NoPageIsNone, Zenon
<1> QED BY <1>1, <1>2, Zenon

-----------------------------------------------------------------------------
(* One lemma per operation that moves pages or pins.                       *)

\* Installing a page in the victim: the page that leaves had no user and is
\* written back if it is dirty; the page that comes has one user.
LEMMA InstallPageOK ==
    ASSUME SInv, NEW c \in Client, NEW p \in PageId, NEW contents \in Data,
           page_table[p] = NoFrame, HasVictim, Install(c, Victim, p, contents),
           contents = disk[p]
    PROVE  /\ \A q \in PageId : PageOK(q)'
           /\ \A q \in PageId : page_table[q] = NoFrame => disk'[q] = disk[q]
<1> DEFINE f == Victim
<1>1. f \in Frame /\ pin_count[f] = 0 /\ f # NoFrame
  BY VictimEffect, NoPageIsNone, Zenon DEF SInv
<1>2. /\ disk' = WrittenBack(f)
      /\ page_table' = Remapped(f, p)
      /\ data' = [data EXCEPT ![f] = contents]
      /\ is_dirty' = [is_dirty EXCEPT ![f] = FALSE]
      /\ pin_count' = [pin_count EXCEPT ![f] = 1]
      /\ ptr' = [ptr EXCEPT ![c][p] = f]
      /\ wrote' = wrote
  BY Zenon DEF Install
<1> HIDE DEF f
<1>3. \A q \in PageId : disk'[q] = IF q = id[f] /\ is_dirty[f] THEN data[f] ELSE disk[q]
  BY <1>1, <1>2, WriteBackEffect, Zenon DEF SInv
<1>4. \A q \in PageId : page_table'[q] =
          IF q = p THEN f ELSE IF q = id[f] THEN NoFrame ELSE page_table[q]
  BY <1>2, Zenon DEF Remapped
<1>5. p # id[f] /\ \A q \in PageId : page_table[q] = NoFrame => q # id[f]
  BY <1>1, Zenon DEF SInv, IInv, PageTableExact
<1>6. \A d \in Client, q \in PageId : ptr'[d][q] = IF d = c /\ q = p THEN f ELSE ptr[d][q]
  BY <1>2, Zenon DEF SInv, IInv, TypeOK
<1>7. ASSUME NEW q \in PageId PROVE PageOK(q)'
  <2>1. CASE q = p
    <3>1. \A d \in Client : ptr[d][p] = NoFrame
      BY UnmappedUnused, Zenon
    <3>2. Users(p)' = {c}
      BY <1>1, <1>6, <3>1 DEF Users
    <3>3. page_table'[p] = f /\ pin_count'[f] = 1 /\ data'[f] = disk'[p]
      BY <1>1, <1>2, <1>3, <1>4, <1>5 DEF SInv, IInv, TypeOK
    <3>4. \A d \in Client : ptr'[d][p] # NoFrame => ptr'[d][p] = f
      BY <1>6, <3>1, Zenon
    <3> QED BY <2>1, <3>2, <3>3, <3>4, FS_Singleton, Zenon DEF PageOK, Users
  <2>2. CASE q # p /\ q = id[f]
    <3>1. \A d \in Client : ptr[d][q] = NoFrame
      BY <1>1, <2>2, UnpinnedUnused, Zenon
    <3> QED BY <1>4, <1>6, <2>2, <3>1, PageOut
  <2>3. CASE q # p /\ q # id[f]
    <3>1. page_table'[q] = page_table[q] /\ disk'[q] = disk[q]
      BY <1>3, <1>4, <2>3
    <3>2. \A d \in Client : ptr'[d][q] = ptr[d][q] /\ wrote'[d][q] = wrote[d][q]
      BY <1>2, <1>6, <2>3
    <3>3. page_table[q] # NoFrame => page_table[q] \in Frame /\ page_table[q] # f
      BY <2>3, MappedFrame, Zenon DEF SInv
    <3>4. page_table[q] # NoFrame =>
             /\ pin_count'[page_table[q]] = pin_count[page_table[q]]
             /\ data'[page_table[q]] = data[page_table[q]]
      BY <1>2, <3>3 DEF SInv, IInv, TypeOK
    <3>5. page_table[q] # NoFrame => is_dirty'[page_table[q]] = is_dirty[page_table[q]]
      BY <1>2, <3>3, Zenon DEF SInv, IInv, TypeOK
    <3> QED BY <3>1, <3>2, <3>4, <3>5, PageKept DEF SInv
  <2> QED BY <2>1, <2>2, <2>3
<1>8. \A q \in PageId : page_table[q] = NoFrame => disk'[q] = disk[q]
  BY <1>3, <1>5, Zenon
<1> QED BY <1>7, <1>8, Zenon

\* A page beyond the end of its file is in no frame.
LEMMA FreshUnmapped ==
    ASSUME SInv, NEW p \in PageId, ~(p.page_no < fd2pageno[p.fd])
    PROVE  page_table[p] = NoFrame
BY Zenon DEF SInv, IInv, Allocated

\* fetch_page of a page that is not in the pool.
LEMMA FetchMissStore ==
    ASSUME SInv, NEW c \in Client, NEW p \in PageId, FetchMiss(c, p)
    PROVE  SInv'
<1>1. IInv'
  BY FetchMissStep, Zenon DEF SInv
<1>2. disk[p] \in Data
  BY Zenon DEF SInv, IInv, TypeOK
<1>3. /\ \A q \in PageId : PageOK(q)'
      /\ \A q \in PageId : page_table[q] = NoFrame => disk'[q] = disk[q]
  BY <1>2, InstallPageOK, Zenon DEF FetchMiss
<1>4. ClosedUnused'
  BY Zenon DEF FetchMiss, MayFetch, ClosedUnused
<1>5. FreshIsZero'
  BY <1>3, FreshUnmapped, Zenon DEF FetchMiss, FreshIsZero, SInv
<1> QED BY <1>1, <1>3, <1>4, <1>5 DEF SInv

\* new_page: the content given to the frame is the one the file has.
LEMMA NewPageStore ==
    ASSUME SInv, NEW c \in Client, NEW fd \in Fd, new_page(c, fd)
    PROVE  SInv'
<1>1. IInv'
  BY NewPageStep, Zenon DEF SInv
<1>2. /\ NextPage(fd) \in PageId
      /\ NextPage(fd).fd = fd /\ NextPage(fd).page_no = fd2pageno[fd]
      /\ page_table[NextPage(fd)] = NoFrame
      /\ \A p \in PageId : p.fd \in Fd /\ p.page_no \in Int
  BY NextPageIsPage, Zenon DEF SInv, new_page
<1>3. Zero = disk[NextPage(fd)] /\ fd2pageno[fd] \in Int
  BY <1>2 DEF SInv, FreshIsZero, IInv, TypeOK
<1>4. /\ \A q \in PageId : PageOK(q)'
      /\ \A q \in PageId : page_table[q] = NoFrame => disk'[q] = disk[q]
  BY <1>2, <1>3, ZeroAssumption, InstallPageOK DEF new_page
<1>5. ClosedUnused'
  BY Zenon DEF new_page, ClosedUnused
<1>6. \A p \in PageId : p.page_no < fd2pageno[p.fd] => p.page_no < fd2pageno'[p.fd]
  BY <1>2 DEF new_page, SInv, IInv, TypeOK
<1>7. FreshIsZero'
  BY <1>4, <1>6, FreshUnmapped, Zenon DEF FreshIsZero, SInv
<1> QED BY <1>1, <1>4, <1>5, <1>7 DEF SInv

\* fetch_page of a page in the pool: one more user, one more pin.
LEMMA FetchHitStore ==
    ASSUME SInv, NEW c \in Client, NEW p \in PageId, FetchHit(c, p)
    PROVE  SInv'
<1> DEFINE f == page_table[p]
<1>1. IInv'
  BY FetchHitStep, Zenon DEF SInv
<1>2. f \in Frame /\ f # NoFrame /\ ptr[c][p] = NoFrame /\ latch = NoFd
  BY MappedFrame, Zenon DEF FetchHit, MayFetch, SInv
<1>3. /\ pin_count' = [pin_count EXCEPT ![f] = @ + 1]
      /\ ptr' = [ptr EXCEPT ![c][p] = f]
      /\ UNCHANGED <<page_table, id, data, is_dirty, disk, fd2pageno, wrote, latch>>
  BY Zenon DEF FetchHit
<1>4. \A d \in Client, q \in PageId : ptr'[d][q] = IF d = c /\ q = p THEN f ELSE ptr[d][q]
  BY <1>3, Zenon DEF SInv, IInv, TypeOK
<1>5. ASSUME NEW q \in PageId PROVE PageOK(q)'
  <2>1. CASE q = p
    <3>1. Users(p)' = Users(p) \cup {c} /\ c \notin Users(p)
      BY <1>2, <1>4 DEF Users
    <3>2. Cardinality(Users(p) \cup {c}) = Cardinality(Users(p)) + 1
      BY <3>1, UsersFinite, FS_AddElement, Zenon
    <3>3. pin_count'[f] = Cardinality(Users(p)')
      BY <1>2, <1>3, <3>1, <3>2 DEF SInv, IInv, TypeOK, PageOK
    <3>4. \A d \in Client : ptr'[d][p] # NoFrame => ptr'[d][p] = f
      BY <1>4 DEF SInv, PageOK
    <3>5. \/ is_dirty'[f]
          \/ \E d \in Users(p)' : wrote'[d][p]
          \/ data'[f] = disk'[p]
      BY <1>2, <1>3, <3>1, Zenon DEF SInv, PageOK
    <3> QED BY <1>3, <2>1, <3>3, <3>4, <3>5 DEF PageOK, Users
  <2>2. CASE q # p
    <3>1. page_table[q] # NoFrame => page_table[q] \in Frame /\ page_table[q] # f
      BY <1>2, <2>2, MappedFrame DEF SInv
    <3>2. page_table[q] # NoFrame => pin_count'[page_table[q]] = pin_count[page_table[q]]
      BY <1>3, <3>1, Zenon DEF SInv, IInv, TypeOK
    <3> QED BY <1>3, <1>4, <2>2, <3>2, PageKept DEF SInv
  <2> QED BY <2>1, <2>2, Zenon
<1>6. ClosedUnused' /\ FreshIsZero'
  BY <1>2, <1>3, Zenon DEF SInv, ClosedUnused, FreshIsZero
<1> QED BY <1>1, <1>5, <1>6, Zenon DEF SInv

\* A failed read: the victim's page has left the pool, the wanted page has
\* not come.
LEMMA FetchReadFailsStore ==
    ASSUME SInv, NEW c \in Client, NEW p \in PageId, FetchReadFails(c, p)
    PROVE  SInv'
<1> DEFINE f == Victim
<1>1. IInv'
  BY FetchReadFailsStep, Zenon DEF SInv
<1>2. f \in Frame /\ pin_count[f] = 0 /\ f # NoFrame /\ page_table[p] = NoFrame /\ latch = NoFd
  BY VictimEffect, NoPageIsNone, Zenon DEF SInv, FetchReadFails, MayFetch
<1>3. /\ disk' = WrittenBack(f)
      /\ page_table' = [Remapped(f, p) EXCEPT ![p] = NoFrame]
      /\ data' = [data EXCEPT ![f] = Zero]
      /\ is_dirty' = [is_dirty EXCEPT ![f] = FALSE]
      /\ pin_count' = [pin_count EXCEPT ![f] = 0]
      /\ UNCHANGED <<fd2pageno, ptr, wrote, latch>>
  BY Zenon DEF FetchReadFails, clientVars
<1> HIDE DEF f
<1>4. \A q \in PageId : disk'[q] = IF q = id[f] /\ is_dirty[f] THEN data[f] ELSE disk[q]
  BY <1>2, <1>3, WriteBackEffect DEF SInv
<1>5. \A q \in PageId : page_table'[q] = IF q = p \/ q = id[f] THEN NoFrame ELSE page_table[q]
  BY <1>3, Zenon DEF Remapped
<1>6. \A q \in PageId : page_table[q] = NoFrame => q # id[f]
  BY <1>2, Zenon DEF SInv, IInv, PageTableExact
<1>7. ASSUME NEW q \in PageId PROVE PageOK(q)'
  <2>1. CASE q = p \/ q = id[f]
    <3>1. \A d \in Client : ptr[d][q] = NoFrame
      BY <1>2, <2>1, UnpinnedUnused, UnmappedUnused
    <3> QED BY <1>3, <1>5, <2>1, <3>1, PageOut, Zenon
  <2>2. CASE q # p /\ q # id[f]
    <3>1. page_table[q] # NoFrame => page_table[q] \in Frame /\ page_table[q] # f
      BY <2>2, MappedFrame, Zenon DEF SInv
    <3>2. page_table[q] # NoFrame =>
             /\ pin_count'[page_table[q]] = pin_count[page_table[q]]
             /\ data'[page_table[q]] = data[page_table[q]]
      BY <1>3, <3>1, Zenon DEF SInv, IInv, TypeOK
    <3>3. page_table[q] # NoFrame => is_dirty'[page_table[q]] = is_dirty[page_table[q]]
      BY <1>3, <3>1, Zenon DEF SInv, IInv, TypeOK
    <3> QED BY <1>3, <1>4, <1>5, <2>2, <3>2, <3>3, PageKept, Zenon DEF SInv
  <2> QED BY <2>1, <2>2, Zenon
<1>8. ClosedUnused' /\ FreshIsZero'
  BY <1>2, <1>3, <1>4, <1>6, FreshUnmapped DEF SInv, ClosedUnused, FreshIsZero
<1> QED BY <1>1, <1>7, <1>8, Zenon DEF SInv

\* A failed write-back, in fetch_page or in new_page, moves no page.
LEMMA WriteFailsStore ==
    ASSUME SInv, IInv', UNCHANGED <<page_table, frameVars, disk, clientVars, latch>>,
           \A p \in PageId : p.page_no < fd2pageno[p.fd] => p.page_no < fd2pageno'[p.fd]
    PROVE  SInv'
<1>1. UNCHANGED <<page_table, id, data, is_dirty, pin_count, disk, ptr, wrote, latch>>
  BY Zenon DEF frameVars, clientVars
<1>2. \A q \in PageId : PageOK(q)'
  BY <1>1, PageKept, Zenon DEF SInv
<1> QED BY <1>1, <1>2, Zenon DEF SInv, ClosedUnused, FreshIsZero

\* unpin_page: the frame of a user's page is there and has a pin to drop, and
\* a change of the user makes it dirty.
LEMMA UnpinPageStore ==
    ASSUME SInv, NEW c \in Client, NEW p \in PageId, unpin_page(c, p)
    PROVE  SInv'
<1> DEFINE f == page_table[p]
<1>1. IInv'
  BY UnpinPageStep, Zenon DEF SInv
<1>2. c \in Users(p) /\ f = ptr[c][p] /\ f # NoFrame /\ f \in Frame
  BY MappedFrame, Zenon DEF unpin_page, SInv, PageOK, Users
<1>3. pin_count[f] = Cardinality(Users(p)) /\ pin_count[f] > 0
  BY <1>2, UsersFinite DEF SInv, PageOK
<1>4. /\ pin_count' = [pin_count EXCEPT ![f] = @ - 1]
      /\ is_dirty' = [is_dirty EXCEPT ![f] = @ \/ wrote[c][p]]
      /\ ptr' = [ptr EXCEPT ![c][p] = NoFrame]
      /\ wrote' = [wrote EXCEPT ![c][p] = FALSE]
      /\ UNCHANGED <<page_table, data, disk, fd2pageno, latch>>
  BY <1>2, <1>3, Zenon DEF unpin_page
<1>5. \A d \in Client, q \in PageId :
         ptr'[d][q] = IF d = c /\ q = p THEN NoFrame ELSE ptr[d][q]
  BY <1>4, Zenon DEF SInv, IInv, TypeOK
<1>6. \A d \in Client, q \in PageId : d # c \/ q # p => wrote'[d][q] = wrote[d][q]
  BY <1>4, Zenon DEF SInv, IInv, TypeOK
<1>7. ASSUME NEW q \in PageId PROVE PageOK(q)'
  <2>1. CASE q = p
    <3>1. Users(p)' = Users(p) \ {c}
      BY <1>2, <1>5 DEF Users
    <3>2. Cardinality(Users(p) \ {c}) = Cardinality(Users(p)) - 1
      BY <1>2, UsersFinite, FS_RemoveElement, Zenon
    <3>3. pin_count'[f] = Cardinality(Users(p)')
      BY <1>2, <1>3, <1>4, <3>1, <3>2 DEF SInv, IInv, TypeOK
    <3>4. \A d \in Client : ptr'[d][p] # NoFrame => ptr'[d][p] = f
      BY <1>5, Zenon DEF SInv, PageOK
    <3>5. is_dirty[f] \/ wrote[c][p] => is_dirty'[f]
      BY <1>2, <1>4, Zenon DEF SInv, IInv, TypeOK
    <3>6. \/ is_dirty'[f]
          \/ \E d \in Users(p)' : wrote'[d][p]
          \/ data'[f] = disk'[p]
      <4>1. CASE \E d \in Users(p) : d # c /\ wrote[d][p]
        BY <4>1, <1>6, <3>1, Zenon DEF Users
      <4>2. CASE data[f] = disk[p]
        BY <1>4, <4>2, Zenon
      <4> QED BY <1>2, <3>5, <4>1, <4>2, Zenon DEF SInv, PageOK
    <3> QED BY <1>4, <2>1, <3>3, <3>4, <3>6 DEF PageOK, Users
  <2>2. CASE q # p
    <3>1. page_table[q] # NoFrame => page_table[q] \in Frame /\ page_table[q] # f
      BY <1>2, <2>2, MappedFrame DEF SInv
    <3>2. page_table[q] # NoFrame => pin_count'[page_table[q]] = pin_count[page_table[q]]
      BY <1>4, <3>1, Zenon DEF SInv, IInv, TypeOK
    <3>3. page_table[q] # NoFrame => is_dirty'[page_table[q]] = is_dirty[page_table[q]]
      BY <1>4, <3>1, Zenon DEF SInv, IInv, TypeOK
    <3>4. \A d \in Client : ptr'[d][q] = ptr[d][q] /\ wrote'[d][q] = wrote[d][q]
      BY <1>5, <1>6, <2>2, Zenon
    <3>5. UNCHANGED <<page_table, data, disk>> /\ PageOK(q)
      BY <1>4, Zenon DEF SInv
    <3> QED BY <3>2, <3>3, <3>4, <3>5, PageKept, Zenon
  <2> QED BY <2>1, <2>2, Zenon
<1>8. ClosedUnused' /\ FreshIsZero'
  BY <1>4, <1>5 DEF SInv, ClosedUnused, FreshIsZero
<1> QED BY <1>1, <1>7, <1>8, Zenon DEF SInv

\* delete_page, which refuses a pinned page, and a turn of delete_all_pages,
\* which runs for a file without users: the page leaves its frame.
LEMMA DeleteStore ==
    ASSUME SInv, NEW p \in PageId, delete_page(p) \/ DeleteTurn(p)
    PROVE  SInv'
<1> DEFINE f == page_table[p]
<1>1. IInv'
  BY DeleteStep, Zenon DEF SInv
<1>2. f \in Frame /\ id[f] = p /\ f # NoFrame
  BY MappedFrame, Zenon DEF delete_page, DeleteTurn, SInv
<1>3. \A d \in Client : ptr[d][p] = NoFrame
  <2>1. CASE delete_page(p)
    BY <1>2, <2>1, UnpinnedUnused DEF delete_page
  <2>2. CASE DeleteTurn(p)
    <3>1. latch = p.fd /\ latch # NoFd
      BY <2>2, NoFdAssumption, Zenon DEF DeleteTurn, PageId
    <3> QED BY <3>1, Zenon DEF SInv, ClosedUnused
  <2> QED BY <2>1, <2>2, Zenon
<1>4. /\ page_table' = [page_table EXCEPT ![p] = NoFrame]
      /\ data' = [data EXCEPT ![f] = Zero]
      /\ is_dirty' = [is_dirty EXCEPT ![f] = FALSE]
      /\ pin_count' = [pin_count EXCEPT ![f] = 0]
      /\ UNCHANGED <<fd2pageno, ptr, wrote, latch>>
  BY Zenon DEF delete_page, DeleteTurn, Emptied, clientVars
<1>5. \A q \in PageId : q # p => disk'[q] = disk[q]
  BY <1>2, WriteBackEffect DEF delete_page, DeleteTurn, SInv, IInv, TypeOK
<1>6. ASSUME NEW q \in PageId PROVE PageOK(q)'
  <2>1. CASE q = p
    <3>1. page_table'[p] = NoFrame /\ \A d \in Client : ptr'[d][p] = NoFrame
      BY <1>3, <1>4, Zenon DEF SInv, IInv, TypeOK
    <3> QED BY <2>1, <3>1, PageOut
  <2>2. CASE q # p
    <3>1. page_table'[q] = page_table[q]
      BY <1>4, <2>2, Zenon DEF SInv, IInv, TypeOK
    <3>2. page_table[q] # NoFrame => page_table[q] \in Frame /\ page_table[q] # f
      BY <1>2, <2>2, MappedFrame DEF SInv
    <3>3. page_table[q] # NoFrame =>
             /\ pin_count'[page_table[q]] = pin_count[page_table[q]]
             /\ data'[page_table[q]] = data[page_table[q]]
      BY <1>4, <3>2 DEF SInv, IInv, TypeOK
    <3>4. page_table[q] # NoFrame => is_dirty'[page_table[q]] = is_dirty[page_table[q]]
      BY <1>4, <3>2, Zenon DEF SInv, IInv, TypeOK
    <3> QED BY <1>4, <1>5, <2>2, <3>1, <3>3, <3>4, PageKept, Zenon DEF SInv
  <2> QED BY <2>1, <2>2, Zenon
<1>7. ClosedUnused' /\ FreshIsZero'
  BY <1>2, <1>4, <1>5, FreshUnmapped DEF SInv, ClosedUnused, FreshIsZero
<1> QED BY <1>1, <1>6, <1>7 DEF SInv

\* What a flush does to one page: it writes the frame of the page, or leaves
\* the page and is_dirty_ of its frame alone.
Written(q) == page_table[q] # NoFrame /\ disk'[q] = data[page_table[q]]
Left(q) ==
    /\ disk'[q] = disk[q]
    /\ page_table[q] # NoFrame => is_dirty'[page_table[q]] = is_dirty[page_table[q]]

\* flush_page and flush_all_pages write frames to their pages.
LEMMA FlushEffect ==
    ASSUME SInv,
           \/ \E p \in PageId : flush_page(p)
           \/ \E fd \in Fd : flush_all_pages(fd)
    PROVE  /\ UNCHANGED <<page_table, data, pin_count, fd2pageno, ptr, wrote, latch>>
           /\ \A q \in PageId : Written(q) \/ Left(q)
<1> USE DEF Written, Left
<1>1. ASSUME NEW p \in PageId, flush_page(p)
      PROVE  \A q \in PageId : Written(q) \/ Left(q)
  <2>1. /\ page_table[p] \in Frame
        /\ disk' = [disk EXCEPT ![p] = data[page_table[p]]]
        /\ is_dirty' = [is_dirty EXCEPT ![page_table[p]] = FALSE]
    BY <1>1, MappedFrame, Zenon DEF flush_page, SInv
  <2>p. Written(p)
    BY <1>1, <2>1, Zenon DEF flush_page, SInv, IInv, TypeOK
  <2> SUFFICES ASSUME NEW q \in PageId, q # p PROVE Left(q)
    BY <2>p, Zenon
  <2>2. page_table[q] # NoFrame =>
           page_table[q] \in Frame /\ page_table[q] # page_table[p]
    BY <1>1, MappedFrame, Zenon DEF flush_page, SInv
  <2>3. page_table[q] # NoFrame => is_dirty'[page_table[q]] = is_dirty[page_table[q]]
    BY <2>1, <2>2, Zenon DEF SInv, IInv, TypeOK
  <2> QED BY <2>1, <2>3, Zenon DEF SInv, IInv, TypeOK
<1>2. ASSUME NEW fd \in Fd, flush_all_pages(fd)
      PROVE  \A q \in PageId : Written(q) \/ Left(q)
  <2> SUFFICES ASSUME NEW q \in PageId PROVE Written(q) \/ Left(q)
    OBVIOUS
  <2>1. disk'[q] = IF q.fd = fd /\ page_table[q] # NoFrame THEN data[page_table[q]] ELSE disk[q]
    BY <1>2, Zenon DEF flush_all_pages, FlushedTo
  <2>2. ASSUME page_table[q] # NoFrame, q.fd # fd
        PROVE  is_dirty'[page_table[q]] = is_dirty[page_table[q]]
    <3>1. page_table[q] \in Frame /\ id[page_table[q]] = q
      BY <2>2, MappedFrame, Zenon DEF SInv
    <3>2. is_dirty'[page_table[q]] =
             (is_dirty[page_table[q]] /\ ~(id[page_table[q]] # NoPage /\ q.fd = fd))
      BY <1>2, <3>1, Zenon DEF flush_all_pages
    <3>3. is_dirty[page_table[q]] \in BOOLEAN
      BY <3>1, Zenon DEF SInv, IInv, TypeOK
    <3> QED BY <2>2, <3>2, <3>3, Zenon
  <2> QED BY <2>1, <2>2, Zenon
<1> QED BY <1>1, <1>2, Zenon DEF flush_page, flush_all_pages, tableVars, clientVars

\* flush_page and flush_all_pages write what the frames hold and clear
\* is_dirty_; a pinned page that its user has changed is written, too.
LEMMA FlushStore ==
    ASSUME SInv,
           \/ \E p \in PageId : flush_page(p)
           \/ \E fd \in Fd : flush_all_pages(fd)
    PROVE  SInv'
<1>1. IInv'
  BY QuietStep, Zenon DEF SInv
<1>2. /\ UNCHANGED <<page_table, data, pin_count, fd2pageno, ptr, wrote, latch>>
      /\ \A q \in PageId : Written(q) \/ Left(q)
  BY FlushEffect, Zenon
<1>3. ASSUME NEW q \in PageId PROVE PageOK(q)'
  <2>1. CASE Written(q)
    BY <1>2, <2>1, Zenon DEF SInv, PageOK, Users, Written
  <2>2. CASE Left(q)
    BY <1>2, <2>2, PageKept, Zenon DEF SInv, Left
  <2> QED BY <1>2, <2>1, <2>2, Zenon
<1>4. ClosedUnused' /\ FreshIsZero'
  BY <1>2, FreshUnmapped, Zenon DEF SInv, ClosedUnused, FreshIsZero, Written, Left
<1> QED BY <1>1, <1>3, <1>4, Zenon DEF SInv

\* A user changes a page through the pointer and remembers that it has.
LEMMA ChangeDataStore ==
    ASSUME SInv, NEW c \in Client, NEW p \in PageId, NEW contents \in Data,
           ChangeData(c, p, contents)
    PROVE  SInv'
<1> DEFINE f == page_table[p]
<1>1. IInv'
  BY QuietStep, Zenon DEF SInv
<1>2. f = ptr[c][p] /\ f \in Frame /\ f # NoFrame
  BY MappedFrame, Zenon DEF ChangeData, SInv, PageOK
<1>3. /\ data' = [data EXCEPT ![f] = contents]
      /\ wrote' = [wrote EXCEPT ![c][p] = TRUE]
      /\ UNCHANGED <<page_table, is_dirty, pin_count, disk, fd2pageno, ptr, latch>>
  BY <1>2, Zenon DEF ChangeData, tableVars
<1>4. \A d \in Client, q \in PageId : d # c \/ q # p => wrote'[d][q] = wrote[d][q]
  BY <1>3, Zenon DEF SInv, IInv, TypeOK
<1>5. wrote'[c][p]
  BY <1>3, Zenon DEF SInv, IInv, TypeOK
<1>6. ASSUME NEW q \in PageId PROVE PageOK(q)'
  <2>1. CASE q = p
    <3>1. Users(p)' = Users(p) /\ c \in Users(p)
      BY <1>2, <1>3 DEF Users
    <3>2. \E d \in Users(p)' : wrote'[d][p]
      BY <1>5, <3>1, Zenon
    <3> QED BY <1>3, <2>1, <3>1, <3>2, Zenon DEF SInv, PageOK, Users
  <2>2. CASE q # p
    <3>1. page_table[q] # NoFrame => page_table[q] \in Frame /\ page_table[q] # f
      BY <1>2, <2>2, MappedFrame, Zenon DEF SInv
    <3>2. page_table[q] # NoFrame => data'[page_table[q]] = data[page_table[q]]
      BY <1>3, <3>1, Zenon DEF SInv, IInv, TypeOK
    <3>3. \A d \in Client : ptr'[d][q] = ptr[d][q] /\ wrote'[d][q] = wrote[d][q]
      BY <1>3, <1>4, <2>2, Zenon
    <3>4. UNCHANGED <<page_table, is_dirty, pin_count, disk>> /\ PageOK(q)
      BY <1>3, Zenon DEF SInv
    <3> QED BY <3>2, <3>3, <3>4, PageKept, Zenon
  <2> QED BY <2>1, <2>2, Zenon
<1>7. ClosedUnused' /\ FreshIsZero'
  BY <1>3, Zenon DEF SInv, ClosedUnused, FreshIsZero
<1> QED BY <1>1, <1>6, <1>7, Zenon DEF SInv

-----------------------------------------------------------------------------
(* The invariant of the pages and the pins is inductive.                   *)

\* Initially no page is in the pool or pinned, and every page is empty.
LEMMA InitSInv == Init => SInv
<1> SUFFICES ASSUME Init PROVE SInv
  OBVIOUS
<1>1. ASSUME NEW p \in PageId PROVE PageOK(p)
  BY Zenon DEF Init, PageOK
<1> QED BY <1>1, InitIInv DEF Init, SInv, ClosedUnused, FreshIsZero

\* delete_all_pages starts on a file without users and takes the latch.
LEMMA LatchStore ==
    ASSUME QuiescentClose, SInv,
           (\E fd \in Fd : delete_all_pages(fd)) \/ DeleteEnd \/ UNCHANGED vars
    PROVE  SInv'
<1>1. IInv'
  BY QuietStep, Zenon DEF SInv
<1>2. UNCHANGED <<page_table, id, data, is_dirty, pin_count, disk, fd2pageno, ptr, wrote>>
  BY Zenon DEF delete_all_pages, DeleteEnd, vars, tableVars, frameVars, clientVars
<1>3. \A q \in PageId : PageOK(q)'
  BY <1>2, PageKept, Zenon DEF SInv
<1>4. ClosedUnused'
  BY <1>2, Zenon DEF delete_all_pages, DeleteEnd, vars, SInv, ClosedUnused
<1>5. FreshIsZero'
  BY <1>2, Zenon DEF SInv, FreshIsZero
<1> QED BY <1>1, <1>3, <1>4, <1>5, Zenon DEF SInv

\* Every operation of the pool keeps SInv.
LEMMA SInvStep ==
    ASSUME QuiescentClose, SInv, [Next]_vars
    PROVE  SInv'
<1>1. \A p \in PageId : p.fd \in Fd /\ p.page_no \in Int
  BY PoolAssumption DEF PageId
<1>2. IInv'
  BY IInvStep, Zenon DEF SInv
<1>3. ASSUME NEW fd \in Fd, NewWriteFails(fd) PROVE SInv'
  <2>1. \A p \in PageId : p.page_no < fd2pageno[p.fd] => p.page_no < fd2pageno'[p.fd]
    BY <1>1, <1>3 DEF NewWriteFails, SInv, IInv, TypeOK
  <2> QED BY <1>2, <1>3, <2>1, WriteFailsStore DEF NewWriteFails
<1>4. ASSUME NEW c \in Client, NEW p \in PageId, FetchWriteFails(c, p) PROVE SInv'
  BY <1>2, <1>4, WriteFailsStore DEF FetchWriteFails
<1>5. ASSUME NEW c \in Client, ClientStep(c) PROVE SInv'
  BY <1>4, <1>5, FetchHitStore, FetchMissStore, FetchReadFailsStore, UnpinPageStore,
     ChangeDataStore, NewPageStore DEF ClientStep
<1>6. ASSUME FileStep PROVE SInv'
  BY <1>3, <1>6, DeleteStore, FlushStore, LatchStore DEF FileStep
<1> QED BY <1>5, <1>6, LatchStore, Zenon DEF Next

\* The invariant holds in every reachable state of the pool.
THEOREM StoreInvariance ==
    ASSUME QuiescentClose
    PROVE  Spec => []SInv
<1>1. SInv /\ [Next]_vars => SInv'
  BY SInvStep, Zenon
<1> QED BY <1>1, InitSInv, PTL DEF Spec

\* A Page pointer is good for as long as the page is pinned: no eviction,
\* deletion or failed I/O reuses its frame, and pin_count_ counts the clients
\* that hold one.
THEOREM PinProtectsAlways ==
    ASSUME QuiescentClose
    PROVE  Spec => []PinProtects
<1>1. SInv => PinProtects
  BY PageOKMeaning, Zenon DEF SInv
<1> QED BY <1>1, StoreInvariance, PTL

\* What the pool drops without writing is on disk.
THEOREM CleanIsOnDiskAlways ==
    ASSUME QuiescentClose
    PROVE  Spec => []CleanIsOnDisk
<1>1. SInv => CleanIsOnDisk
  BY PageOKMeaning, Zenon DEF SInv
<1> QED BY <1>1, StoreInvariance, PTL

-----------------------------------------------------------------------------
(* Refinement: the steps of the pool under the mapping of Store.           *)

\* A new pointer is a new pin of the store, a cleared one is an unpin, and
\* no other step changes who has what pinned.
LEMMA PinnedEffect ==
    ASSUME IInv, NEW c \in Client, NEW p \in PageId, NEW f,
           ptr' = [ptr EXCEPT ![c][p] = f]
    PROVE  /\ f # NoFrame => Pinned' = [Pinned EXCEPT ![c] = @ \cup {p}]
           /\ f = NoFrame => Pinned' = [Pinned EXCEPT ![c] = @ \ {p}]
<1>1. \A d \in Client, q \in PageId : ptr'[d][q] = IF d = c /\ q = p THEN f ELSE ptr[d][q]
  BY Zenon DEF IInv, TypeOK
<1>2. Pinned' = [d \in Client |-> {q \in PageId : ptr'[d][q] # NoFrame}]
  BY Zenon DEF Pinned
<1>3. ASSUME f # NoFrame, NEW d \in Client
      PROVE  Pinned'[d] = IF d = c THEN Pinned[c] \cup {p} ELSE Pinned[d]
  BY <1>1, <1>2, <1>3 DEF Pinned
<1>4. ASSUME f = NoFrame, NEW d \in Client
      PROVE  Pinned'[d] = IF d = c THEN Pinned[c] \ {p} ELSE Pinned[d]
  BY <1>1, <1>2, <1>4 DEF Pinned
<1> QED BY <1>2, <1>3, <1>4, Zenon DEF Pinned

\* Two tables that serve the same contents are equal.
LEMMA ServedSame ==
    ASSUME \A q \in PageId :
             (IF page_table'[q] # NoFrame THEN data'[page_table'[q]] ELSE disk'[q])
               = (IF page_table[q] # NoFrame THEN data[page_table[q]] ELSE disk[q])
    PROVE  Served' = Served
BY Zenon DEF Served

\* Eviction does not show: the page that leaves the victim is served from its
\* file with the content the frame had.
LEMMA VictimServed ==
    ASSUME SInv, NEW p \in PageId, page_table[p] = NoFrame, HasVictim,
           disk' = WrittenBack(Victim),
           \/ /\ page_table' = Remapped(Victim, p)
              /\ data' = [data EXCEPT ![Victim] = disk[p]]
           \/ /\ page_table' = [Remapped(Victim, p) EXCEPT ![p] = NoFrame]
              /\ data' = [data EXCEPT ![Victim] = Zero]
    PROVE  Served' = Served
<1> DEFINE f == Victim
<1>1. f \in Frame /\ f # NoFrame /\ pin_count[f] = 0
  BY VictimEffect, NoPageIsNone DEF SInv
<1>2. \A q \in PageId : disk'[q] = IF q = id[f] /\ is_dirty[f] THEN data[f] ELSE disk[q]
  BY <1>1, WriteBackEffect, Zenon DEF SInv
<1>3. id[f] \in PageId => /\ page_table[id[f]] = f
                          /\ ~is_dirty[f] => data[f] = disk[id[f]]
  BY <1>1, UnpinnedUnused, Zenon
<1>4. \A q \in PageId : q # p =>
         page_table'[q] = IF q = id[f] THEN NoFrame ELSE page_table[q]
  BY Zenon DEF Remapped
<1>5. \/ page_table'[p] = f /\ data'[f] = disk[p]
      \/ page_table'[p] = NoFrame
  BY <1>1, Zenon DEF Remapped, SInv, IInv, TypeOK
<1>6. \A g \in Frame : g # f => data'[g] = data[g]
  BY <1>1, Zenon DEF SInv, IInv, TypeOK
<1> HIDE DEF f
<1>7. p # id[f]
  BY <1>1, <1>3, Zenon
<1>8. ASSUME NEW q \in PageId
      PROVE  (IF page_table'[q] # NoFrame THEN data'[page_table'[q]] ELSE disk'[q])
               = (IF page_table[q] # NoFrame THEN data[page_table[q]] ELSE disk[q])
  <2>1. CASE q = p
    BY <1>1, <1>2, <1>5, <1>7, <2>1
  <2>2. CASE q # p /\ q = id[f]
    <3>1. page_table'[q] = NoFrame /\ page_table[q] = f /\ disk'[q] = data[f]
      BY <1>2, <1>3, <1>4, <2>2
    <3> QED BY <1>1, <3>1, Zenon
  <2>3. CASE q # p /\ q # id[f]
    <3>1. page_table'[q] = page_table[q] /\ disk'[q] = disk[q]
      BY <1>2, <1>4, <2>3
    <3>2. page_table[q] # NoFrame => page_table[q] \in Frame /\ page_table[q] # f
      BY <2>3, MappedFrame, Zenon DEF SInv
    <3> QED BY <1>6, <3>1, <3>2
  <2> QED BY <2>1, <2>2, <2>3
<1> QED BY <1>8, ServedSame, Zenon

\* A deleted page is served from its file with the content the frame had.
LEMMA DeleteServed ==
    ASSUME SInv, NEW p \in PageId, delete_page(p) \/ DeleteTurn(p)
    PROVE  Served' = Served
<1> DEFINE f == page_table[p]
<1>1. f \in Frame /\ id[f] = p /\ f # NoFrame
  BY MappedFrame, Zenon DEF delete_page, DeleteTurn, SInv
<1>2. /\ page_table' = [page_table EXCEPT ![p] = NoFrame]
      /\ data' = [data EXCEPT ![f] = Zero]
  BY Zenon DEF delete_page, DeleteTurn, Emptied
<1>3. disk'[p] = data[f] /\ \A q \in PageId : q # p => disk'[q] = disk[q]
  <2>1. CASE delete_page(p)
    <3>1. disk' = WrittenBack(f) /\ pin_count[f] = 0
      BY <2>1, Zenon DEF delete_page
    <3>2. ~is_dirty[f] => data[f] = disk[p]
      BY <1>1, <3>1, UnpinnedUnused
    <3> QED BY <1>1, <3>1, <3>2, WriteBackEffect DEF SInv
  <2>2. CASE DeleteTurn(p)
    BY <2>2 DEF DeleteTurn, SInv, IInv, TypeOK
  <2> QED BY <2>1, <2>2, Zenon
<1>4. ASSUME NEW q \in PageId, q # p
      PROVE  /\ page_table'[q] = page_table[q]
             /\ page_table[q] # NoFrame => data'[page_table[q]] = data[page_table[q]]
  <2>1. page_table[q] # NoFrame => page_table[q] \in Frame /\ page_table[q] # f
    BY <1>1, <1>4, MappedFrame, Zenon DEF SInv
  <2> QED BY <1>2, <1>4, <2>1 DEF SInv, IInv, TypeOK
<1>5. page_table'[p] = NoFrame
  BY <1>2, Zenon DEF SInv, IInv, TypeOK
<1> QED BY <1>1, <1>3, <1>4, <1>5, ServedSame

\* Every step of a client is a Pin, Create, Change or Unpin of the store, or
\* does not show.
LEMMA ClientRefines ==
    ASSUME SInv, NEW c \in Client, ClientStep(c)
    PROVE  Store!Next \/ UNCHANGED <<Served, Pinned>>
<1>1. ASSUME NEW p \in PageId, FetchHit(c, p) PROVE Store!Pin(c, p)
  <2>1. ptr[c][p] = NoFrame /\ page_table[p] # NoFrame /\ ptr' = [ptr EXCEPT ![c][p] = page_table[p]]
    BY <1>1, Zenon DEF FetchHit, MayFetch
  <2>2. Served' = Served
    BY <1>1, Zenon DEF FetchHit, Served
  <2>3. Pinned' = [Pinned EXCEPT ![c] = @ \cup {p}] /\ p \notin Pinned[c]
    <3>1. Pinned' = [Pinned EXCEPT ![c] = @ \cup {p}]
      BY <2>1, PinnedEffect, Zenon DEF SInv
    <3> QED BY <2>1, <3>1, Zenon DEF Pinned
  <2> QED BY <2>2, <2>3, Zenon DEF Store!Pin
<1>2. ASSUME NEW p \in PageId, FetchMiss(c, p) PROVE Store!Pin(c, p)
  <2>1. /\ ptr[c][p] = NoFrame /\ ptr' = [ptr EXCEPT ![c][p] = Victim] /\ Victim # NoFrame
        /\ page_table[p] = NoFrame /\ HasVictim
        /\ disk' = WrittenBack(Victim) /\ page_table' = Remapped(Victim, p)
        /\ data' = [data EXCEPT ![Victim] = disk[p]]
    BY <1>2, VictimEffect, NoPageIsNone DEF FetchMiss, MayFetch, Install, SInv
  <2>2. Served' = Served
    BY <2>1, VictimServed, Zenon
  <2>3. Pinned' = [Pinned EXCEPT ![c] = @ \cup {p}]
    <3>1. IInv /\ ptr' = [ptr EXCEPT ![c][p] = Victim] /\ Victim # NoFrame
      BY <2>1, Zenon DEF SInv
    <3> QED BY <3>1, PinnedEffect, Zenon
  <2>4. p \notin Pinned[c]
    BY <2>1, Zenon DEF Pinned
  <2> QED BY <2>2, <2>3, <2>4 DEF Store!Pin
<1>3. ASSUME NEW p \in PageId, FetchWriteFails(c, p) PROVE UNCHANGED <<Served, Pinned>>
  BY <1>3, Zenon DEF FetchWriteFails, frameVars, clientVars, Served, Pinned
<1>4. ASSUME NEW p \in PageId, FetchReadFails(c, p) PROVE UNCHANGED <<Served, Pinned>>
  <2>1. /\ page_table[p] = NoFrame /\ HasVictim /\ disk' = WrittenBack(Victim)
        /\ page_table' = [Remapped(Victim, p) EXCEPT ![p] = NoFrame]
        /\ data' = [data EXCEPT ![Victim] = Zero] /\ ptr' = ptr
    BY <1>4, Zenon DEF FetchReadFails, clientVars
  <2>2. Served' = Served
    BY <2>1, VictimServed, Zenon
  <2> QED BY <2>1, <2>2, Zenon DEF Pinned
<1>5. ASSUME NEW p \in PageId, unpin_page(c, p) PROVE Store!Unpin(c, p)
  <2>1. ptr[c][p] # NoFrame /\ ptr' = [ptr EXCEPT ![c][p] = NoFrame]
    BY <1>5, Zenon DEF unpin_page
  <2>2. Served' = Served
    BY <1>5, Zenon DEF unpin_page, Served
  <2>3. Pinned' = [Pinned EXCEPT ![c] = @ \ {p}]
    BY <2>1, PinnedEffect, Zenon DEF SInv
  <2>4. p \in Pinned[c]
    BY <2>1, Zenon DEF Pinned
  <2> QED BY <2>2, <2>3, <2>4, Zenon DEF Store!Unpin
<1>6. ASSUME NEW p \in PageId, NEW contents \in Data, ChangeData(c, p, contents)
      PROVE  Store!Change(c, p, contents)
  <2>1. /\ ptr[c][p] # NoFrame /\ page_table[p] = ptr[c][p] /\ page_table[p] \in Frame
        /\ data' = [data EXCEPT ![page_table[p]] = contents]
        /\ UNCHANGED <<page_table, disk, ptr>>
    BY <1>6, MappedFrame, Zenon DEF ChangeData, tableVars, SInv, PageOK
  <2>2. ASSUME NEW q \in PageId
        PROVE  Served'[q] = IF q = p THEN contents ELSE Served[q]
    <3>1. q # p /\ page_table[q] # NoFrame
             => page_table[q] \in Frame /\ page_table[q] # page_table[p]
      BY <2>1, MappedFrame, Zenon DEF SInv
    <3> QED BY <2>1, <3>1 DEF Served, SInv, IInv, TypeOK
  <2>3. Served' = [Served EXCEPT ![p] = contents]
    BY <2>2, Zenon DEF Served
  <2>4. p \in Pinned[c] /\ Pinned' = Pinned
    BY <2>1, Zenon DEF Pinned
  <2> QED BY <2>3, <2>4, Zenon DEF Store!Change
<1>7. ASSUME NEW fd \in Fd, new_page(c, fd)
      PROVE  NextPage(fd) \in PageId /\ Store!Create(c, NextPage(fd))
  <2> DEFINE p == NextPage(fd)
  <2>1. /\ p \in PageId /\ p.fd = fd /\ p.page_no = fd2pageno[fd] /\ page_table[p] = NoFrame
    BY <1>7, NextPageIsPage DEF SInv, new_page
  <2>2. disk[p] = Zero
    BY <2>1 DEF SInv, FreshIsZero, IInv, TypeOK
  <2>3. /\ ptr' = [ptr EXCEPT ![c][p] = Victim] /\ Victim # NoFrame /\ HasVictim
        /\ disk' = WrittenBack(Victim) /\ page_table' = Remapped(Victim, p)
        /\ data' = [data EXCEPT ![Victim] = disk[p]]
    BY <1>7, <2>2, VictimEffect, NoPageIsNone DEF new_page, Install, SInv
  <2> HIDE DEF p
  <2>4. Served' = Served
    BY <2>1, <2>3, VictimServed, Zenon
  <2>5. Served' = [Served EXCEPT ![p] = Zero]
    BY <2>1, <2>2, <2>4 DEF Served
  <2>6. Pinned' = [Pinned EXCEPT ![c] = @ \cup {p}]
    BY <2>1, <2>3, PinnedEffect, Zenon DEF SInv
  <2>7. \A d \in Client : p \notin Pinned[d]
    BY <2>1, UnmappedUnused DEF Pinned
  <2> QED BY <2>1, <2>5, <2>6, <2>7 DEF Store!Create, p
<1> QED BY <1>1, <1>2, <1>3, <1>4, <1>5, <1>6, <1>7 DEF ClientStep, Store!Next

\* Flushing, deleting and closing do not show.
LEMMA FileRefines ==
    ASSUME SInv, FileStep
    PROVE  UNCHANGED <<Served, Pinned>>
<1>1. ASSUME NEW p \in PageId, delete_page(p) \/ DeleteTurn(p)
      PROVE  UNCHANGED <<Served, Pinned>>
  <2>1. ptr' = ptr
    BY <1>1, Zenon DEF delete_page, DeleteTurn, clientVars
  <2> QED BY <1>1, <2>1, DeleteServed DEF Pinned
<1>2. ASSUME (\E p \in PageId : flush_page(p)) \/ (\E fd \in Fd : flush_all_pages(fd))
      PROVE  UNCHANGED <<Served, Pinned>>
  <2>1. /\ UNCHANGED <<page_table, data, ptr>>
        /\ \A q \in PageId : page_table[q] = NoFrame => disk'[q] = disk[q]
    BY <1>2, FlushEffect, Zenon DEF Written, Left
  <2> QED BY <2>1, ServedSame DEF Pinned
<1>3. ASSUME NEW fd \in Fd, delete_all_pages(fd) \/ NewWriteFails(fd)
      PROVE  UNCHANGED <<Served, Pinned>>
  BY <1>3, Zenon DEF delete_all_pages, NewWriteFails, tableVars, frameVars, clientVars, Served, Pinned
<1>4. ASSUME DeleteEnd PROVE UNCHANGED <<Served, Pinned>>
  BY <1>4, Zenon DEF DeleteEnd, tableVars, frameVars, clientVars, Served, Pinned
<1> QED BY <1>1, <1>2, <1>3, <1>4 DEF FileStep

\* The buffer pool implements the page store: what any page holds changes
\* only when a client that has it pinned changes it, whatever is fetched,
\* evicted, flushed, deleted or fails in between.
THEOREM ImplementsStoreAlways ==
    ASSUME QuiescentClose
    PROVE  Spec => ImplementsStore
<1>1. Init => Store!Init
  <2> SUFFICES ASSUME Init PROVE Served = [p \in PageId |-> Zero] /\ Pinned = [c \in Client |-> {}]
    BY Zenon DEF Store!Init
  <2>1. Served = [p \in PageId |-> Zero]
    BY Zenon DEF Init, Served
  <2>2. \A c \in Client : {p \in PageId : ptr[c][p] # NoFrame} = {}
    BY Zenon DEF Init
  <2> QED BY <2>1, <2>2, Zenon DEF Pinned
<1>2. SInv /\ [Next]_vars => [Store!Next]_(Store!storeVars)
  <2> SUFFICES ASSUME SInv, [Next]_vars PROVE Store!Next \/ UNCHANGED <<Served, Pinned>>
    BY Zenon DEF Store!storeVars
  <2>1. CASE UNCHANGED vars
    BY <2>1, Zenon DEF vars, tableVars, frameVars, clientVars, Served, Pinned
  <2> QED BY <2>1, ClientRefines, FileRefines DEF Next
<1> QED BY <1>1, <1>2, StoreInvariance, PTL DEF Spec, ImplementsStore, Store!Spec
=============================================================================
