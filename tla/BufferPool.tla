----------------------------- MODULE BufferPool -----------------------------
(***************************************************************************)
(* The buffer pool (storage/buffer_pool_manager.cpp) with its LRU replacer *)
(* (replacer/lru_replacer.cpp) over the page operations of the disk        *)
(* manager.  Every operation runs under latch_, so each is one step.       *)
(*                                                                         *)
(* A client (a thread of the server) keeps the Page pointer it got from    *)
(* fetch_page or new_page, changes the data through the pointer without    *)
(* the latch, and unpins with is_dirty set if it changed something; the    *)
(* record and index files use the pool this way.                           *)
(***************************************************************************)
EXTENDS Integers, Sequences, FiniteSets

CONSTANTS
    PoolSize,   \* frames in the pool
    Client,     \* threads that use the pool
    Fd,         \* open files
    MaxPages,   \* bound: pages of one file
    Data,       \* contents of a page
    Zero,       \* content of a page that was never written
    MaxFaults,  \* bound: failing reads and writes
    NoFd,       \* latch_ is not held across steps
    QuiescentClose  \* files are closed only while no thread uses them

ASSUME PoolAssumption == PoolSize \in Nat \ {0} /\ MaxPages \in Nat /\ MaxFaults \in Nat
ASSUME ZeroAssumption == Zero \in Data
ASSUME ClientAssumption == IsFiniteSet(Client)
ASSUME NoFdAssumption == NoFd \notin Fd /\ QuiescentClose \in BOOLEAN

Frame == 0 .. PoolSize - 1
PageId == [fd : Fd, page_no : 0 .. MaxPages - 1]
NoFrame == -1
NoPage == [fd |-> -1, page_no |-> -1]

VARIABLES
    page_table,  \* page_table_: frame of a page, NoFrame if it is in none
    free_list,   \* free_list_
    LRUlist,     \* LRUlist_: evictable frames, longest unpinned first
    id,          \* id_ of each frame
    data,        \* data_ of each frame
    is_dirty,    \* is_dirty_ of each frame
    pin_count,   \* pin_count_ of each frame
    disk,        \* the files
    fd2pageno,   \* fd2pageno_: next page number of each file
    ptr,         \* the Page pointer each client holds for a page, or NoFrame
    wrote,       \* the client has changed the page since it pinned it
    stranded,    \* history: victims whose write-back failed
    faults,      \* failed reads and writes so far (bounds the model)
    latch        \* the file for which delete_all_pages holds latch_

tableVars == <<page_table, free_list, LRUlist>>
frameVars == <<id, data, is_dirty, pin_count>>
clientVars == <<ptr, wrote>>
vars == <<tableVars, frameVars, disk, fd2pageno, clientVars, stranded, faults, latch>>

Elements(s) == {s[i] : i \in DOMAIN s}

-----------------------------------------------------------------------------
(* LRUReplacer.                                                            *)

\* LRUReplacer::pin takes the frame out of the list, wherever it is.
pin(list, f) ==
    IF f \in Elements(list)
    THEN LET at == CHOOSE i \in DOMAIN list : list[i] = f
         IN  [i \in 1 .. Len(list) - 1 |-> IF i < at THEN list[i] ELSE list[i + 1]]
    ELSE list

\* LRUReplacer::unpin puts it at the end, once, if there is room.
unpin(list, f) ==
    IF f \in Elements(list) \/ Len(list) >= PoolSize THEN list ELSE Append(list, f)

-----------------------------------------------------------------------------
(* The pieces of fetch_page and new_page.                                  *)

HasVictim == free_list # <<>> \/ LRUlist # <<>>
Victim == IF free_list # <<>> THEN Head(free_list) ELSE Head(LRUlist)

find_victim_page ==
    IF free_list # <<>>
    THEN free_list' = Tail(free_list) /\ UNCHANGED LRUlist
    ELSE LRUlist' = Tail(LRUlist) /\ UNCHANGED free_list

\* Faulty variant: a dirty victim is dropped.
NotWrittenBack(f) == disk

\* The disk after update_page has written a dirty page back.
WrittenBack(f) ==
    IF id[f] # NoPage /\ is_dirty[f] THEN [disk EXCEPT ![id[f]] = data[f]] ELSE disk

\* Faulty variant: the page that leaves the frame stays in the page table.
RemappedKeepingOld(f, p) == [page_table EXCEPT ![p] = f]

\* The page table after update_page has put page p in frame f.
Remapped(f, p) ==
    [q \in PageId |-> IF q = p THEN f ELSE IF q = id[f] THEN NoFrame ELSE page_table[q]]

\* update_page, then the frame is pinned by the caller; contents are new.
Install(c, f, p, contents) ==
    /\ disk' = WrittenBack(f)
    /\ page_table' = Remapped(f, p)
    /\ id' = [id EXCEPT ![f] = p]
    /\ data' = [data EXCEPT ![f] = contents]
    /\ is_dirty' = [is_dirty EXCEPT ![f] = FALSE]
    /\ pin_count' = [pin_count EXCEPT ![f] = 1]
    /\ ptr' = [ptr EXCEPT ![c][p] = f]
    /\ UNCHANGED wrote

-----------------------------------------------------------------------------
(* The operations.                                                         *)

\* A client holds at most one pin of a page, of pages that exist.
MayFetch(c, p) == latch = NoFd /\ ptr[c][p] = NoFrame /\ p.page_no < fd2pageno[p.fd]

\* Faulty variant: a fetched page stays in the LRU list.
FetchHitEvictable(c, p) ==
    LET f == page_table[p]
    IN  /\ MayFetch(c, p)
        /\ f # NoFrame
        /\ pin_count' = [pin_count EXCEPT ![f] = @ + 1]
        /\ ptr' = [ptr EXCEPT ![c][p] = f]
        /\ stranded' = stranded \ {f}
        /\ UNCHANGED <<tableVars, id, data, is_dirty, disk, fd2pageno, wrote, faults, latch>>

\* fetch_page of a page in the pool.
FetchHit(c, p) ==
    LET f == page_table[p]
    IN  /\ MayFetch(c, p)
        /\ f # NoFrame
        /\ pin_count' = [pin_count EXCEPT ![f] = @ + 1]
        /\ LRUlist' = pin(LRUlist, f)
        /\ ptr' = [ptr EXCEPT ![c][p] = f]
        /\ stranded' = stranded \ {f}
        /\ UNCHANGED <<page_table, free_list, id, data, is_dirty, disk, fd2pageno, wrote, faults,
                       latch>>

\* fetch_page of a page on disk; with no victim it returns nullptr.
FetchMiss(c, p) ==
    /\ MayFetch(c, p)
    /\ page_table[p] = NoFrame
    /\ HasVictim
    /\ find_victim_page
    /\ Install(c, Victim, p, disk[p])
    /\ UNCHANGED <<fd2pageno, stranded, faults, latch>>

\* The write-back of a dirty victim throws: the victim has left the list.
WriteFails ==
    /\ HasVictim
    /\ id[Victim] # NoPage /\ is_dirty[Victim]
    /\ faults < MaxFaults
    /\ find_victim_page
    /\ stranded' = stranded \cup {Victim}
    /\ faults' = faults + 1

FetchWriteFails(c, p) ==
    /\ MayFetch(c, p)
    /\ page_table[p] = NoFrame
    /\ WriteFails
    /\ UNCHANGED <<page_table, frameVars, disk, fd2pageno, clientVars, latch>>

\* read_page throws after the victim is gone: the frame becomes free.
FetchReadFails(c, p) ==
    LET f == Victim
    IN  /\ MayFetch(c, p)
        /\ page_table[p] = NoFrame
        /\ HasVictim
        /\ faults < MaxFaults
        /\ faults' = faults + 1
        /\ free_list' = Append(IF free_list # <<>> THEN Tail(free_list) ELSE <<>>, f)
        /\ LRUlist' = IF free_list # <<>> THEN LRUlist ELSE Tail(LRUlist)
        /\ disk' = WrittenBack(f)
        /\ page_table' = [Remapped(f, p) EXCEPT ![p] = NoFrame]
        /\ id' = [id EXCEPT ![f] = NoPage]
        /\ data' = [data EXCEPT ![f] = Zero]
        /\ is_dirty' = [is_dirty EXCEPT ![f] = FALSE]
        /\ pin_count' = [pin_count EXCEPT ![f] = 0]
        /\ UNCHANGED <<fd2pageno, clientVars, stranded, latch>>

NextPage(fd) == [fd |-> fd, page_no |-> fd2pageno[fd]]

new_page(c, fd) ==
    /\ latch = NoFd
    /\ fd2pageno[fd] < MaxPages
    /\ HasVictim
    /\ fd2pageno' = [fd2pageno EXCEPT ![fd] = @ + 1]
    /\ find_victim_page
    /\ Install(c, Victim, NextPage(fd), Zero)
    /\ UNCHANGED <<stranded, faults, latch>>

\* The page number is used up although no page is returned.
NewWriteFails(fd) ==
    /\ latch = NoFd
    /\ fd2pageno[fd] < MaxPages
    /\ WriteFails
    /\ fd2pageno' = [fd2pageno EXCEPT ![fd] = @ + 1]
    /\ UNCHANGED <<page_table, frameVars, disk, clientVars, latch>>

\* A client changes the page it has pinned, through its pointer.
ChangeData(c, p, contents) ==
    /\ ptr[c][p] # NoFrame
    /\ data' = [data EXCEPT ![ptr[c][p]] = contents]
    /\ wrote' = [wrote EXCEPT ![c][p] = TRUE]
    /\ UNCHANGED <<tableVars, id, is_dirty, pin_count, disk, fd2pageno, ptr, stranded, faults,
                   latch>>

\* Faulty variant: the last unpin decides whether the page is dirty.
UnpinOverwritesDirty(c, p) ==
    LET f == page_table[p]
    IN  /\ latch = NoFd
        /\ ptr[c][p] # NoFrame
        /\ f # NoFrame /\ pin_count[f] > 0
        /\ pin_count' = [pin_count EXCEPT ![f] = @ - 1]
        /\ is_dirty' = [is_dirty EXCEPT ![f] = wrote[c][p]]
        /\ LRUlist' = IF pin_count[f] = 1 THEN unpin(LRUlist, f) ELSE LRUlist
        /\ ptr' = [ptr EXCEPT ![c][p] = NoFrame]
        /\ wrote' = [wrote EXCEPT ![c][p] = FALSE]
        /\ UNCHANGED <<page_table, free_list, id, data, disk, fd2pageno, stranded, faults, latch>>

\* Faulty variant: any unpin makes the frame evictable.
UnpinAlwaysEvictable(c, p) ==
    LET f == page_table[p]
    IN  /\ latch = NoFd
        /\ ptr[c][p] # NoFrame
        /\ f # NoFrame /\ pin_count[f] > 0
        /\ pin_count' = [pin_count EXCEPT ![f] = @ - 1]
        /\ is_dirty' = [is_dirty EXCEPT ![f] = @ \/ wrote[c][p]]
        /\ LRUlist' = unpin(LRUlist, f)
        /\ ptr' = [ptr EXCEPT ![c][p] = NoFrame]
        /\ wrote' = [wrote EXCEPT ![c][p] = FALSE]
        /\ UNCHANGED <<page_table, free_list, id, data, disk, fd2pageno, stranded, faults, latch>>

\* unpin_page by a client that holds the page.
unpin_page(c, p) ==
    LET f == page_table[p]
    IN  /\ latch = NoFd
        /\ ptr[c][p] # NoFrame
        /\ IF f # NoFrame /\ pin_count[f] > 0
           THEN /\ pin_count' = [pin_count EXCEPT ![f] = @ - 1]
                /\ is_dirty' = [is_dirty EXCEPT ![f] = @ \/ wrote[c][p]]
                /\ LRUlist' = IF pin_count[f] = 1 THEN unpin(LRUlist, f) ELSE LRUlist
           ELSE UNCHANGED <<pin_count, is_dirty, LRUlist>>
        /\ ptr' = [ptr EXCEPT ![c][p] = NoFrame]
        /\ wrote' = [wrote EXCEPT ![c][p] = FALSE]
        /\ UNCHANGED <<page_table, free_list, id, data, disk, fd2pageno, stranded, faults, latch>>

flush_page(p) ==
    LET f == page_table[p]
    IN  /\ latch = NoFd
        /\ f # NoFrame
        /\ disk' = [disk EXCEPT ![p] = data[f]]
        /\ is_dirty' = [is_dirty EXCEPT ![f] = FALSE]
        /\ UNCHANGED <<tableVars, id, data, pin_count, fd2pageno, clientVars, stranded, faults,
                       latch>>

FlushedTo(fd) ==
    [p \in PageId |-> IF p.fd = fd /\ page_table[p] # NoFrame THEN data[page_table[p]] ELSE disk[p]]

flush_all_pages(fd) ==
    /\ latch = NoFd
    /\ disk' = FlushedTo(fd)
    /\ is_dirty' = [f \in Frame |-> is_dirty[f] /\ ~(id[f] # NoPage /\ id[f].fd = fd)]
    /\ UNCHANGED <<tableVars, id, data, pin_count, fd2pageno, clientVars, stranded, faults, latch>>

\* The frame of page p loses it and becomes free.
Emptied(f, p) ==
    /\ page_table' = [page_table EXCEPT ![p] = NoFrame]
    /\ id' = [id EXCEPT ![f] = NoPage]
    /\ data' = [data EXCEPT ![f] = Zero]
    /\ is_dirty' = [is_dirty EXCEPT ![f] = FALSE]
    /\ pin_count' = [pin_count EXCEPT ![f] = 0]
    /\ free_list' = Append(free_list, f)
    /\ stranded' = stranded \ {f}

\* delete_page; a pinned page is refused.
delete_page(p) ==
    LET f == page_table[p]
    IN  /\ latch = NoFd
        /\ f # NoFrame
        /\ pin_count[f] = 0
        /\ LRUlist' = pin(LRUlist, f)
        /\ disk' = WrittenBack(f)
        /\ Emptied(f, p)
        /\ UNCHANGED <<fd2pageno, clientVars, faults, latch>>

\* delete_all_pages, which closing a file calls, keeps latch_ for its loop
\* over the frames of the file, in the order of the hash map.  It does not
\* look at pin counts: that no thread uses a file being closed is left to
\* its callers.
delete_all_pages(fd) ==
    /\ latch = NoFd
    /\ QuiescentClose => \A c \in Client, p \in PageId : p.fd = fd => ptr[c][p] = NoFrame
    /\ latch' = fd
    /\ UNCHANGED <<tableVars, frameVars, disk, fd2pageno, clientVars, stranded, faults>>

DeleteTurn(p) ==
    LET f == page_table[p]
    IN  /\ latch = p.fd
        /\ f # NoFrame
        /\ disk' = [disk EXCEPT ![p] = data[f]]
        /\ LRUlist' = pin(LRUlist, f)
        /\ Emptied(f, p)
        /\ UNCHANGED <<fd2pageno, clientVars, faults, latch>>

DeleteEnd ==
    /\ latch # NoFd
    /\ \A p \in PageId : p.fd = latch => page_table[p] = NoFrame
    /\ latch' = NoFd
    /\ UNCHANGED <<tableVars, frameVars, disk, fd2pageno, clientVars, stranded, faults>>

-----------------------------------------------------------------------------
Init ==
    /\ page_table = [p \in PageId |-> NoFrame]
    /\ free_list = [i \in 1 .. PoolSize |-> i - 1]
    /\ LRUlist = <<>>
    /\ id = [f \in Frame |-> NoPage]
    /\ data = [f \in Frame |-> Zero]
    /\ is_dirty = [f \in Frame |-> FALSE]
    /\ pin_count = [f \in Frame |-> 0]
    /\ disk = [p \in PageId |-> Zero]
    /\ fd2pageno = [fd \in Fd |-> 0]
    /\ ptr = [c \in Client |-> [p \in PageId |-> NoFrame]]
    /\ wrote = [c \in Client |-> [p \in PageId |-> FALSE]]
    /\ stranded = {}
    /\ faults = 0
    /\ latch = NoFd

ClientStep(c) ==
    \/ \E p \in PageId :
         \/ FetchHit(c, p) \/ FetchMiss(c, p) \/ FetchWriteFails(c, p) \/ FetchReadFails(c, p)
         \/ unpin_page(c, p)
         \/ \E contents \in Data : ChangeData(c, p, contents)
    \/ \E fd \in Fd : new_page(c, fd)

FileStep ==
    \/ \E p \in PageId : flush_page(p) \/ delete_page(p) \/ DeleteTurn(p)
    \/ \E fd \in Fd : flush_all_pages(fd) \/ delete_all_pages(fd) \/ NewWriteFails(fd)
    \/ DeleteEnd

Next == FileStep \/ \E c \in Client : ClientStep(c)

Spec == Init /\ [][Next]_vars

-----------------------------------------------------------------------------
(* Properties.                                                             *)

\* The frames, the lists of the pool and the files hold what the members of
\* BufferPoolManager and LRUReplacer can hold.
TypeOK ==
    /\ page_table \in [PageId -> Frame \cup {NoFrame}]
    /\ free_list \in Seq(Frame) /\ LRUlist \in Seq(Frame)
    /\ id \in [Frame -> PageId \cup {NoPage}]
    /\ data \in [Frame -> Data]
    /\ is_dirty \in [Frame -> BOOLEAN]
    /\ pin_count \in [Frame -> Nat]
    /\ disk \in [PageId -> Data]
    /\ fd2pageno \in [Fd -> 0 .. MaxPages]
    /\ ptr \in [Client -> [PageId -> Frame \cup {NoFrame}]]
    /\ wrote \in [Client -> [PageId -> BOOLEAN]]
    /\ stranded \subseteq Frame
    /\ faults \in 0 .. MaxFaults
    /\ latch \in Fd \cup {NoFd}

\* page_table_ and the id_ of the frames say the same: a page is in at most
\* one frame, and every frame that claims a page is the one found for it.
PageTableExact ==
    \A p \in PageId : \A f \in Frame : page_table[p] = f <=> id[f] = p

NoDuplicates(s) == \A i, j \in DOMAIN s : s[i] = s[j] => i = j

\* No frame is lost or handed out twice: each is free, evictable or pinned,
\* and exactly one of these; the one exception is a victim whose write-back
\* failed, which is in no list until its page is fetched again.
FramePartition ==
    /\ NoDuplicates(free_list) /\ NoDuplicates(LRUlist)
    /\ \A f \in Frame :
         /\ f \in Elements(free_list) <=> id[f] = NoPage
         /\ f \in Elements(LRUlist)
               <=> id[f] # NoPage /\ pin_count[f] = 0 /\ f \notin stranded
         /\ f \in stranded => id[f] # NoPage /\ pin_count[f] = 0
         /\ id[f] = NoPage => pin_count[f] = 0 /\ ~is_dirty[f]

Users(p) == {c \in Client : ptr[c][p] # NoFrame}

\* As long as a client holds a pin, its pointer is the frame of the page it
\* asked for: eviction, deletion and failing I/O never reuse the frame.  The
\* pin count is the number of clients that hold one.
PinProtects ==
    \A p \in PageId :
        /\ \A c \in Users(p) : ptr[c][p] = page_table[p]
        /\ page_table[p] # NoFrame => pin_count[page_table[p]] = Cardinality(Users(p))

\* What the pool would drop without writing is on disk: a frame that is not
\* dirty, and that no client has changed and still has to unpin, equals its
\* page in the file.
CleanIsOnDisk ==
    \A p \in PageId : page_table[p] # NoFrame =>
        \/ is_dirty[page_table[p]]
        \/ \E c \in Users(p) : wrote[c][p]
        \/ data[page_table[p]] = disk[p]

Served == [p \in PageId |-> IF page_table[p] # NoFrame THEN data[page_table[p]] ELSE disk[p]]
Pinned == [c \in Client |-> {p \in PageId : ptr[c][p] # NoFrame}]

Store == INSTANCE PageStore WITH content <- Served, pinned <- Pinned

\* The pool implements the page store: no fetch, eviction, flush, delete or
\* failed I/O changes what any page holds; only a client with the page
\* pinned does, and only that page.
ImplementsStore == Store!Spec

=============================================================================
