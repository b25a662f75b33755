------------------------------- MODULE RmFile -------------------------------
(***************************************************************************)
(* The record file of a table (record/rm_file_handle.cpp): slots, bitmaps, *)
(* the list of pages with free space that is threaded through the page     *)
(* headers, and the file header, which is written to disk only when the    *)
(* file is closed and at the end of recovery.  Pages reach the disk        *)
(* whenever the buffer pool evicts them, so after a crash the header may   *)
(* be older than the pages and know fewer of them.                         *)
(*                                                                         *)
(* The X lock of the table lets one transaction change the file at a time, *)
(* so one session is enough.  log holds the changes that recovery does not *)
(* skip: the ABORT record of a rolled back transaction takes its changes   *)
(* out of consideration.  The content of a record is not represented (an   *)
(* UPDATE changes nothing here); WalRecovery is about contents.            *)
(***************************************************************************)
EXTENDS Integers, Sequences, FiniteSets, FiniteSetsExt

CONSTANTS
    PerPage,     \* num_records_per_page
    MaxPages,    \* bound: highest page number
    MaxLog,      \* bound: changes between two starts
    MaxCrashes   \* bound: crashes and shutdowns

ASSUME SizeAssumption == PerPage \in Nat \ {0} /\ MaxPages \in Nat \ {0}
ASSUME BoundAssumption == MaxLog \in Nat /\ MaxCrashes \in Nat

VARIABLES
    num_pages,           \* file_hdr_.num_pages
    first_free_page_no,  \* file_hdr_.first_free_page_no
    next_page_no,        \* fd2pageno_ of the file in the disk manager
    page,                \* the pages as the buffer pool serves them
    disk,                \* the pages in the file
    disk_hdr,            \* the file header in the file
    log,                 \* the changes recovery takes into account
    base,                \* length of log at the last commit
    mode,                \* what the session, or recovery, is doing
    cursor,              \* the rid, log record or page it is at
    crashes,             \* crashes and shutdowns so far (bounds the model)
    committed,           \* history: the records of committed transactions
    exposed              \* history: a stop left a record no log record explains

hdrVars == <<num_pages, first_free_page_no, next_page_no>>
diskVars == <<disk, disk_hdr>>
logVars == <<log, base, committed>>
countVars == <<crashes, exposed>>
vars == <<hdrVars, page, diskVars, logVars, mode, cursor, countVars>>

NoPage == -1
PageNo == 1 .. MaxPages
Slot == 0 .. PerPage - 1
Rid == [page_no : PageNo, slot_no : Slot]
Start == [page_no |-> 1, slot_no |-> -1]

\* What read_page makes of a page beyond the end of the file.
ZeroPage == [next_free_page_no |-> 0, num_records |-> 0, bitmap |-> {}]

is_record(rid) ==
    rid.page_no < num_pages /\ rid.slot_no \in page[rid.page_no].bitmap
Present == {rid \in Rid : is_record(rid)}

-----------------------------------------------------------------------------
(* RmFileHandle.                                                           *)

CanCreate == next_page_no \in PageNo

\* create_new_page_handle: the new page becomes the head of the list.
create_new_page_handle ==
    /\ CanCreate
    /\ page' = [page EXCEPT ![next_page_no] =
           [next_free_page_no |-> first_free_page_no, num_records |-> 0, bitmap |-> {}]]
    /\ first_free_page_no' = next_page_no
    /\ num_pages' = num_pages + 1
    /\ next_page_no' = next_page_no + 1

\* A record put into slot_no; a page that is full by it leaves the list.
Filled(p, slot_no) ==
    LET full == p.num_records + 1 = PerPage
    IN  [next_free_page_no |-> IF full THEN NoPage ELSE p.next_free_page_no,
         num_records |-> p.num_records + 1,
         bitmap |-> p.bitmap \cup {slot_no}]

\* Bitmap: the loop over the bits after curr, PerPage if it finds none.
is_set(bitmap, i) == i \in bitmap

next_bit(bit, bitmap, curr) ==
    LET from[i \in 0 .. PerPage] ==
            IF i = PerPage \/ (is_set(bitmap, i) <=> bit) THEN i ELSE from[i + 1]
    IN  from[curr + 1]

first_bit(bit, bitmap) == next_bit(bit, bitmap, -1)

\* insert_record(buf): the first free slot of the first free page.
insert_record ==
    LET new == first_free_page_no = NoPage
        page_no == IF new THEN next_page_no ELSE first_free_page_no
        p == IF new THEN [ZeroPage EXCEPT !.next_free_page_no = NoPage] ELSE page[page_no]
        slot_no == first_bit(FALSE, p.bitmap)
    IN  /\ new => CanCreate
        /\ ~new => page_no < num_pages
        /\ page' = [page EXCEPT ![page_no] = Filled(p, slot_no)]
        /\ first_free_page_no' =
               IF p.num_records + 1 = PerPage THEN p.next_free_page_no ELSE page_no
        /\ num_pages' = IF new THEN num_pages + 1 ELSE num_pages
        /\ next_page_no' = IF new THEN next_page_no + 1 ELSE next_page_no
        /\ cursor' = [page_no |-> page_no, slot_no |-> slot_no]

\* insert_record(rid, buf) into a free slot: one turn of the loop that creates
\* the pages up to the one of the record, or the insertion.
TooShort(rid) == num_pages <= rid.page_no

\* Faulty variant: a page that becomes full stays the head of the list.
InsertAtKeepingHead(rid) ==
    \/ TooShort(rid) /\ create_new_page_handle
    \/ /\ ~TooShort(rid)
       /\ page' = [page EXCEPT ![rid.page_no] = Filled(@, rid.slot_no)]
       /\ UNCHANGED hdrVars

insert_record_at(rid) ==
    LET p == page[rid.page_no]
    IN  \/ TooShort(rid) /\ create_new_page_handle
        \/ /\ ~TooShort(rid)
           /\ page' = [page EXCEPT ![rid.page_no] = Filled(p, rid.slot_no)]
           /\ first_free_page_no' =
                  IF p.num_records + 1 = PerPage /\ first_free_page_no = rid.page_no
                  THEN p.next_free_page_no ELSE first_free_page_no
           /\ UNCHANGED <<num_pages, next_page_no>>

\* delete_record, with release_page_handle for a page that was full.
delete_record(rid) ==
    LET p == page[rid.page_no]
        was_full == p.num_records = PerPage
    IN  /\ page' = [page EXCEPT ![rid.page_no] =
               [next_free_page_no |->
                    IF was_full THEN first_free_page_no ELSE p.next_free_page_no,
                num_records |-> p.num_records - 1,
                bitmap |-> p.bitmap \ {rid.slot_no}]]
        /\ first_free_page_no' = IF was_full THEN rid.page_no ELSE first_free_page_no
        /\ UNCHANGED <<num_pages, next_page_no>>

-----------------------------------------------------------------------------
(* The session with the X lock.                                            *)

Change(type, rid) == [type |-> type, rid |-> rid]

\* InsertExecutor::Next puts the record into the file ...
Insert ==
    /\ mode = "up" /\ Len(log) < MaxLog
    /\ insert_record
    /\ mode' = "insert"
    /\ UNCHANGED <<diskVars, logVars, countVars>>

\* ... then logs it, or takes it out again if a unique index has the key.
InsertLog ==
    /\ mode = "insert"
    /\ log' = Append(log, Change("INSERT", cursor))
    /\ mode' = "up" /\ cursor' = Start
    /\ UNCHANGED <<hdrVars, page, diskVars, base, committed, countVars>>

InsertRefused ==
    /\ mode = "insert"
    /\ delete_record(cursor)
    /\ mode' = "up" /\ cursor' = Start
    /\ UNCHANGED <<diskVars, logVars, countVars>>

\* One turn of the loop of DeleteExecutor::Next.
Delete(rid) ==
    /\ mode = "up" /\ Len(log) < MaxLog
    /\ is_record(rid)
    /\ delete_record(rid)
    /\ log' = Append(log, Change("DELETE", rid))
    /\ UNCHANGED <<diskVars, base, committed, mode, cursor, countVars>>

commit ==
    /\ mode = "up" /\ base < Len(log)
    /\ base' = Len(log)
    /\ committed' = Present
    /\ UNCHANGED <<hdrVars, page, diskVars, log, mode, cursor, countVars>>

abort ==
    /\ mode = "up" /\ base < Len(log)
    /\ mode' = "abort" /\ cursor' = Len(log)
    /\ UNCHANGED <<hdrVars, page, diskVars, logVars, countVars>>

\* One turn of the loop over the write set, youngest change first.
AbortUndo ==
    LET change == log[cursor]
    IN  /\ mode = "abort" /\ cursor > base
        /\ \/ change.type = "INSERT" /\ delete_record(change.rid)
           \/ change.type = "DELETE" /\ insert_record_at(change.rid)
        /\ cursor' = cursor - 1
        /\ UNCHANGED <<diskVars, logVars, mode, countVars>>

AbortLog ==
    /\ mode = "abort" /\ cursor = base
    /\ log' = SubSeq(log, 1, base)
    /\ mode' = "up" /\ cursor' = Start
    /\ UNCHANGED <<hdrVars, page, diskVars, base, committed, countVars>>

-----------------------------------------------------------------------------
(* Pages reach the disk, the server stops.                                 *)

\* The pool writes a page back.  After the last stop of the model (MaxCrashes)
\* nothing reads the disk any more, and evictions are left out.
Evict(page_no) ==
    /\ crashes < MaxCrashes
    /\ page_no < num_pages
    /\ page[page_no] # disk[page_no]
    /\ disk' = [disk EXCEPT ![page_no] = page[page_no]]
    /\ UNCHANGED <<hdrVars, page, disk_hdr, logVars, mode, cursor, countVars>>

\* Every page the header knows has each record as committed, or the log has a
\* change of it.  It does not if the page was evicted with a change that was
\* never logged or that is rolled back by now (see WalRecovery).
Explained(file, hdr) ==
    \A rid \in Rid :
        \/ rid.page_no >= hdr.num_pages
        \/ \E i \in DOMAIN log : log[i].rid = rid
        \/ (rid \in committed) <=> (rid.slot_no \in file[rid.page_no].bitmap)

\* The next start: RmFileHandle reads the header, recovery begins.
Restart(file, hdr) ==
    /\ crashes < MaxCrashes
    /\ crashes' = crashes + 1
    /\ num_pages' = hdr.num_pages
    /\ first_free_page_no' = hdr.first_free_page_no
    /\ next_page_no' = hdr.num_pages
    /\ page' = file
    /\ mode' = "redo" /\ cursor' = 1
    /\ exposed' = (exposed \/ ~Explained(file, hdr))
    /\ UNCHANGED logVars

Crash ==
    /\ Restart(disk, disk_hdr)
    /\ UNCHANGED diskVars

\* close_file writes the header first ...
close_file ==
    /\ mode = "up" /\ crashes < MaxCrashes
    /\ disk_hdr' = [num_pages |-> num_pages, first_free_page_no |-> first_free_page_no]
    /\ mode' = "closing"
    /\ UNCHANGED <<hdrVars, page, disk, logVars, cursor, countVars>>

\* ... and then all pages.
delete_all_pages ==
    /\ mode = "closing"
    /\ disk' = page
    /\ Restart(page, disk_hdr)
    /\ UNCHANGED disk_hdr

-----------------------------------------------------------------------------
(* Recovery.                                                               *)

\* What recovery does with a record that should be there, or should not.  It
\* stays at the log record until insert_record has created the pages it needs.
Recover(rid, there, here, after) ==
    /\ IF there /\ ~is_record(rid) THEN insert_record_at(rid)
       ELSE IF ~there /\ is_record(rid) THEN delete_record(rid)
       ELSE UNCHANGED <<hdrVars, page>>
    /\ cursor' = IF there /\ TooShort(rid) THEN here ELSE after

redo ==
    /\ mode = "redo" /\ cursor <= Len(log)
    /\ Recover(log[cursor].rid, log[cursor].type = "INSERT", cursor, cursor + 1)
    /\ UNCHANGED <<diskVars, logVars, mode, countVars>>

EndRedo ==
    /\ mode = "redo" /\ cursor > Len(log)
    /\ mode' = "undo" /\ cursor' = Len(log)
    /\ UNCHANGED <<hdrVars, page, diskVars, logVars, countVars>>

undo ==
    /\ mode = "undo" /\ cursor > base
    /\ Recover(log[cursor].rid, log[cursor].type = "DELETE", cursor, cursor - 1)
    /\ UNCHANGED <<diskVars, logVars, mode, countVars>>

EndUndo ==
    /\ mode = "undo" /\ cursor = base
    /\ mode' = "rebuild" /\ cursor' = 1
    /\ first_free_page_no' = NoPage
    /\ UNCHANGED <<num_pages, next_page_no, page, diskVars, logVars, countVars>>

\* One turn of the loop of rebuild_free_page_list.
rebuild_free_page_list ==
    /\ mode = "rebuild" /\ cursor < num_pages
    /\ LET free == page[cursor].num_records < PerPage
       IN  /\ page' = [page EXCEPT ![cursor].next_free_page_no =
                  IF free THEN first_free_page_no ELSE NoPage]
           /\ first_free_page_no' = IF free THEN cursor ELSE first_free_page_no
    /\ cursor' = cursor + 1
    /\ UNCHANGED <<num_pages, next_page_no, diskVars, logVars, mode, countVars>>

flush_all_pages ==
    /\ mode = "rebuild" /\ cursor >= num_pages
    /\ disk' = page
    /\ mode' = "header" /\ cursor' = Start
    /\ UNCHANGED <<hdrVars, page, disk_hdr, logVars, countVars>>

\* Faulty variant: recovery leaves the header to the next close_file.
HeaderNotWritten ==
    /\ mode = "header"
    /\ mode' = "reset"
    /\ UNCHANGED <<hdrVars, page, diskVars, logVars, cursor, countVars>>

WriteHeader ==
    /\ mode = "header"
    /\ disk_hdr' = [num_pages |-> num_pages, first_free_page_no |-> first_free_page_no]
    /\ mode' = "reset"
    /\ UNCHANGED <<hdrVars, page, disk, logVars, cursor, countVars>>

reset_log ==
    /\ mode = "reset"
    /\ log' = <<>> /\ base' = 0
    /\ mode' = "up"
    /\ UNCHANGED <<hdrVars, page, diskVars, committed, cursor, countVars>>

-----------------------------------------------------------------------------
\* RmManager::create_file, then the first start.
Init ==
    /\ num_pages = 1 /\ first_free_page_no = NoPage /\ next_page_no = 1
    /\ page = [p \in PageNo |-> ZeroPage]
    /\ disk = page
    /\ disk_hdr = [num_pages |-> 1, first_free_page_no |-> NoPage]
    /\ log = <<>> /\ base = 0
    /\ mode = "up" /\ cursor = Start
    /\ crashes = 0
    /\ committed = {} /\ exposed = FALSE

Session ==
    \/ Insert \/ InsertLog \/ InsertRefused
    \/ \E rid \in Rid : Delete(rid)
    \/ commit \/ abort \/ AbortUndo \/ AbortLog

Recovery ==
    \/ redo \/ EndRedo \/ undo \/ EndUndo
    \/ rebuild_free_page_list \/ flush_all_pages \/ WriteHeader \/ reset_log

Environment ==
    \/ \E page_no \in PageNo : Evict(page_no)
    \/ Crash \/ close_file \/ delete_all_pages

Next == Session \/ Recovery \/ Environment

Spec == Init /\ [][Next]_vars

-----------------------------------------------------------------------------
(* RmScan, as a function of the file.                                      *)

is_end(rid) == rid.page_no >= num_pages

\* Faulty variant: the slot of the old position is carried to the next page.
NextSlotCarried(rid, page_no) == next_bit(TRUE, page[page_no].bitmap, rid.slot_no)

\* What one turn of the loop over the pages finds: on the page of the position
\* the bits after its slot, on a later page all.
next_slot(rid, page_no) ==
    LET current_slot == IF page_no = rid.page_no THEN rid.slot_no ELSE -1
    IN  next_bit(TRUE, page[page_no].bitmap, current_slot)

\* RmScan::next.
next(rid) ==
    LET from[page_no \in 1 .. num_pages] ==
            IF page_no = num_pages THEN [page_no |-> num_pages, slot_no |-> -1]
            ELSE IF next_slot(rid, page_no) < PerPage
            THEN [page_no |-> page_no, slot_no |-> next_slot(rid, page_no)]
            ELSE from[page_no + 1]
    IN  IF is_end(rid) THEN rid ELSE from[rid.page_no]

-----------------------------------------------------------------------------
(* Properties.                                                             *)

Walk[n \in 0 .. MaxPages] ==
    IF n = 0 THEN first_free_page_no
    ELSE IF Walk[n - 1] \in PageNo THEN page[Walk[n - 1]].next_free_page_no
    ELSE NoPage

\* While clients are served, the list from first_free_page_no visits every page
\* whose bitmap is not full exactly once and no other.  insert_record takes its first
\* page, so a full page there would break the assertion that a slot is free,
\* and a page missing from it would never be filled again.  insert_record at a
\* given position unlinks a page only if it is the head; the list stays exact
\* because a rollback undoes the youngest change first.
FreeListExact ==
    mode \in {"up", "insert", "abort", "closing"} =>
        LET free == {p \in 1 .. num_pages - 1 : Cardinality(page[p].bitmap) < PerPage}
        IN  /\ {Walk[n] : n \in 0 .. MaxPages} \ {NoPage} = free
            /\ Walk[Cardinality(free)] = NoPage

\* With no transaction open, the file holds exactly the records of committed
\* transactions: after a rollback, after a refused INSERT, and after recovery
\* from a crash that found the header older than the pages.
RecordsExact ==
    mode = "up" /\ base = Len(log) /\ ~exposed => Present = committed

\* A scan that starts before the first slot and calls next until the end
\* (RmScan) visits every record once, in the order of page and slot.
ScanComplete ==
    LET n == Cardinality(Present)
        visit[i \in 0 .. n + 1] == IF i = 0 THEN Start ELSE next(visit[i - 1])
    IN  /\ {visit[i] : i \in 1 .. n} = Present
        /\ visit[n + 1].page_no >= num_pages
=============================================================================
