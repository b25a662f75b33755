---------------------------- MODULE RmFileProofs ----------------------------
(***************************************************************************)
(* The inductive invariant of RmFileInv through write-backs, crashes, redo *)
(* and undo, and the theorems: the free list, the records and a scan are   *)
(* exact, for any number of pages and slots.                               *)
(***************************************************************************)
EXTENDS RmFileInv

-----------------------------------------------------------------------------
(* Pages reach the disk, the server stops.                                 *)

\* The pool writes a page back.
LEMMA EvictOk == ASSUME RInv, NEW page_no \in PageNo, Evict(page_no) PROVE RInv'
<1>1. PICK tr : History(tr) /\ Link(tr)
  BY Zenon DEF RInv
<1>2. FileOk /\ Stored /\ Place
  BY Zenon DEF RInv
<1>3. /\ disk' = [disk EXCEPT ![page_no] = page[page_no]]
      /\ UNCHANGED <<hdrVars, page>>
      /\ UNCHANGED <<disk_hdr, mode, cursor, exposed>> /\ UNCHANGED logVars
  BY Zenon DEF Evict, countVars
<1>4. UNCHANGED <<log, base, committed, disk_hdr, mode, cursor, exposed,
                  page, num_pages, first_free_page_no, next_page_no>>
  BY <1>3, Zenon DEF logVars, hdrVars
<1>5. FileOk'
  BY <1>2, <1>4, Zenon DEF FileOk
<1>6. PagesOk(disk')
  <2>1. PageOk(page[page_no]) /\ page[page_no] \in Pages
    BY <1>2, Zenon DEF FileOk, PagesOk
  <2>2. disk \in [PageNo -> Pages] /\ \A p \in PageNo : PageOk(disk[p])
    BY <1>2, Zenon DEF Stored, PagesOk
  <2>3. disk' \in [PageNo -> Pages]
    BY <1>3, <2>1, <2>2, Zenon
  <2>4. \A p \in PageNo : disk'[p] = IF p = page_no THEN page[page_no] ELSE disk[p]
    BY <1>3, <2>2, Zenon
  <2> QED BY <2>1, <2>2, <2>3, <2>4 DEF PagesOk
<1>7. Stored'
  BY <1>2, <1>4, <1>6, Zenon DEF Stored
<1>8. History(tr)'
  BY <1>1, <1>3, SameHistory, Zenon
<1>9. Place'
  BY <1>2, <1>4, Zenon DEF Place
<1>10. Link(tr)'
  BY <1>1, <1>3, <1>4, SameLink
<1> QED BY <1>5, <1>7, <1>8, <1>9, <1>10 DEF RInv

\* The next start reads the header and the pages that the stop has left.
LEMMA RestartOk ==
    ASSUME RInv, NEW file, PagesOk(file), Restart(file, disk_hdr),
           disk_hdr' = disk_hdr, PagesOk(disk')
    PROVE  RInv'
<1>1. PICK tr : History(tr) /\ Link(tr)
  BY Zenon DEF RInv
<1>2. FileOk /\ Stored /\ Place
  BY Zenon DEF RInv
<1>3. /\ Len(log) \in Nat /\ base \in 0 .. Len(log) /\ num_pages \in 1 .. MaxPages + 1
      /\ disk_hdr.num_pages \in Nat /\ disk_hdr.first_free_page_no \in Int
      /\ disk_hdr.num_pages >= 1 /\ disk_hdr.num_pages <= num_pages
  BY <1>1, <1>2 DEF Stored, Place, FileOk
<1>4. /\ num_pages' = disk_hdr.num_pages /\ first_free_page_no' = disk_hdr.first_free_page_no
      /\ next_page_no' = disk_hdr.num_pages /\ page' = file
      /\ mode' = "redo" /\ cursor' = 1
      /\ exposed' = (exposed \/ ~Explained(file, disk_hdr))
      /\ UNCHANGED <<log, base, committed>>
  BY Zenon DEF Restart, logVars
<1>5. FileOk'
  BY <1>3, <1>4, SizeAssumption DEF FileOk
<1>6. Stored'
  <2>1. exposed' \in BOOLEAN
    BY <1>4, Zenon
  <2> QED BY <1>2, <1>4, <2>1, Zenon DEF Stored
<1>7. Place'
  BY <1>3, <1>4 DEF Place, Serving
<1>8. ~exposed' => ~exposed /\ Explained(file, disk_hdr)
  BY <1>4, Zenon
<1>9. History(tr)'
  BY <1>1, <1>4, <1>8, Zenon DEF History
<1>10. ASSUME ~exposed', NEW rid \in Rid, \A i \in 1 .. Len(log) : log[i].rid # rid
       PROVE  rid \in Present' <=> rid \in tr[0].recs
  <2>1. rid \in Present' <=> rid.page_no < disk_hdr.num_pages /\ rid.slot_no \in file[rid.page_no].bitmap
    BY <1>4, Zenon DEF Present, is_record
  <2>2. rid \in committed <=> rid \in tr[0].recs
    <3>1. tr[base].recs = committed
      BY <1>1, <1>8, <1>10 DEF History
    <3> QED BY <1>1, <1>2, <1>3, <1>10, <3>1, NeverChanged
  <2>3. \/ rid.page_no >= disk_hdr.num_pages
        \/ (rid \in committed) <=> (rid.slot_no \in file[rid.page_no].bitmap)
    <3>1. DOMAIN log = 1 .. Len(log)
      BY <1>2 DEF Stored
    <3> QED BY <1>8, <1>10, <3>1, Zenon DEF Explained
  <2>4. rid \in tr[0].recs => rid.page_no < disk_hdr.num_pages
    BY <1>1, Zenon DEF History
  <2>5. rid.page_no \in Nat
    BY RidParts, Zenon
  <2> QED BY <1>3, <2>1, <2>2, <2>3, <2>4, <2>5
<1>11. ~exposed' => Redone(tr)'
  <2>1. 1 .. cursor' - 1 = {}
    BY <1>4
  <2> QED BY <1>4, <1>10, <2>1, Zenon DEF Redone
<1>12. Link(tr)'
  BY <1>4, <1>11, Zenon DEF Link
<1> QED BY <1>5, <1>6, <1>7, <1>9, <1>12 DEF RInv

\* A crash.
LEMMA CrashOk == ASSUME RInv, Crash PROVE RInv'
<1>1. PagesOk(disk) /\ Restart(disk, disk_hdr) /\ disk_hdr' = disk_hdr /\ disk' = disk
  BY Zenon DEF RInv, Stored, Crash, diskVars
<1>2. PagesOk(disk')
  BY <1>1, Zenon
<1> QED BY <1>1, <1>2, RestartOk

\* A shutdown: close_file writes the header first ...
LEMMA CloseFileOk == ASSUME RInv, close_file PROVE RInv'
<1>1. PICK tr : History(tr) /\ Link(tr)
  BY Zenon DEF RInv
<1>2. FileOk /\ Stored /\ Place
  BY Zenon DEF RInv
<1>3. /\ mode = "up" /\ mode' = "closing"
      /\ disk_hdr' = [num_pages |-> num_pages, first_free_page_no |-> first_free_page_no]
      /\ UNCHANGED <<hdrVars, page>> /\ UNCHANGED <<disk, log, base, committed, exposed>>
  BY Zenon DEF close_file, logVars, countVars
<1>4. num_pages \in Nat /\ num_pages >= 1 /\ first_free_page_no \in Int /\ disk_hdr.num_pages <= num_pages
      /\ disk_hdr.num_pages \in Nat
  BY <1>2, SizeAssumption DEF FileOk, Place, Stored
<1>5. FileOk' /\ num_pages' = num_pages
  BY <1>2, <1>3, SameFile
<1>6. disk_hdr' \in [num_pages : Nat, first_free_page_no : Int] /\ disk_hdr'.num_pages = num_pages
  BY <1>3, <1>4, Zenon
<1>7. Stored'
  BY <1>2, <1>3, <1>4, <1>6 DEF Stored
<1>8. History(tr)'
  <2>1. ASSUME NEW rid \in tr[0].recs PROVE rid.page_no < disk_hdr'.num_pages
    <3>1. tr[0] \in Moment
      <4>1. 0 \in 0 .. Len(log)
        BY <1>1, <1>2, Last
      <4> QED BY <1>1, <4>1 DEF History
    <3>2. rid.page_no \in Nat
      BY <3>1, RidParts, Zenon DEF Moment
    <3>3. rid.page_no < disk_hdr.num_pages
      BY <1>1, Zenon DEF History
    <3> QED BY <1>4, <1>6, <3>2, <3>3
  <2> QED BY <1>1, <1>3, <2>1, Zenon DEF History
<1>9. PICK a : a = tr[Len(log)]
  OBVIOUS
<1>10. Now(a)'
  <2>1. Now(a)
    BY <1>1, <1>3, <1>9, Zenon DEF Link
  <2> QED BY <1>3, <2>1, SameFile, Zenon
<1>11. Link(tr)'
  BY <1>3, <1>9, <1>10, Zenon DEF Link
<1>12. Place'
  BY <1>2, <1>3, <1>4, <1>5, <1>6 DEF Place, Serving
<1> QED BY <1>5, <1>7, <1>8, <1>11, <1>12 DEF RInv

\* ... and then all pages.
LEMMA DeleteAllPagesOk == ASSUME RInv, delete_all_pages PROVE RInv'
<1>1. PagesOk(page) /\ Restart(page, disk_hdr) /\ disk_hdr' = disk_hdr /\ disk' = page
  BY Zenon DEF RInv, FileOk, delete_all_pages
<1>2. PagesOk(disk')
  BY <1>1, Zenon
<1> QED BY <1>1, <1>2, RestartOk

-----------------------------------------------------------------------------
(* Recovery.                                                               *)

\* One log record is redone, or one page is created for it.
LEMMA RedoOk == ASSUME RInv, redo PROVE RInv'
<1>1. PICK tr : History(tr) /\ Link(tr)
  BY Zenon DEF RInv
<1>2. FileOk /\ Stored /\ Place
  BY Zenon DEF RInv
<1>3. Len(log) \in Nat /\ num_pages \in Nat /\ disk_hdr.num_pages \in Nat
  BY <1>1, <1>2, Last, Zenon
<1>4. /\ mode = "redo" /\ mode' = "redo" /\ cursor <= Len(log)
      /\ Recover(log[cursor].rid, log[cursor].type = "INSERT", cursor, cursor + 1)
      /\ UNCHANGED <<diskVars, logVars, countVars>>
  BY Zenon DEF redo
<1>5. cursor \in 1 .. Len(log)
  BY <1>2, <1>3, <1>4 DEF Place
<1>6. /\ log[cursor] \in Changes /\ Between(tr[cursor - 1], log[cursor], tr[cursor])
  BY <1>1, <1>2, <1>5, LogRecord
<1>7. PICK rid \in Rid : rid = log[cursor].rid
  BY <1>6, Zenon DEF Changes
<1>8. PICK there \in BOOLEAN : there = (log[cursor].type = "INSERT")
  BY Zenon
<1>9. Recover(rid, there, cursor, cursor + 1)
  BY <1>4, <1>7, <1>8
<1>10. /\ FileOk' /\ num_pages <= num_pages'
       /\ there /\ TooShort(rid) => cursor' = cursor /\ Present' = Present
       /\ ~(there /\ TooShort(rid)) =>
             /\ cursor' = cursor + 1
             /\ Present' = IF there THEN Present \cup {rid} ELSE Present \ {rid}
  BY <1>2, <1>9, RecoverRecord
<1>11. UNCHANGED <<log, base, committed, disk, disk_hdr, exposed>>
  BY <1>4, Zenon DEF logVars, diskVars, countVars
<1>12. Stored' /\ History(tr)'
  BY <1>1, <1>2, <1>4, <1>11, SameStored, SameHistory
<1>13. num_pages' \in Nat
  BY <1>10, SizeAssumption DEF FileOk
<1>14. Place'
  BY <1>2, <1>3, <1>4, <1>5, <1>10, <1>11, <1>13 DEF Place, Serving
<1>15. ~exposed => Redone(tr)'
  <2>1. SUFFICES ASSUME ~exposed PROVE Redone(tr)'
    OBVIOUS
  <2>2. Redone(tr)
    BY <1>1, <1>4, <2>1, Zenon DEF Link
  <2>3. CASE there /\ TooShort(rid)
    BY <1>10, <1>11, <2>2, <2>3, Zenon DEF Redone
  <2>4. CASE ~(there /\ TooShort(rid))
    <3>1. cursor' = cursor + 1 /\ cursor' - 1 = cursor /\ cursor \in Nat
      BY <1>5, <1>10, <2>4
    <3>2. /\ there => tr[cursor].recs = tr[cursor - 1].recs \cup {rid}
          /\ ~there => tr[cursor].recs = tr[cursor - 1].recs \ {rid}
      <4>1. /\ log[cursor].type = "INSERT" => rid \notin tr[cursor - 1].recs
                                              /\ tr[cursor].recs = tr[cursor - 1].recs \cup {rid}
            /\ log[cursor].type # "INSERT" => log[cursor].type = "DELETE" /\ rid \in tr[cursor - 1].recs
                                              /\ tr[cursor].recs = tr[cursor - 1].recs \ {rid}
        BY <1>6, <1>7, BetweenRecs
      <4>2. "INSERT" # "DELETE"
        OBVIOUS
      <4> QED BY <1>8, <4>1, <4>2, Zenon
    <3>3. rid \in Present' <=> rid \in tr[cursor].recs
      BY <1>10, <2>4, <3>2
    <3>4. \A q \in Rid : q # rid => (q \in Present' <=> q \in Present)
                                    /\ (q \in tr[cursor].recs <=> q \in tr[cursor - 1].recs)
      BY <1>10, <2>4, <3>2
    <3>5. ASSUME NEW q \in Rid, NEW i \in 1 .. cursor, log[i].rid = q
          PROVE  q \in Present' <=> q \in tr[cursor].recs
      <4>1. CASE q = rid
        BY <3>3, <4>1
      <4>2. CASE q # rid
        <5>1. i # cursor
          BY <1>7, <3>5, <4>2
        <5>2. i \in 1 .. cursor - 1
          BY <3>1, <5>1
        <5>3. q \in Present <=> q \in tr[cursor - 1].recs
          BY <2>2, <3>5, <5>2 DEF Redone
        <5> QED BY <3>4, <4>2, <5>3
      <4> QED BY <4>1, <4>2
    <3>6. ASSUME NEW q \in Rid, \A i \in 1 .. Len(log) : log[i].rid # q
          PROVE  q \in Present' <=> q \in tr[0].recs
      <4>1. q # rid
        BY <1>5, <1>7, <3>6
      <4>2. q \in Present <=> q \in tr[0].recs
        BY <2>2, <3>6, Zenon DEF Redone
      <4> QED BY <3>4, <4>1, <4>2
    <3> QED BY <1>11, <3>1, <3>5, <3>6 DEF Redone
  <2> QED BY <2>3, <2>4
<1>16. Link(tr)'
  BY <1>4, <1>11, <1>15, Zenon DEF Link
<1> QED BY <1>10, <1>12, <1>14, <1>16 DEF RInv

\* Every change is redone: the file is as at the last moment.
LEMMA EndRedoOk == ASSUME RInv, EndRedo PROVE RInv'
<1>1. PICK tr : History(tr) /\ Link(tr)
  BY Zenon DEF RInv
<1>2. FileOk /\ Stored /\ Place
  BY Zenon DEF RInv
<1>3. Len(log) \in Nat /\ base \in Nat /\ base <= Len(log) /\ Len(log) \in 0 .. Len(log)
      /\ tr[Len(log)] \in Moment
  BY <1>1, <1>2, Last
<1>4. /\ mode = "redo" /\ mode' = "undo" /\ cursor > Len(log) /\ cursor' = Len(log)
      /\ UNCHANGED <<hdrVars, page>> /\ UNCHANGED <<diskVars, logVars, countVars>>
  BY Zenon DEF EndRedo
<1>5. cursor = Len(log) + 1 /\ cursor - 1 = Len(log)
  BY <1>2, <1>3, <1>4 DEF Place
<1>6. UNCHANGED <<log, base, committed, disk, disk_hdr, exposed>>
  BY <1>4, Zenon DEF logVars, diskVars, countVars
<1>7. FileOk' /\ num_pages' = num_pages /\ Present' = Present
  BY <1>2, <1>4, SameFile, Zenon
<1>8. Stored' /\ History(tr)'
  BY <1>1, <1>2, <1>4, <1>6, SameStored, SameHistory
<1>9. Place'
  BY <1>2, <1>3, <1>4, <1>6, <1>7 DEF Place, Serving
<1>10. ~exposed => Present = tr[Len(log)].recs
  <2>1. SUFFICES ASSUME ~exposed PROVE Present = tr[Len(log)].recs
    OBVIOUS
  <2>2. Redone(tr)
    BY <1>1, <1>4, <2>1, Zenon DEF Link
  <2>3. ASSUME NEW q \in Rid PROVE q \in Present <=> q \in tr[Len(log)].recs
    <3>1. CASE \E i \in 1 .. Len(log) : log[i].rid = q
      BY <1>5, <2>2, <3>1, Zenon DEF Redone
    <3>2. CASE \A i \in 1 .. Len(log) : log[i].rid # q
      <4>1. q \in Present <=> q \in tr[0].recs
        BY <2>2, <3>2, Zenon DEF Redone
      <4>2. q \in tr[Len(log)].recs <=> q \in tr[0].recs
        BY <1>1, <1>2, <1>3, <3>2, NeverChanged
      <4> QED BY <4>1, <4>2, Zenon
    <3> QED BY <3>1, <3>2, Zenon
  <2>4. tr[Len(log)].recs \subseteq Rid /\ Present \subseteq Rid
    BY <1>3, PresentIs, Zenon DEF Moment
  <2> QED BY <2>3, <2>4, Zenon
<1>11. Link(tr)'
  BY <1>4, <1>6, <1>7, <1>10, Zenon DEF Link
<1> QED BY <1>7, <1>8, <1>9, <1>11, Zenon DEF RInv

\* One log record is undone, or one page is created for it.
LEMMA UndoOk == ASSUME RInv, undo PROVE RInv'
<1>1. PICK tr : History(tr) /\ Link(tr)
  BY Zenon DEF RInv
<1>2. FileOk /\ Stored /\ Place
  BY Zenon DEF RInv
<1>3. Len(log) \in Nat /\ base \in Nat /\ num_pages \in Nat /\ disk_hdr.num_pages \in Nat
  BY <1>1, <1>2, Last, Zenon
<1>4. /\ mode = "undo" /\ mode' = "undo" /\ cursor > base
      /\ Recover(log[cursor].rid, log[cursor].type = "DELETE", cursor, cursor - 1)
      /\ UNCHANGED <<diskVars, logVars, countVars>>
  BY Zenon DEF undo
<1>5. cursor \in 1 .. Len(log)
  BY <1>2, <1>3, <1>4 DEF Place
<1>6. log[cursor] \in Changes /\ Between(tr[cursor - 1], log[cursor], tr[cursor])
  BY <1>1, <1>2, <1>5, LogRecord, Zenon
<1>7. PICK rid \in Rid : rid = log[cursor].rid
  BY <1>6, Zenon DEF Changes
<1>8. PICK there \in BOOLEAN : there = (log[cursor].type = "DELETE")
  BY Zenon
<1>9. Recover(rid, there, cursor, cursor - 1)
  BY <1>4, <1>7, <1>8, Zenon
<1>10. /\ FileOk' /\ num_pages <= num_pages'
       /\ there /\ TooShort(rid) => cursor' = cursor /\ Present' = Present
       /\ ~(there /\ TooShort(rid)) =>
             /\ cursor' = cursor - 1
             /\ Present' = IF there THEN Present \cup {rid} ELSE Present \ {rid}
  BY <1>2, <1>9, RecoverRecord
<1>11. UNCHANGED <<log, base, committed, disk, disk_hdr, exposed>>
  BY <1>4, Zenon DEF logVars, diskVars, countVars
<1>12. Stored' /\ History(tr)'
  BY <1>1, <1>2, <1>4, <1>11, SameStored, SameHistory
<1>13. num_pages' \in Nat
  BY <1>10, SizeAssumption DEF FileOk
<1>14. Place'
  BY <1>2, <1>3, <1>4, <1>5, <1>10, <1>11, <1>13 DEF Place, Serving
<1>15. ~exposed => Present' = tr[cursor'].recs
  <2>1. SUFFICES ASSUME ~exposed PROVE Present' = tr[cursor'].recs
    OBVIOUS
  <2>2. Present = tr[cursor].recs
    BY <1>1, <1>4, <2>1, Zenon DEF Link
  <2>3. CASE there /\ TooShort(rid)
    BY <1>10, <2>2, <2>3
  <2>4. CASE ~(there /\ TooShort(rid))
    <3>1. /\ ~there => rid \notin tr[cursor - 1].recs /\ tr[cursor].recs = tr[cursor - 1].recs \cup {rid}
          /\ there => rid \in tr[cursor - 1].recs /\ tr[cursor].recs = tr[cursor - 1].recs \ {rid}
      <4>1. /\ log[cursor].type = "INSERT" => rid \notin tr[cursor - 1].recs
                                              /\ tr[cursor].recs = tr[cursor - 1].recs \cup {rid}
            /\ log[cursor].type # "INSERT" => log[cursor].type = "DELETE" /\ rid \in tr[cursor - 1].recs
                                              /\ tr[cursor].recs = tr[cursor - 1].recs \ {rid}
        BY <1>6, <1>7, BetweenRecs
      <4>2. "INSERT" # "DELETE"
        OBVIOUS
      <4> QED BY <1>8, <4>1, <4>2, Zenon
    <3>2. Present' = tr[cursor - 1].recs
      BY <1>10, <2>2, <2>4, <3>1
    <3> QED BY <1>10, <2>4, <3>2
  <2> QED BY <2>3, <2>4
<1>16. Link(tr)'
  BY <1>4, <1>11, <1>15, Zenon DEF Link
<1> QED BY <1>10, <1>12, <1>14, <1>16, Zenon DEF RInv

\* Every open change is undone; the list is built from nothing.
LEMMA EndUndoOk == ASSUME RInv, EndUndo PROVE RInv'
<1>1. PICK tr : History(tr) /\ Link(tr)
  BY Zenon DEF RInv
<1>2. FileOk /\ Stored /\ Place
  BY Zenon DEF RInv
<1>3. Len(log) \in Nat /\ base \in Nat /\ num_pages \in Nat /\ 1 <= num_pages
  BY <1>1, <1>2, Last DEF FileOk
<1>4. /\ mode = "undo" /\ mode' = "rebuild" /\ cursor = base /\ cursor' = 1
      /\ first_free_page_no' = NoPage
      /\ UNCHANGED <<num_pages, next_page_no, page>> /\ UNCHANGED <<diskVars, logVars, countVars>>
  BY Zenon DEF EndUndo
<1>5. UNCHANGED <<log, base, committed, disk, disk_hdr, exposed>>
  BY <1>4, Zenon DEF logVars, diskVars, countVars
<1>6. FileOk'
  BY <1>2, <1>4 DEF FileOk, NoPage
<1>7. Present' = Present
  BY <1>4, Zenon DEF Present, is_record
<1>8. Stored' /\ History(tr)'
  BY <1>1, <1>2, <1>4, <1>5, SameStored, SameHistory
<1>9. Place'
  BY <1>2, <1>3, <1>4, <1>5 DEF Place, Serving
<1>10. \E l \in List : Linked(l, NoPage, page, 1)
  <2> DEFINE none == [top |-> 0, bot |-> -1, at |-> [k \in Int |-> 0]]
  <2>1. none \in List /\ none.top = 0 /\ none.bot = -1
    BY DEF List
  <2> HIDE DEF none
  <2>2. none.top .. none.bot = {} /\ none.top <= none.bot + 1 /\ NoPage = Nth(none, none.top)
    BY <2>1 DEF Nth
  <2>3. FreePages(page, 1) = {}
    BY DEF FreePages
  <2>4. Linked(none, NoPage, page, 1)
    BY <2>2, <2>3, Zenon DEF Linked, Chain
  <2> QED BY <2>1, <2>4, Zenon
<1>11. Link(tr)'
  BY <1>1, <1>4, <1>5, <1>7, <1>10 DEF Link
<1> QED BY <1>6, <1>8, <1>9, <1>11 DEF RInv

\* One page is put at the head of the list, or found full.
LEMMA RebuildOk == ASSUME RInv, rebuild_free_page_list PROVE RInv'
<1>1. PICK tr : History(tr) /\ Link(tr)
  BY Zenon DEF RInv
<1>2. FileOk /\ Stored /\ Place
  BY Zenon DEF RInv
<1>3. num_pages \in 1 .. MaxPages + 1 /\ first_free_page_no \in Int
  BY <1>2, Zenon DEF FileOk
<1> DEFINE c == cursor
           new == [page[c] EXCEPT !.next_free_page_no =
                      IF page[c].num_records < PerPage THEN first_free_page_no ELSE NoPage]
<1>4. /\ mode = "rebuild" /\ mode' = "rebuild" /\ c < num_pages /\ cursor' = c + 1
      /\ page' = [page EXCEPT ![c] = new]
      /\ first_free_page_no' = IF page[c].num_records < PerPage THEN c ELSE first_free_page_no
      /\ UNCHANGED <<num_pages, next_page_no>> /\ UNCHANGED <<diskVars, logVars, countVars>>
  BY Zenon DEF rebuild_free_page_list
<1>5. c \in 1 .. num_pages /\ c \in PageNo /\ c \in Nat /\ c \in Int
  BY <1>2, <1>3, <1>4, SizeAssumption DEF Place, PageNo
<1>6. page \in [PageNo -> Pages] /\ PageOk(page[c]) /\ page[c] \in Pages
  BY <1>2, <1>5 DEF FileOk, PagesOk
<1>7. page[c].num_records < PerPage <=> page[c].bitmap # Slot
  BY <1>6, FullPage, SizeAssumption
<1>8. /\ PageOk(new) /\ new.bitmap = page[c].bitmap
      /\ new.next_free_page_no = IF page[c].bitmap # Slot THEN first_free_page_no ELSE NoPage
  BY <1>3, <1>6, <1>7 DEF PageOk, Pages, NoPage
<1> HIDE DEF new
<1>9. \A q \in PageNo : page'[q] = IF q = c THEN new ELSE page[q]
  BY <1>4, <1>5, <1>6
<1>10. \A q \in PageNo : page'[q].bitmap = page[q].bitmap
  BY <1>8, <1>9
<1>11. FileOk'
  <2>1. page' \in [PageNo -> Pages]
    BY <1>4, <1>6, <1>8, Zenon DEF PageOk
  <2>2. PagesOk(page')
    BY <1>2, <1>8, <1>9, <2>1 DEF FileOk, PagesOk
  <2>3. first_free_page_no' \in Int
    BY <1>3, <1>4, <1>5
  <2> QED BY <1>2, <1>4, <2>2, <2>3, Zenon DEF FileOk
<1>12. Present' = Present
  <2>1. \A q \in Rid : page'[q.page_no].bitmap = page[q.page_no].bitmap
    BY <1>10, RidParts
  <2> QED BY <1>4, <2>1, Zenon DEF Present, is_record
<1>13. UNCHANGED <<log, base, committed, disk, disk_hdr, exposed>>
  BY <1>4, Zenon DEF logVars, diskVars, countVars
<1>14. Stored' /\ History(tr)'
  BY <1>1, <1>2, <1>4, <1>13, SameStored, SameHistory
<1>15. Place'
  BY <1>2, <1>3, <1>4, <1>5, <1>13 DEF Place, Serving
<1>16. PICK l \in List : Linked(l, first_free_page_no, page, c)
  BY <1>1, <1>4 DEF Link
<1>17. \A q \in 1 .. c - 1 : q \in PageNo /\ q # c
  BY <1>5, SizeAssumption DEF PageNo
<1>18. /\ FreePages(page, c) \in SUBSET Int /\ c \notin FreePages(page, c)
       /\ \A q \in FreePages(page, c) : page'[q].next_free_page_no = page[q].next_free_page_no
  BY <1>5, <1>9, <1>17 DEF FreePages
<1>19. FreePages(page', c + 1) = IF page[c].bitmap # Slot THEN FreePages(page, c) \cup {c}
                                 ELSE FreePages(page, c)
  <2>1. \A q \in 1 .. c : q = c \/ q \in 1 .. c - 1
    BY <1>5
  <2>2. \A q \in 1 .. c : q \in PageNo /\ page'[q].bitmap = page[q].bitmap
    BY <1>5, <1>10, <1>17, <2>1
  <2>3. c + 1 - 1 = c /\ c \in 1 .. c /\ \A q \in 1 .. c - 1 : q \in 1 .. c
    BY <1>5
  <2>4. FreePages(page', c + 1) = {q \in 1 .. c : page[q].bitmap # Slot}
    BY <2>2, <2>3 DEF FreePages
  <2> QED BY <1>17, <2>1, <2>3, <2>4 DEF FreePages
<1>20. \E k \in List : Linked(k, first_free_page_no', page', cursor')
  <2>1. CASE page[c].bitmap # Slot
    <3>1. page'[c].next_free_page_no = first_free_page_no
      BY <1>5, <1>8, <1>9, <2>1
    <3>2. Chain(Push(l, c), c, page', FreePages(page, c) \cup {c})
      BY <1>5, <1>16, <1>18, <3>1, PushChain DEF Linked
    <3>3. Push(l, c) \in List
      BY <1>5, PushPop, Zenon
    <3>4. Linked(Push(l, c), first_free_page_no', page', cursor')
      BY <1>4, <1>7, <1>19, <2>1, <3>2, Zenon DEF Linked
    <3> QED BY <3>3, <3>4
  <2>2. CASE page[c].bitmap = Slot
    <3>1. Chain(l, first_free_page_no, page', FreePages(page, c))
      BY <1>16, <1>18, SameChain DEF Linked
    <3>2. Linked(l, first_free_page_no', page', cursor')
      BY <1>4, <1>7, <1>19, <2>2, <3>1 DEF Linked
    <3> QED BY <3>2, Zenon
  <2> QED BY <2>1, <2>2
<1>21. Link(tr)'
  BY <1>1, <1>4, <1>12, <1>13, <1>20, Zenon DEF Link
<1> QED BY <1>11, <1>14, <1>15, <1>21 DEF RInv

\* The list is complete; the pages are written.
LEMMA FlushAllPagesOk == ASSUME RInv, flush_all_pages PROVE RInv'
<1>1. PICK tr : History(tr) /\ Link(tr)
  BY Zenon DEF RInv
<1>2. FileOk /\ Stored /\ Place
  BY Zenon DEF RInv
<1>3. num_pages \in Nat
  BY <1>1, <1>2, Last
<1>4. /\ mode = "rebuild" /\ mode' = "header" /\ cursor >= num_pages /\ disk' = page
      /\ UNCHANGED <<hdrVars, page>> /\ UNCHANGED <<disk_hdr, exposed, logVars>>
  BY Zenon DEF flush_all_pages, countVars
<1>5. UNCHANGED <<log, base, committed, disk_hdr, exposed>>
  BY <1>4, Zenon DEF logVars
<1>6. FileOk' /\ num_pages' = num_pages /\ Present' = Present
  BY <1>2, <1>4, SameFile
<1>7. Stored'
  <2>1. PagesOk(disk')
    BY <1>2, <1>4 DEF FileOk
  <2> QED BY <1>2, <1>5, <2>1, Zenon DEF Stored
<1>8. History(tr)'
  BY <1>1, <1>4, SameHistory
<1>9. Place'
  BY <1>2, <1>4, <1>5, <1>6 DEF Place, Serving
<1>10. cursor = num_pages
  BY <1>2, <1>3, <1>4 DEF Place
<1>11. PICK l \in List : Listed(l)
  BY <1>1, <1>4, <1>10 DEF Link, Listed
<1>12. Listed(l)'
  BY <1>4, <1>11, SameFile, Zenon
<1>13. Link(tr)'
  BY <1>1, <1>4, <1>5, <1>6, <1>12 DEF Link
<1> QED BY <1>6, <1>7, <1>8, <1>9, <1>13 DEF RInv

\* Recovery writes the header ...
LEMMA WriteHeaderOk == ASSUME RInv, WriteHeader PROVE RInv'
<1>1. PICK tr : History(tr) /\ Link(tr)
  BY Zenon DEF RInv
<1>2. FileOk /\ Stored /\ Place
  BY Zenon DEF RInv
<1>3. /\ mode = "header" /\ mode' = "reset"
      /\ disk_hdr' = [num_pages |-> num_pages, first_free_page_no |-> first_free_page_no]
      /\ UNCHANGED <<hdrVars, page>> /\ UNCHANGED <<disk, log, base, committed, exposed>>
  BY Zenon DEF WriteHeader, logVars, countVars
<1>4. num_pages \in Nat /\ num_pages >= 1 /\ first_free_page_no \in Int /\ disk_hdr.num_pages <= num_pages
      /\ disk_hdr.num_pages \in Nat /\ 0 \in 0 .. Len(log)
  BY <1>1, <1>2, Last, SizeAssumption DEF FileOk, Place
<1>5. FileOk' /\ num_pages' = num_pages /\ Present' = Present
  BY <1>2, <1>3, SameFile
<1>6. disk_hdr' \in [num_pages : Nat, first_free_page_no : Int] /\ disk_hdr'.num_pages = num_pages
  BY <1>3, <1>4
<1>7. Stored'
  BY <1>2, <1>3, <1>4, <1>6 DEF Stored
<1>8. History(tr)'
  <2>1. ASSUME NEW rid \in tr[0].recs PROVE rid.page_no < disk_hdr'.num_pages
    <3>1. tr[0] \in Moment
      BY <1>1, <1>4, Zenon DEF History
    <3>2. rid.page_no \in Nat
      BY <3>1, RidParts, Zenon DEF Moment
    <3>3. rid.page_no < disk_hdr.num_pages
      BY <1>1, Zenon DEF History
    <3> QED BY <1>4, <1>6, <3>2, <3>3
  <2> QED BY <1>1, <1>3, <2>1, Zenon DEF History
<1>9. PICK l \in List : Listed(l)
  BY <1>1, <1>3 DEF Link
<1>10. Listed(l)'
  BY <1>3, <1>9, SameFile, Zenon
<1>11. Link(tr)'
  BY <1>1, <1>3, <1>5, <1>10 DEF Link
<1>12. Place'
  BY <1>4, <1>3, <1>5, <1>6 DEF Place, Serving
<1> QED BY <1>5, <1>7, <1>8, <1>11, <1>12 DEF RInv

\* ... and empties the log: a new history begins.
LEMMA ResetLogOk == ASSUME RInv, reset_log PROVE RInv'
<1>1. PICK tr : History(tr) /\ Link(tr)
  BY Zenon DEF RInv
<1>2. FileOk /\ Stored /\ Place
  BY Zenon DEF RInv
<1>3. /\ mode = "reset" /\ mode' = "up" /\ log' = <<>> /\ base' = 0
      /\ UNCHANGED <<hdrVars, page>> /\ UNCHANGED <<disk, disk_hdr, committed, exposed>>
  BY Zenon DEF reset_log, diskVars, countVars
<1>4. log' \in Seq(Changes) /\ Len(log') = 0
  BY <1>3
<1>5. FileOk' /\ num_pages' = num_pages /\ Present' = Present
  BY <1>2, <1>3, SameFile
<1>6. Stored'
  <2>1. base' \in 0 .. Len(log')
    BY <1>3, <1>4
  <2> QED BY <1>2, <1>3, <1>4, <2>1, Zenon DEF Stored
<1>7. PICK l \in List : Listed(l)
  BY <1>1, <1>3 DEF Link
<1>8. Present \subseteq Rid
  BY PresentIs, Zenon
<1>9. PICK a \in Moment : a.recs = Present /\ a.list = l
  <2> DEFINE b == [recs |-> Present, list |-> l]
  <2>1. b \in Moment /\ b.recs = Present /\ b.list = l
    BY <1>8, Zenon DEF Moment
  <2> QED BY <2>1, Zenon
<1>10. Now(a)
  <2>1. 0 \in Int
    OBVIOUS
  <2>2. Prefix(l, l)
    BY <2>1, PrefixSelf
  <2> QED BY <1>7, <1>9, <2>2 DEF Now
<1>11. Now(a)'
  BY <1>3, <1>10, SameFile, Zenon
<1>12. PICK tr2 : tr2 = [i \in 0 .. 0 |-> a]
  BY Zenon
<1>13. tr2 \in [0 .. Len(log') -> Moment] /\ tr2[0] = a /\ tr2[Len(log')] = a /\ tr2[base'] = a
  BY <1>3, <1>4, <1>12
<1>14. History(tr2)'
  <2>1. \A rid \in a.recs : rid.page_no < disk_hdr'.num_pages
    <3>1. disk_hdr'.num_pages = num_pages
      BY <1>2, <1>3 DEF Place
    <3> QED BY <1>8, <1>9, <3>1, PresentIs
  <2>2. ~exposed => a.recs = committed
    BY <1>1, <1>3, <1>9, Zenon DEF Link, History
  <2>3. 1 .. Len(log') = {}
    BY <1>4
  <2> QED BY <1>3, <1>13, <2>1, <2>2, <2>3 DEF History
<1>15. Link(tr2)'
  BY <1>3, <1>11, <1>13 DEF Link
<1>16. Place'
  BY <1>2, <1>3, <1>4, <1>5 DEF Place, Serving
<1> QED BY <1>5, <1>6, <1>14, <1>15, <1>16 DEF RInv

-----------------------------------------------------------------------------
(* The invariants.                                                         *)

\* RInv holds in every reachable state, for any number of slots, pages, changes
\* and crashes.
THEOREM RInvariance == Spec => []RInv
<1>1. ASSUME RInv, [Next]_vars PROVE RInv'
  <2>1. CASE Session
    BY <1>1, <2>1, InsertOk, InsertLogOk, InsertRefusedOk, DeleteOk, CommitOk, AbortOk,
       AbortUndoOk, AbortLogOk, Zenon DEF Session
  <2>2. CASE Recovery
    BY <1>1, <2>2, RedoOk, EndRedoOk, UndoOk, EndUndoOk, RebuildOk, FlushAllPagesOk,
       WriteHeaderOk, ResetLogOk, Zenon DEF Recovery
  <2>3. CASE Environment
    BY <1>1, <2>3, EvictOk, CrashOk, CloseFileOk, DeleteAllPagesOk, Zenon DEF Environment
  <2>4. CASE UNCHANGED vars
    <3>1. /\ UNCHANGED <<log, base, committed, disk, disk_hdr, exposed, mode, cursor>>
          /\ UNCHANGED <<num_pages, first_free_page_no, next_page_no, page>>
      BY <2>4, Zenon DEF vars, hdrVars, diskVars, logVars, countVars
    <3>2. FileOk' /\ Stored' /\ Place'
      BY <1>1, <3>1, Zenon DEF RInv, FileOk, Stored, Place
    <3>3. PICK tr : History(tr) /\ Link(tr)
      BY <1>1, Zenon DEF RInv
    <3>4. History(tr)'
      BY <3>1, <3>3, Zenon DEF History
    <3>5. Link(tr)'
      BY <3>1, <3>3, SameLink DEF hdrVars
    <3> QED BY <3>2, <3>4, <3>5 DEF RInv
  <2> QED BY <1>1, <2>1, <2>2, <2>3, <2>4 DEF Next
<1> QED BY <1>1, InitOk, PTL DEF Spec

\* With no transaction open, the file holds the records of the committed
\* transactions and no other (insert_record, delete_record, abort, recovery).
THEOREM RecordsExactHolds == Spec => []RecordsExact
<1>1. ASSUME RInv PROVE RecordsExact
  <2> SUFFICES ASSUME mode = "up", base = Len(log), ~exposed PROVE Present = committed
    BY Zenon DEF RecordsExact
  <2>1. PICK tr : History(tr) /\ Link(tr)
    BY <1>1, Zenon DEF RInv
  <2>2. Present = tr[Len(log)].recs
    BY <2>1, Zenon DEF Link, Now
  <2>3. tr[base].recs = committed
    BY <2>1, Zenon DEF History
  <2> QED BY <2>2, <2>3
<1> QED BY <1>1, RInvariance, PTL

-----------------------------------------------------------------------------
(* The list as FreeListExact walks it.                                     *)

\* The pages of a list are as many as its positions.
LEMMA ListLength ==
    ASSUME FileOk, NEW l \in List, Listed(l)
    PROVE  /\ l.top \in Int /\ l.bot \in Int
           /\ Cardinality(FreePages(page, num_pages)) = l.bot - l.top + 1
           /\ l.bot - l.top + 1 \in 0 .. MaxPages
<1> DEFINE free == FreePages(page, num_pages)
           f == [k \in l.top .. l.bot |-> l.at[k]]
<1>1. l.top \in Int /\ l.bot \in Int /\ l.top <= l.bot + 1
  BY Zenon DEF List, Listed, Linked, Chain
<1>2. /\ \A k \in l.top .. l.bot : l.at[k] \in free
      /\ \A p \in free : \E k \in l.top .. l.bot : l.at[k] = p
      /\ \A j, k \in l.top .. l.bot : l.at[j] = l.at[k] => j = k
  BY Zenon DEF Listed, Linked, Chain
<1>3. free \subseteq PageNo
  BY FreePagesIn, Zenon
<1> HIDE DEF free
<1>4. f \in Bijection(l.top .. l.bot, free)
  <2>1. f \in [l.top .. l.bot -> free]
    BY <1>2
  <2>2. \A j, k \in l.top .. l.bot : f[j] = f[k] => j = k
    BY <1>2, Zenon
  <2>3. \A p \in free : \E k \in l.top .. l.bot : f[k] = p
    BY <1>2, Zenon
  <2> HIDE DEF f
  <2> QED BY <2>1, <2>2, <2>3, Zenon DEF Bijection, Injection, Surjection, IsInjective
<1>5. IsFiniteSet(l.top .. l.bot) /\ Cardinality(l.top .. l.bot) = l.bot - l.top + 1
  <2>1. /\ IsFiniteSet(l.top .. l.bot)
        /\ Cardinality(l.top .. l.bot) = IF l.top > l.bot THEN 0 ELSE l.bot - l.top + 1
    BY <1>1, FS_Interval, Zenon
  <2>2. (IF l.top > l.bot THEN 0 ELSE l.bot - l.top + 1) = l.bot - l.top + 1
    BY <1>1
  <2> QED BY <2>1, <2>2, Zenon
<1>6. ExistsBijection(l.top .. l.bot, free)
  BY <1>4, Zenon DEF ExistsBijection
<1>7. Cardinality(free) = l.bot - l.top + 1
  BY <1>5, <1>6, FS_Bijection
<1>8. IsFiniteSet(PageNo) /\ Cardinality(PageNo) = MaxPages
  BY FS_Interval, SizeAssumption DEF PageNo
<1>9. IsFiniteSet(free) /\ Cardinality(free) <= MaxPages
  BY <1>3, <1>8, FS_Subset
<1>10. l.bot - l.top + 1 \in 0 .. MaxPages
  BY <1>1, <1>7, <1>9, SizeAssumption
<1> QED BY <1>1, <1>7, <1>10 DEF free

\* A walk along next_free_page_no visits the positions of the list in order.
LEMMA WalkIs ==
    ASSUME FileOk, NEW l \in List, Listed(l)
    PROVE  \A n \in 0 .. MaxPages : Walk[n] = Nth(l, l.top + n)
<1> DEFINE Step(f, n) == IF n = 0 THEN first_free_page_no
                         ELSE IF f[n - 1] \in PageNo THEN page[f[n - 1]].next_free_page_no
                         ELSE NoPage
           g == [n \in 0 .. MaxPages |-> Nth(l, l.top + n)]
<1>1. /\ l.top \in Int /\ l.bot \in Int /\ first_free_page_no = Nth(l, l.top)
      /\ \A k \in l.top .. l.bot :
            l.at[k] \in PageNo /\ page[l.at[k]].next_free_page_no = Nth(l, k + 1)
  BY FreePagesIn DEF List, Listed, Linked, Chain
<1>2. NoPage \notin PageNo
  BY SizeAssumption DEF NoPage, PageNo
<1>3. ASSUME NEW n \in 0 .. MaxPages, NEW f, n # 0 => f[n - 1] = Nth(l, l.top + (n - 1))
      PROVE  Step(f, n) = Nth(l, l.top + n)
  <2>1. CASE n = 0
    BY <1>1, <2>1
  <2>2. CASE n # 0 /\ l.top + (n - 1) <= l.bot
    <3>1. l.top + (n - 1) \in l.top .. l.bot /\ l.top + (n - 1) + 1 = l.top + n
      BY <1>1, <2>2, SizeAssumption
    <3>2. f[n - 1] = l.at[l.top + (n - 1)]
      BY <1>3, <2>2 DEF Nth
    <3> QED BY <1>1, <2>2, <3>1, <3>2
  <2>3. CASE n # 0 /\ ~(l.top + (n - 1) <= l.bot)
    <3>1. f[n - 1] = NoPage
      BY <1>3, <2>3 DEF Nth
    <3>2. Nth(l, l.top + n) = NoPage
      BY <1>1, <2>3, SizeAssumption DEF Nth
    <3> QED BY <1>2, <2>3, <3>1, <3>2
  <2> QED BY <2>1, <2>2, <2>3
<1>4. g = [n \in 0 .. MaxPages |-> Step(g, n)]
  <2>1. ASSUME NEW n \in 0 .. MaxPages PROVE g[n] = Step(g, n)
    <3>1. g[n] = Nth(l, l.top + n)
      OBVIOUS
    <3>2. n # 0 => n - 1 \in 0 .. MaxPages
      BY SizeAssumption
    <3>3. n # 0 => g[n - 1] = Nth(l, l.top + (n - 1))
      BY <3>2, Zenon
    <3> HIDE DEF g, Step
    <3> QED BY <1>3, <3>1, <3>3
  <2>2. g = [n \in 0 .. MaxPages |-> g[n]]
    OBVIOUS
  <2> HIDE DEF g, Step
  <2> QED BY <2>1, <2>2
<1>5. Walk = [n \in 0 .. MaxPages |-> Step(Walk, n)]
  <2>1. \E f : f = [n \in 0 .. MaxPages |-> Step(f, n)]
    BY <1>4, Zenon
  <2> QED BY <2>1, Zenon DEF Walk
<1> HIDE DEF g, Step
<1>6. \A n \in 0 .. MaxPages : Walk[n] = Step(Walk, n)
  BY <1>5, Zenon
<1> DEFINE S == {n \in 0 .. MaxPages : Walk[n] # Nth(l, l.top + n)}
<1>7. SUFFICES ASSUME S # {} PROVE FALSE
  OBVIOUS
<1>8. S \in SUBSET Nat
  BY SizeAssumption
<1>9. PICK j \in S : \A k \in S : j <= k
  BY <1>7, <1>8, MinLeast, Zenon
<1>10. j # 0 => j - 1 \in 0 .. MaxPages /\ j - 1 \notin S
  BY <1>8, <1>9, SizeAssumption
<1>11. j # 0 => Walk[j - 1] = Nth(l, l.top + (j - 1))
  BY <1>10
<1>12. Walk[j] = Nth(l, l.top + j)
  BY <1>3, <1>6, <1>9, <1>11
<1> QED BY <1>9, <1>12

\* While clients are served, the list from first_free_page_no visits every page
\* with a free slot exactly once and no other page (insert_record,
\* delete_record, rebuild_free_page_list).
THEOREM FreeListExactHolds == Spec => []FreeListExact
<1>1. ASSUME RInv PROVE FreeListExact
  <2> DEFINE free == {p \in 1 .. num_pages - 1 : Cardinality(page[p].bitmap) < PerPage}
  <2> SUFFICES ASSUME mode \in {"up", "insert", "abort", "closing"}
               PROVE  /\ {Walk[n] : n \in 0 .. MaxPages} \ {NoPage} = free
                      /\ Walk[Cardinality(free)] = NoPage
    BY DEF FreeListExact
  <2>1. FileOk
    BY <1>1, Zenon DEF RInv
  <2>2. PICK l \in List : Listed(l)
    BY <1>1, Zenon DEF RInv, Link, Now
  <2>3. free = FreePages(page, num_pages)
    <3>1. ASSUME NEW p \in 1 .. num_pages - 1
          PROVE  Cardinality(page[p].bitmap) < PerPage <=> page[p].bitmap # Slot
      <4>1. PageOk(page[p])
        BY <2>1, FullIs
      <4>2. page[p].num_records = Cardinality(page[p].bitmap)
        BY <4>1 DEF PageOk
      <4> QED BY <4>1, <4>2, FullPage, SizeAssumption
    <3> QED BY <3>1, Zenon DEF FreePages
  <2>4. /\ l.top \in Int /\ l.bot \in Int /\ Cardinality(free) = l.bot - l.top + 1
        /\ l.bot - l.top + 1 \in 0 .. MaxPages
    BY <2>1, <2>2, <2>3, ListLength, Zenon
  <2>5. \A n \in 0 .. MaxPages : Walk[n] = Nth(l, l.top + n)
    BY <2>1, <2>2, WalkIs
  <2>6. /\ \A k \in l.top .. l.bot : l.at[k] \in free
        /\ \A p \in free : \E k \in l.top .. l.bot : l.at[k] = p
    BY <2>2, <2>3, Zenon DEF Listed, Linked, Chain
  <2>7. NoPage \notin free
    BY <2>1, <2>3, FreePagesIn
  <2> HIDE DEF free
  <2>8. Walk[Cardinality(free)] = NoPage
    BY <2>4, <2>5 DEF Nth
  <2>9. ASSUME NEW n \in 0 .. MaxPages, Walk[n] # NoPage PROVE Walk[n] \in free
    BY <2>4, <2>5, <2>6, <2>9, SizeAssumption DEF Nth
  <2>10. ASSUME NEW p \in free PROVE p # NoPage /\ \E n \in 0 .. MaxPages : Walk[n] = p
    <3>1. PICK k \in l.top .. l.bot : l.at[k] = p
      BY <2>6
    <3>2. k - l.top \in 0 .. MaxPages /\ l.top + (k - l.top) = k
      BY <2>4, SizeAssumption
    <3>3. Walk[k - l.top] = p
      BY <2>5, <3>1, <3>2 DEF Nth
    <3> QED BY <2>7, <3>2, <3>3
  <2> QED BY <2>8, <2>9, <2>10
<1> QED BY <1>1, RInvariance, PTL

-----------------------------------------------------------------------------
(* RmScan.                                                                 *)

\* The records after a position.
After(rid) == {r \in Present : \/ r.page_no > rid.page_no
                               \/ r.page_no = rid.page_no /\ r.slot_no > rid.slot_no}

\* The records of the file are finitely many.
LEMMA PresentFinite == IsFiniteSet(Present)
<1> DEFINE f == [rid \in Rid |-> <<rid.page_no, rid.slot_no>>]
<1>1. IsFiniteSet(PageNo) /\ IsFiniteSet(Slot)
  BY SlotsOfPage, FS_Interval, SizeAssumption DEF PageNo
<1>2. IsFiniteSet(PageNo \X Slot)
  BY <1>1, FS_Product
<1>3. f \in Injection(Rid, PageNo \X Slot)
  <2>1. f \in [Rid -> PageNo \X Slot]
    BY RidParts
  <2>2. \A q, r \in Rid : f[q] = f[r] => q = r
    BY RidParts
  <2> HIDE DEF f
  <2> QED BY <2>1, <2>2, Zenon DEF Injection, IsInjective
<1>4. IsFiniteSet(Rid)
  BY <1>2, <1>3, FS_Injection
<1> QED BY <1>4, FS_Subset, PresentIs

\* A position of a scan: in the file, or at its end.
Position(rid) == rid.page_no \in 1 .. num_pages /\ rid.slot_no \in -1 .. PerPage - 1

\* Bitmap::next_bit finds the first record of a page that RmScan::next comes
\* to: after the slot of the position, or on a later page the first of all.
LEMMA NextSlot ==
    ASSUME NEW rid, Position(rid), NEW p \in rid.page_no .. num_pages - 1
    PROVE  LET curr == IF p = rid.page_no THEN rid.slot_no ELSE -1
           IN  /\ next_slot(rid, p) \in curr + 1 .. PerPage
               /\ next_slot(rid, p) < PerPage => next_slot(rid, p) \in page[p].bitmap
               /\ \A s \in Slot : s \in page[p].bitmap /\ s > curr => next_slot(rid, p) <= s
<1> DEFINE curr == IF p = rid.page_no THEN rid.slot_no ELSE -1
           s1 == next_bit(TRUE, page[p].bitmap, curr)
<1>1. curr \in -1 .. PerPage - 1 /\ TRUE \in BOOLEAN /\ PerPage \in Nat
  BY SizeAssumption DEF Position
<1>2. next_slot(rid, p) = s1
  BY Zenon DEF next_slot
<1> HIDE DEF curr
<1>3. /\ s1 \in curr + 1 .. PerPage
      /\ s1 = PerPage \/ (is_set(page[p].bitmap, s1) <=> TRUE)
      /\ \A k \in curr + 1 .. s1 - 1 : ~(is_set(page[p].bitmap, k) <=> TRUE)
  BY <1>1, NextBit
<1> HIDE DEF s1
<1>4. s1 < PerPage => s1 \in page[p].bitmap
  BY <1>1, <1>3 DEF is_set
<1>5. ASSUME NEW s \in Slot, s \in page[p].bitmap, s > curr PROVE s1 <= s
  <2>1. s \notin curr + 1 .. s1 - 1
    BY <1>3, <1>5, Zenon DEF is_set
  <2> QED BY <1>1, <1>3, <1>5, <2>1 DEF Slot
<1> QED BY <1>2, <1>3, <1>4, <1>5 DEF curr

\* The loop of RmScan::next over the pages ends at the first page on which
\* next_bit finds a record, or behind the last page.
LEMMA NextPage ==
    ASSUME NEW rid, Position(rid), num_pages \in Nat, ~is_end(rid)
    PROVE  \E j \in rid.page_no .. num_pages :
              /\ next(rid) = IF j = num_pages THEN [page_no |-> num_pages, slot_no |-> -1]
                             ELSE [page_no |-> j, slot_no |-> next_slot(rid, j)]
              /\ j # num_pages => next_slot(rid, j) < PerPage
              /\ \A k \in rid.page_no .. j - 1 : ~(next_slot(rid, k) < PerPage)
<1> DEFINE H == {p \in 1 .. num_pages : next_slot(rid, p) < PerPage}
           Out(p) == IF p = num_pages THEN [page_no |-> num_pages, slot_no |-> -1]
                     ELSE [page_no |-> p, slot_no |-> next_slot(rid, p)]
           out == [p \in 1 .. num_pages |-> Out(p)]
           from[page_no \in 1 .. num_pages] ==
              IF page_no = num_pages THEN [page_no |-> num_pages, slot_no |-> -1]
              ELSE IF next_slot(rid, page_no) < PerPage
              THEN [page_no |-> page_no, slot_no |-> next_slot(rid, page_no)]
              ELSE from[page_no + 1]
<1>1. 1 \in Nat /\ num_pages \in Nat /\ rid.page_no \in 1 .. num_pages
  BY DEF Position
<1>2. \A p \in 1 .. num_pages : p \in H <=> next_slot(rid, p) < PerPage
  BY Zenon
<1>3. \A p \in 1 .. num_pages : out[p] = Out(p)
  BY Zenon
<1>4. next(rid) = from[rid.page_no]
  BY Zenon DEF next
<1> HIDE DEF H, out
<1>5. \A f : IsLoop(f, 1, num_pages, H, out) <=>
             f = [page_no \in 1 .. num_pages |->
                     IF page_no = num_pages THEN [page_no |-> num_pages, slot_no |-> -1]
                     ELSE IF next_slot(rid, page_no) < PerPage
                     THEN [page_no |-> page_no, slot_no |-> next_slot(rid, page_no)]
                     ELSE f[page_no + 1]]
  <2> TAKE f
  <2> DEFINE A == [p \in 1 .. num_pages |-> IF p = num_pages \/ p \in H THEN out[p] ELSE f[p + 1]]
             B == [page_no \in 1 .. num_pages |->
                     IF page_no = num_pages THEN [page_no |-> num_pages, slot_no |-> -1]
                     ELSE IF next_slot(rid, page_no) < PerPage
                     THEN [page_no |-> page_no, slot_no |-> next_slot(rid, page_no)]
                     ELSE f[page_no + 1]]
  <2>1. ASSUME NEW p \in 1 .. num_pages
        PROVE  (IF p = num_pages \/ p \in H THEN out[p] ELSE f[p + 1])
             = IF p = num_pages THEN [page_no |-> num_pages, slot_no |-> -1]
               ELSE IF next_slot(rid, p) < PerPage
               THEN [page_no |-> p, slot_no |-> next_slot(rid, p)]
               ELSE f[p + 1]
    BY <1>2, <1>3, <2>1, Zenon
  <2>2. A = B
    BY <2>1, Zenon
  <2> QED BY <2>2, Zenon DEF IsLoop
<1>6. from = [page_no \in 1 .. num_pages |->
                 IF page_no = num_pages THEN [page_no |-> num_pages, slot_no |-> -1]
                 ELSE IF next_slot(rid, page_no) < PerPage
                 THEN [page_no |-> page_no, slot_no |-> next_slot(rid, page_no)]
                 ELSE from[page_no + 1]]
  <2>1. \E f : IsLoop(f, 1, num_pages, H, out)
    BY <1>1, LoopExists, Zenon
  <2> QED BY <1>5, <2>1, Zenon
<1> HIDE DEF from
<1>7. IsLoop(from, 1, num_pages, H, out)
  BY <1>5, <1>6, Zenon
<1> HIDE DEF Out
<1>8. PICK j \in rid.page_no .. num_pages :
         /\ from[rid.page_no] = out[j] /\ (j = num_pages \/ j \in H)
         /\ \A k \in rid.page_no .. j - 1 : k \notin H
  BY <1>1, <1>7, LoopFinds
<1>9. j \in 1 .. num_pages /\ \A k \in rid.page_no .. j - 1 : k \in 1 .. num_pages
  BY <1>1, <1>8
<1>10. next(rid) = Out(j)
  BY <1>3, <1>4, <1>8, <1>9, Zenon
<1> QED BY <1>2, <1>8, <1>9, <1>10, Zenon DEF Out

\* RmScan::next goes to the first record after the position; the others after
\* it are after that record too.
LEMMA NextRecord ==
    ASSUME FileOk, NEW rid, Position(rid)
    PROVE  /\ After(rid) = {} => next(rid).page_no = num_pages
           /\ After(rid) # {} =>
                 /\ next(rid) \in After(rid)
                 /\ After(next(rid)) = After(rid) \ {next(rid)}
<1> DEFINE after == After(rid)
           m == next(rid)
<1>1. /\ num_pages \in Nat /\ num_pages <= MaxPages + 1 /\ PerPage \in Nat /\ MaxPages \in Nat
      /\ rid.page_no \in 1 .. num_pages /\ rid.slot_no \in -1 .. PerPage - 1
  BY SizeAssumption DEF FileOk, Position
<1>2. after \subseteq Present /\ \A r \in Present : r \in after <=>
         r.page_no > rid.page_no \/ (r.page_no = rid.page_no /\ r.slot_no > rid.slot_no)
  BY Zenon DEF After
<1>3. \A r \in Present : /\ r \in Rid /\ r.page_no \in 1 .. num_pages - 1 /\ r.slot_no \in Slot
                         /\ r.page_no \in Nat /\ r.slot_no \in Nat
                         /\ r.slot_no \in page[r.page_no].bitmap
  <2> TAKE r \in Present
  <2>1. r \in Rid /\ r.page_no < num_pages /\ r.slot_no \in page[r.page_no].bitmap
    BY PresentIs, Zenon
  <2>2. r.page_no \in Nat /\ r.page_no # 0 /\ r.slot_no \in Slot
    BY <2>1, RidParts
  <2> QED BY <1>1, <2>1, <2>2 DEF Slot
<1> HIDE DEF after
<1>4. CASE is_end(rid)
  <2>1. next(rid) = rid /\ rid.page_no = num_pages
    <3>1. next(rid) = rid
      BY <1>4, Zenon DEF next
    <3> QED BY <1>1, <1>4, <3>1 DEF is_end
  <2>2. after = {}
    BY <1>1, <1>2, <1>3, <2>1
  <2> QED BY <2>1, <2>2, Zenon DEF after
<1>5. CASE ~is_end(rid)
  <2>1. PICK j \in rid.page_no .. num_pages :
              /\ m = IF j = num_pages THEN [page_no |-> num_pages, slot_no |-> -1]
                     ELSE [page_no |-> j, slot_no |-> next_slot(rid, j)]
              /\ j # num_pages => next_slot(rid, j) < PerPage
              /\ \A k \in rid.page_no .. j - 1 : ~(next_slot(rid, k) < PerPage)
    BY <1>1, <1>5, NextPage, Zenon
  <2> HIDE DEF m
  <2>2. ASSUME NEW r \in after
        PROVE  /\ r.page_no \in rid.page_no .. num_pages - 1
               /\ next_slot(rid, r.page_no) <= r.slot_no /\ j <= r.page_no
    <3>1. /\ r \in Present /\ r.page_no \in rid.page_no .. num_pages - 1
          /\ r.page_no = rid.page_no => r.slot_no > rid.slot_no
      BY <1>1, <1>2, <1>3, <2>2
    <3>2. /\ r.slot_no \in Slot /\ r.slot_no \in Nat /\ r.slot_no < PerPage
          /\ r.slot_no \in page[r.page_no].bitmap
      BY <1>1, <1>3, <3>1 DEF Slot
    <3>3. /\ next_slot(rid, r.page_no) <= r.slot_no /\ next_slot(rid, r.page_no) \in Int
      BY <1>1, <3>1, <3>2, NextSlot
    <3>4. next_slot(rid, r.page_no) < PerPage
      BY <1>1, <3>2, <3>3
    <3>5. r.page_no \notin rid.page_no .. j - 1
      BY <2>1, <3>4, Zenon
    <3> QED BY <1>1, <3>1, <3>3, <3>5
  <2>3. CASE j = num_pages
    <3>1. after = {} /\ m.page_no = num_pages
      BY <1>1, <2>1, <2>2, <2>3
    <3> QED BY <3>1, Zenon DEF after, m
  <2>4. CASE j # num_pages
    <3>1. /\ j \in rid.page_no .. num_pages - 1 /\ j \in Nat /\ next_slot(rid, j) < PerPage
          /\ m.page_no = j /\ m.slot_no = next_slot(rid, j)
          /\ m = [page_no |-> j, slot_no |-> next_slot(rid, j)]
      BY <1>1, <2>1, <2>4
    <3>2. /\ m.slot_no \in page[j].bitmap /\ m.slot_no \in Nat /\ m.slot_no \in Slot
          /\ j = rid.page_no => m.slot_no > rid.slot_no
      BY <1>1, <3>1, NextSlot DEF Slot
    <3>3. m \in Rid /\ m.page_no < num_pages
      BY <1>1, <3>1, <3>2 DEF Rid, PageNo
    <3>4. m \in Present
      BY <3>1, <3>2, <3>3, PresentIs
    <3>5. m \in after
      BY <1>1, <1>2, <3>1, <3>2, <3>4
    <3>6. ASSUME NEW q \in after
          PROVE  m.page_no <= q.page_no /\ (q.page_no = m.page_no => m.slot_no <= q.slot_no)
      BY <2>2, <3>1
    <3>7. After(m) \subseteq Present /\ \A q \in Present : q \in After(m) <=>
             q.page_no > m.page_no \/ (q.page_no = m.page_no /\ q.slot_no > m.slot_no)
      BY Zenon DEF After
    <3>8. ASSUME NEW q \in Present PROVE q \in After(m) <=> q \in after /\ q # m
      <4>1. /\ q.page_no \in Nat /\ q.slot_no \in Nat /\ m.page_no \in Nat /\ m.slot_no \in Nat
            /\ q = m <=> q.page_no = m.page_no /\ q.slot_no = m.slot_no
        <5>1. q \in Rid /\ q.page_no \in Nat /\ q.slot_no \in Nat
          BY <1>3
        <5>2. q = m <=> q.page_no = m.page_no /\ q.slot_no = m.slot_no
          BY <3>3, <5>1, RidParts, Zenon
        <5> QED BY <3>1, <3>2, <5>1, <5>2
      <4>2. ASSUME q \in After(m) PROVE q \in after /\ q # m
        <5>1. q.page_no > m.page_no \/ (q.page_no = m.page_no /\ q.slot_no > m.slot_no)
          BY <3>7, <4>2
        <5>2. q.page_no > rid.page_no \/ (q.page_no = rid.page_no /\ q.slot_no > rid.slot_no)
          BY <1>1, <3>1, <3>2, <4>1, <5>1
        <5> QED BY <1>2, <4>1, <5>1, <5>2
      <4>3. ASSUME q \in after, q # m PROVE q \in After(m)
        <5>1. q.page_no > m.page_no \/ (q.page_no = m.page_no /\ q.slot_no > m.slot_no)
          BY <3>6, <4>1, <4>3
        <5> QED BY <3>7, <5>1
      <4> QED BY <4>2, <4>3
    <3>9. After(m) = after \ {m}
      BY <1>2, <3>7, <3>8, Zenon
    <3> QED BY <3>5, <3>9, Zenon DEF after, m
  <2> QED BY <2>3, <2>4
<1> QED BY <1>4, <1>5

\* One call of next after another visits one record after another.
LEMMA ScanVisits ==
    ASSUME FileOk, NEW n \in Nat, n = Cardinality(Present), NEW v,
           \A i \in 0 .. n + 1 : v[i] = IF i = 0 THEN Start ELSE next(v[i - 1])
    PROVE  /\ {v[i] : i \in 1 .. n} = Present
           /\ v[n + 1].page_no >= num_pages
<1> DEFINE P(i) == /\ Position(v[i])
                   /\ Cardinality(After(v[i])) = n - i
                   /\ \A r \in Present : r \in After(v[i]) \/ \E j \in 1 .. i : v[j] = r
                   /\ \A j \in 1 .. i : v[j] \in Present
           S == {i \in 0 .. n : ~P(i)}
<1>1. P(0)
  <2>1. v[0] = Start /\ v[0].page_no = 1 /\ v[0].slot_no = -1
    BY DEF Start
  <2>2. ASSUME NEW r \in Present PROVE r.page_no > 1 \/ (r.page_no = 1 /\ r.slot_no > -1)
    <3>1. r \in Rid
      BY PresentIs
    <3>2. r.page_no \in Nat /\ r.page_no # 0 /\ r.slot_no \in Nat
      BY <3>1, RidParts, SizeAssumption DEF Slot
    <3> QED BY <3>2
  <2>3. After(v[0]) = Present
    BY <2>1, <2>2 DEF After
  <2>4. Position(v[0])
    BY <2>1, SizeAssumption DEF FileOk, Position
  <2> QED BY <2>1, <2>3, <2>4
<1>2. ASSUME NEW i \in 0 .. n, i # n, P(i) PROVE P(i + 1)
  <2>1. i \in Nat /\ i + 1 \in 0 .. n + 1 /\ i + 1 # 0 /\ (i + 1) - 1 = i /\ n - i > 0
        /\ n - (i + 1) = (n - i) - 1 /\ i + 1 \in 1 .. i + 1
    BY <1>2
  <2>2. v[i + 1] = next(v[i])
    BY <2>1
  <2>3. After(v[i]) # {}
    BY <1>2, <2>1, FS_EmptySet
  <2>4. v[i + 1] \in After(v[i]) /\ After(v[i + 1]) = After(v[i]) \ {v[i + 1]}
    BY <1>2, <2>2, <2>3, NextRecord, Zenon
  <2>5. After(v[i]) \subseteq Present
    BY DEF After
  <2>6. IsFiniteSet(After(v[i]))
    BY <2>5, PresentFinite, FS_Subset
  <2>7. Cardinality(After(v[i + 1])) = n - (i + 1)
    <3>1. Cardinality(After(v[i]) \ {v[i + 1]}) = Cardinality(After(v[i])) - 1
      BY <2>4, <2>6, FS_RemoveElement, Zenon
    <3> QED BY <1>2, <2>1, <2>4, <3>1
  <2>8. v[i + 1] \in Present /\ v[i + 1] \in Rid
    BY <2>4, <2>5, PresentIs
  <2>9. Position(v[i + 1])
    <3>1. v[i + 1].page_no < num_pages
      BY <2>8, PresentIs
    <3>2. v[i + 1].page_no \in Nat /\ v[i + 1].page_no # 0 /\ v[i + 1].slot_no \in Slot
      BY <2>8, RidParts
    <3> QED BY <3>1, <3>2, SizeAssumption DEF FileOk, Position, Slot
  <2>10. \A r \in Present : r \in After(v[i + 1]) \/ \E j \in 1 .. i + 1 : v[j] = r
    <3> TAKE r \in Present
    <3>1. CASE r = v[i + 1]
      BY <2>1, <3>1
    <3>2. CASE r # v[i + 1] /\ r \in After(v[i])
      BY <2>4, <3>2
    <3>3. CASE \E j \in 1 .. i : v[j] = r
      <4>1. \A j \in 1 .. i : j \in 1 .. i + 1
        BY <2>1
      <4> QED BY <3>3, <4>1
    <3> QED BY <1>2, <3>1, <3>2, <3>3
  <2>11. \A j \in 1 .. i + 1 : v[j] \in Present
    <3>1. \A j \in 1 .. i + 1 : j = i + 1 \/ j \in 1 .. i
      BY <2>1
    <3> QED BY <1>2, <2>8, <3>1
  <2> QED BY <2>7, <2>9, <2>10, <2>11
<1> HIDE DEF P
<1>3. \A i \in 0 .. n : P(i)
  <2>1. SUFFICES ASSUME S # {} PROVE FALSE
    OBVIOUS
  <2>2. S \in SUBSET Nat
    OBVIOUS
  <2>3. PICK j \in S : \A k \in S : j <= k
    BY <2>1, <2>2, MinLeast, Zenon
  <2>4. j \in Nat /\ j \in 0 .. n /\ ~P(j) /\ j # 0
    BY <1>1, <2>3
  <2>5. j - 1 \in 0 .. n /\ j - 1 # n /\ (j - 1) + 1 = j
    BY <2>4
  <2>6. j - 1 \notin S
    BY <2>3, <2>4
  <2>7. P(j - 1)
    BY <2>5, <2>6
  <2>8. P((j - 1) + 1)
    BY <1>2, <2>5, <2>7
  <2> QED BY <2>4, <2>5, <2>8
<1>4. P(n)
  BY <1>3
<1>5. After(v[n]) = {}
  <2>1. IsFiniteSet(After(v[n]))
    BY PresentFinite, FS_Subset DEF After
  <2>2. Cardinality(After(v[n])) = 0
    BY <1>4 DEF P
  <2> QED BY <2>1, <2>2, FS_EmptySet
<1>6. {v[i] : i \in 1 .. n} = Present
  BY <1>4, <1>5 DEF P
<1>7. v[n + 1] = next(v[n])
  <2>1. n + 1 \in 0 .. n + 1 /\ n + 1 # 0 /\ (n + 1) - 1 = n
    OBVIOUS
  <2> QED BY <2>1, Zenon
<1>8. v[n + 1].page_no = num_pages
  BY <1>4, <1>5, <1>7, NextRecord DEF P
<1>9. num_pages \in Int
  BY DEF FileOk
<1> QED BY <1>6, <1>8, <1>9

\* The calls of next can be written down one after the other.
LEMMA ScanExists ==
    ASSUME NEW n \in Nat
    PROVE  \E v : v = [i \in 0 .. n |-> IF i = 0 THEN Start ELSE next(v[i - 1])]
<1> DEFINE Step(v, i) == IF i = 0 THEN Start ELSE next(v[i - 1])
           Upto(k) == \E v : DOMAIN v = 0 .. k /\ \A i \in 0 .. k : v[i] = Step(v, i)
           S == {k \in 0 .. n : ~Upto(k)}
<1>1. Upto(0)
  <2> DEFINE v == [i \in 0 .. 0 |-> Start]
  <2>1. DOMAIN v = 0 .. 0 /\ \A i \in 0 .. 0 : v[i] = Step(v, i)
    OBVIOUS
  <2> QED BY <2>1, Zenon
<1>2. ASSUME NEW k \in Nat, Upto(k) PROVE Upto(k + 1)
  <2>1. PICK v : DOMAIN v = 0 .. k /\ \A i \in 0 .. k : v[i] = Step(v, i)
    BY <1>2
  <2> DEFINE w == [i \in 0 .. k + 1 |-> IF i = k + 1 THEN next(v[k]) ELSE v[i]]
  <2>2. DOMAIN w = 0 .. k + 1 /\ w[k + 1] = next(v[k]) /\ \A i \in 0 .. k : w[i] = v[i]
    OBVIOUS
  <2> HIDE DEF w
  <2>3. ASSUME NEW i \in 0 .. k + 1 PROVE w[i] = Step(w, i)
    <3>1. CASE i = k + 1
      <4>1. i # 0 /\ i - 1 = k /\ k \in 0 .. k
        BY <3>1
      <4> QED BY <2>2, <3>1, <4>1
    <3>2. CASE i # k + 1
      <4>1. i \in 0 .. k /\ (i # 0 => i - 1 \in 0 .. k)
        BY <3>2
      <4> QED BY <2>1, <2>2, <4>1
    <3> QED BY <3>1, <3>2
  <2> QED BY <2>2, <2>3
<1> HIDE DEF Upto
<1>3. Upto(n)
  <2>1. SUFFICES ASSUME S # {} PROVE FALSE
    OBVIOUS
  <2>2. S \in SUBSET Nat
    OBVIOUS
  <2>3. PICK j \in S : \A k \in S : j <= k
    BY <2>1, <2>2, MinLeast, Zenon
  <2>4. j \in Nat /\ ~Upto(j) /\ j # 0 /\ j \in 0 .. n
    BY <1>1, <2>3
  <2>5. j - 1 \in Nat /\ j - 1 \notin S /\ j - 1 \in 0 .. n /\ (j - 1) + 1 = j
    BY <2>3, <2>4
  <2>6. Upto((j - 1) + 1)
    BY <1>2, <2>5
  <2> QED BY <2>4, <2>5, <2>6
<1>4. PICK u : DOMAIN u = 0 .. n /\ \A i \in 0 .. n : u[i] = Step(u, i)
  BY <1>3 DEF Upto
<1> DEFINE v == [i \in 0 .. n |-> u[i]]
<1>5. \A i \in 0 .. n : v[i] = u[i] /\ (i # 0 => v[i - 1] = u[i - 1])
  OBVIOUS
<1>6. v = [i \in 0 .. n |-> v[i]]
  OBVIOUS
<1> HIDE DEF v
<1>7. \A i \in 0 .. n : v[i] = IF i = 0 THEN Start ELSE next(v[i - 1])
  BY <1>4, <1>5
<1>8. v = [i \in 0 .. n |-> IF i = 0 THEN Start ELSE next(v[i - 1])]
  BY <1>6, <1>7, Zenon
<1> QED BY <1>8

\* A scan from before the first slot visits every record of the file, and ends
\* behind its last page after as many calls of next as there are records
\* (RmScan).
THEOREM ScanCompleteHolds == Spec => []ScanComplete
<1>1. ASSUME RInv PROVE ScanComplete
  <2>1. FileOk
    BY <1>1, Zenon DEF RInv
  <2>2. PICK n \in Nat : n = Cardinality(Present)
    BY PresentFinite, FS_CardinalityType, Zenon
  <2> DEFINE visit[i \in 0 .. n + 1] == IF i = 0 THEN Start ELSE next(visit[i - 1])
  <2>3. visit = [i \in 0 .. n + 1 |-> IF i = 0 THEN Start ELSE next(visit[i - 1])]
    <3>1. \E v : v = [i \in 0 .. n + 1 |-> IF i = 0 THEN Start ELSE next(v[i - 1])]
      BY ScanExists
    <3> QED BY <3>1, Zenon
  <2>4. ScanComplete <=> {visit[i] : i \in 1 .. n} = Present /\ visit[n + 1].page_no >= num_pages
    BY <2>2, Zenon DEF ScanComplete
  <2> HIDE DEF visit
  <2>5. \A i \in 0 .. n + 1 : visit[i] = IF i = 0 THEN Start ELSE next(visit[i - 1])
    BY <2>3, Zenon
  <2> QED BY <2>1, <2>2, <2>4, <2>5, ScanVisits
<1> QED BY <1>1, RInvariance, PTL

=============================================================================
