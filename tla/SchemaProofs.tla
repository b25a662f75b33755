---------------------------- MODULE SchemaProofs ----------------------------
(***************************************************************************)
(* Proofs about the indexes of a table that is written while indexes and   *)
(* the table are created and dropped, for any numbers of sessions,         *)
(* columns, keys and records.  As long as no DROP has run beside an        *)
(* unfinished writer, and no writer has come to an index that CREATE INDEX *)
(* had listed and not yet opened, the write records of the writer lead     *)
(* back, table by table, from the records in the file to the committed     *)
(* ones, and no two records share a key on the way; with that, an entry of *)
(* an index that was not left behind by a failed INSERT leads to the       *)
(* record with its key, whatever is rolled back.  Induction along the      *)
(* write records is by the least number that would be a counterexample     *)
(* (FirstOfLeast).                                                         *)
(***************************************************************************)
EXTENDS Schema, TLAPS, WellFoundedInduction

-----------------------------------------------------------------------------
(* The state.                                                              *)

Content == Row \cup {Absent}
Heap == [Rid -> Content]
Entries == [Key -> Rid \cup {Absent}]
WriteRecord ==
    [wtype : {"INSERT_TUPLE", "DELETE_TUPLE", "UPDATE_TUPLE"}, rid : Rid, old : Content]

Plain == [op : {"idle", "undo", "failed", "dangling", "drop table"}]
Inserting == [op : {"insert"}, cols : Seq(Col), row : Row]
Deleting == [op : {"delete"}, cols : Seq(Col), rids : SUBSET Rid]
Updating == [op : {"update"}, cols : Seq(Col), rids : SUBSET Rid, col : Col, key : Key]
Build == [op : {"build", "publish"}, col : Col, at : 0 .. MaxRid, entries : Entries]
Unlisting == [op : {"unlist"}, col : Col, then : {"idle", "drop table"}]
Statement == Plain \cup Inserting \cup Deleting \cup Updating \cup Build \cup Unlisting

SType ==
    /\ exists \in BOOLEAN
    /\ heap \in Heap /\ committed \in Heap
    /\ indexes \in Seq(Col)
    /\ ihs \in [Col -> Entries \cup {NotOpen}]
    /\ holder \in Writer \cup {None}
    /\ write_set \in [Session -> Seq(WriteRecord)]
    /\ stmt \in [Session -> Statement]
    /\ leaked \subseteq Col \X Key

-----------------------------------------------------------------------------
(* The inductive invariant.  It is claimed while no DROP has run beside an *)
(* unfinished writer and no writer has met an unopened index.              *)

Calm == overlap \subseteq {"create"}

\* The indexes about which something is claimed: none once a CREATE INDEX has
\* run beside a writer.
Watched == IF overlap = {} THEN Range(indexes) ELSE {}

\* A session that executes a statement, or has changes that are not committed,
\* has the lock of a table that is there.
Active(s) == Executing(s) \/ write_set[s] # <<>>

Locked ==
    \A s \in Session :
        /\ Active(s) => s \in Writer /\ holder = s /\ exists
        /\ stmt[s].op \notin {"failed", "dangling"}

Opened ==
    /\ IsInjective(indexes)
    /\ \A col \in Col : ihs[col] # NotOpen <=> col \in Range(indexes) \ Unopened

\* The metadata an executor has copied, and the rids it has collected, are
\* still those of the table.
Current(what, cols, watched, records) ==
    /\ what.op \in {"insert", "delete", "update"} =>
          Range(what.cols) \subseteq cols /\ watched \subseteq Range(what.cols)
    /\ what.op \in {"delete", "update"} => what.rids # {} /\ what.rids \subseteq records

Statements == \A s \in Session : Current(stmt[s], Range(indexes), Watched, Records)

\* The write record leads from the table after the change to the one before.
Undoes(write, before, after) ==
    /\ before = [after EXCEPT ![write.rid] = write.old]
    /\ write.old = Absent <=> write.wtype = "INSERT_TUPLE"
    /\ after[write.rid] = Absent <=> write.wtype = "DELETE_TUPLE"

\* The tables a transaction went through, one per write record and the one
\* it has now.
Trail(writes, trail, from, to) ==
    /\ Len(trail) = Len(writes) + 1
    /\ trail[1] = from /\ trail[Len(writes) + 1] = to
    /\ \A i \in 1 .. Len(writes) : Undoes(writes[i], trail[i], trail[i + 1])

UniqueAlong(trail, cols) == \A i \in 1 .. Len(trail) : \A col \in cols : UniqueOn(trail[i], col)

\* The write records lead back from one table to another, and on the way no
\* two records share a key of the given columns.
LeadsBack(writes, from, to, cols) ==
    \E trail \in Seq(Heap) : Trail(writes, trail, from, to) /\ UniqueAlong(trail, cols)

Writes == IF holder \in Writer THEN write_set[holder] ELSE <<>>

History == LeadsBack(Writes, committed, heap, Watched)

\* An index without an entry for a key means no record has the key, and an
\* entry that is not a leaked one leads to the record that has it.
EntryExact(entries, col, key, table, leaks) ==
    /\ entries[key] = Absent => \A rid \in Rid : table[rid] # Absent => table[rid][col] # key
    /\ entries[key] # Absent /\ <<col, key>> \notin leaks =>
          table[entries[key]] # Absent /\ table[entries[key]][col] = key

IndexExact(entries, col, table, leaks) ==
    \A key \in Key : EntryExact(entries, col, key, table, leaks)

Indexed ==
    /\ \A col \in Watched \ Unopened : IndexExact(ihs[col], col, heap, leaked)
    /\ overlap = {} => \A e \in leaked :
          e[1] \in Range(indexes) \ Unopened /\ ihs[e[1]][e[2]] # Absent

\* The records a CREATE INDEX has entered, and its entries.
Seen(what, table) == {rid \in Rid : table[rid] # Absent /\ (what.at = 0 \/ rid < what.at)}

Scanned(what, table) ==
    /\ what.at # 0 => table[what.at] # Absent
    /\ \A key \in Key : what.entries[key] = Absent =>
          \A rid \in Seen(what, table) : table[rid][what.col] # key
    /\ \A key \in Key : what.entries[key] # Absent =>
          what.entries[key] \in Seen(what, table) /\ table[what.entries[key]][what.col] = key
    /\ \A r1, r2 \in Seen(what, table) : r1 # r2 => table[r1][what.col] # table[r2][what.col]

\* One DDL statement at a time.  A DROP runs beside no writer, and beside the
\* other statements no writer runs unseen.
InDdl == {"build", "publish", "unlist", "drop table"}

Builds ==
    \A s \in Session : stmt[s].op \in InDdl =>
        /\ \A c \in Session : stmt[c].op \in InDdl => c = s
        /\ stmt[s].op = "build" => stmt[s].col \notin Range(indexes)
        /\ stmt[s].op \in {"publish", "unlist"} => stmt[s].col \in Range(indexes)
        /\ stmt[s].op = "publish" => stmt[s].at = 0
        /\ stmt[s].op \in {"unlist", "drop table"} => \A c \in Session : ~Active(c)
        /\ overlap = {} =>
              /\ \A c \in Session : ~Active(c)
              /\ stmt[s].op \in {"build", "publish"} => Scanned(stmt[s], heap)

SBody == SType /\ Locked /\ Opened /\ Statements /\ History /\ Indexed /\ Builds
SInv == Calm => SBody

-----------------------------------------------------------------------------
(* Operators.                                                              *)

\* Two lists of columns put end to end: what erase does with the parts before and after
\* the column it takes out.
LEMMA Joined ==
    ASSUME NEW C, NEW a \in Seq(C), NEW b \in Seq(C)
    PROVE  /\ a \o b \in Seq(C) /\ Len(a \o b) = Len(a) + Len(b)
           /\ \A j \in 1 .. Len(a) + Len(b) :
                 (a \o b)[j] = IF j <= Len(a) THEN a[j] ELSE b[j - Len(a)]
OBVIOUS

\* The order of the naturals is well-founded, as a set of pairs.
LEMMA LessWellFounded == IsWellFoundedOn({ss \in Nat \X Nat : ss[1] < ss[2]}, Nat)
BY NatLessThanWellFounded, Zenon DEF OpToRel

\* FirstOf, which models the loops over rids_ and the scan of a record file,
\* finds the least element of any non-empty set of numbers.
LEMMA FirstOfLeast ==
    ASSUME NEW S \in SUBSET Nat, S # {}
    PROVE  FirstOf(S) \in S /\ \A y \in S : FirstOf(S) <= y
<1> DEFINE R == {ss \in Nat \X Nat : ss[1] < ss[2]}
<1>1. PICK x \in S : \A y \in S : <<y, x>> \notin R
  <2>1. IsWellFoundedOn(R, Nat)
    BY LessWellFounded, Zenon
  <2> HIDE DEF R
  <2> QED BY <2>1, WFMin, Zenon
<1>2. \A y \in S : ~(y < x)
  BY <1>1, Zenon
<1>3. \A y \in S : x <= y
  BY <1>2
<1> QED BY <1>3, Zenon DEF FirstOf

\* A statement is determined by its kind.
LEMMA Kinds ==
    ASSUME NEW what \in Statement
    PROVE  /\ what.op = "insert" => what \in Inserting
           /\ what.op = "delete" => what \in Deleting
           /\ what.op = "update" => what \in Updating
           /\ what.op \in {"build", "publish"} => what \in Build
           /\ what.op = "unlist" => what \in Unlisting
           /\ what.op \in {"insert", "delete", "update"} => what.cols \in Seq(Col)
           /\ what.op \in {"delete", "update"} => what.rids \in SUBSET Rid
BY Zenon DEF Statement, Plain, Inserting, Deleting, Updating, Build, Unlisting

\* The columns of an index list.
LEMMA RangeIn ==
    ASSUME NEW cols \in Seq(Col)
    PROVE  Range(cols) \subseteq Col /\ DOMAIN cols = 1 .. Len(cols)
BY DEF Range

\* insert_entry of IxIndexHandle.
LEMMA InsertEntry ==
    ASSUME NEW entries \in Entries, NEW key \in Key, NEW rid \in Rid
    PROVE  /\ insert_entry(entries, key, rid) \in Entries
           /\ \A k \in Key : insert_entry(entries, key, rid)[k] =
                 IF k = key /\ entries[k] = Absent THEN rid ELSE entries[k]
BY Zenon DEF insert_entry, Entries

\* delete_entry of IxIndexHandle.
LEMMA DeleteEntry ==
    ASSUME NEW entries \in Entries, NEW key \in Key
    PROVE  /\ delete_entry(entries, key) \in Entries
           /\ \A k \in Key : delete_entry(entries, key)[k] =
                 IF k = key THEN Absent ELSE entries[k]
BY Zenon DEF delete_entry, Entries

\* A loop that meets no stop does every index.
LEMMA PassedAll == ASSUME NEW cols \in Seq(Col) PROVE Passed(cols, {}) = Range(cols)
BY Zenon DEF Passed, Range

\* Entering a record keeps an index exact, also where a leaked entry is in the
\* way.
LEMMA EnteredExact ==
    ASSUME NEW entries \in Entries, NEW col \in Col, NEW table \in Heap, NEW leaks,
           NEW rid \in Rid, NEW row \in Row, table[rid] = Absent,
           IndexExact(entries, col, table, leaks)
    PROVE  IndexExact(insert_entry(entries, row[col], rid), col,
                      [table EXCEPT ![rid] = row], leaks)
<1> DEFINE new == [table EXCEPT ![rid] = row]
           e2 == insert_entry(entries, row[col], rid)
<1>1. row[col] \in Key /\ row # Absent /\ \A k \in Key : entries[k] = Absent \/ entries[k] \in Rid
  BY ConstantsDistinct, Zenon DEF Row, Entries
<1>2. /\ \A k \in Key : e2[k] = IF k = row[col] /\ entries[k] = Absent THEN rid ELSE entries[k]
      /\ \A r \in Rid : new[r] = IF r = rid THEN row ELSE table[r]
  BY <1>1, InsertEntry, Zenon DEF Heap
<1>3. Absent \notin Rid
  BY ConstantsDistinct, Zenon DEF Rid
<1> HIDE DEF new, e2
<1>4. ASSUME NEW key \in Key, e2[key] = Absent, NEW r \in Rid, new[r] # Absent
      PROVE  new[r][col] # key
  <2>1. entries[key] = Absent /\ key # row[col]
    BY <1>1, <1>2, <1>3, <1>4, Zenon
  <2>2. \A q \in Rid : table[q] # Absent => table[q][col] # key
    BY <2>1, Zenon DEF IndexExact, EntryExact
  <2> QED BY <1>2, <1>4, <2>1, <2>2, Zenon
<1>5. ASSUME NEW key \in Key, e2[key] # Absent, <<col, key>> \notin leaks
      PROVE  new[e2[key]] # Absent /\ new[e2[key]][col] = key
  <2>1. CASE key = row[col] /\ entries[key] = Absent
    BY <1>1, <1>2, <2>1, Zenon
  <2>2. CASE ~(key = row[col] /\ entries[key] = Absent)
    <3>1. e2[key] = entries[key] /\ entries[key] \in Rid
      BY <1>1, <1>2, <1>5, <2>2, Zenon
    <3>2. table[entries[key]] # Absent /\ table[entries[key]][col] = key
      BY <1>5, <3>1, Zenon DEF IndexExact, EntryExact
    <3> QED BY <1>2, <3>1, <3>2, Zenon
  <2> QED BY <2>1, <2>2, Zenon
<1> QED BY <1>4, <1>5, Zenon DEF IndexExact, EntryExact, new, e2

\* Taking a record out keeps an index exact if no key occurs twice.
LEMMA RemovedExact ==
    ASSUME NEW entries \in Entries, NEW col \in Col, NEW table \in Heap, NEW leaks,
           NEW rid \in Rid, table[rid] # Absent,
           IndexExact(entries, col, table, leaks), UniqueOn(table, col)
    PROVE  IndexExact(delete_entry(entries, table[rid][col]), col,
                      [table EXCEPT ![rid] = Absent], leaks)
<1> DEFINE new == [table EXCEPT ![rid] = Absent]
           e2 == delete_entry(entries, table[rid][col])
<1>1. table[rid][col] \in Key /\ \A k \in Key : entries[k] = Absent \/ entries[k] \in Rid
  BY Zenon DEF Row, Entries, Heap, Content
<1>2. /\ \A k \in Key : e2[k] = IF k = table[rid][col] THEN Absent ELSE entries[k]
      /\ \A r \in Rid : new[r] = IF r = rid THEN Absent ELSE table[r]
  BY <1>1, DeleteEntry, Zenon DEF Heap
<1> HIDE DEF new, e2
<1>4. ASSUME NEW key \in Key, e2[key] = Absent, NEW r \in Rid, new[r] # Absent
      PROVE  new[r][col] # key
  <2>1. r # rid /\ new[r] = table[r]
    BY <1>2, <1>4, Zenon
  <2>2. CASE key = table[rid][col]
    BY <1>4, <2>1, <2>2, Zenon DEF UniqueOn
  <2>3. CASE key # table[rid][col]
    BY <1>2, <1>4, <2>1, <2>3, Zenon DEF IndexExact, EntryExact
  <2> QED BY <2>2, <2>3, Zenon
<1>5. ASSUME NEW key \in Key, e2[key] # Absent, <<col, key>> \notin leaks
      PROVE  new[e2[key]] # Absent /\ new[e2[key]][col] = key
  BY <1>1, <1>2, <1>5 DEF IndexExact, EntryExact
<1> QED BY <1>4, <1>5, Zenon DEF IndexExact, EntryExact, new, e2

\* Moving a record's entry keeps an index exact.
LEMMA RekeyedExact ==
    ASSUME NEW entries \in Entries, NEW col \in Col, NEW table \in Heap, NEW leaks,
           NEW rid \in Rid, NEW row \in Row, table[rid] # Absent, table[rid][col] # row[col],
           IndexExact(entries, col, table, leaks), UniqueOn(table, col)
    PROVE  IndexExact(insert_entry(delete_entry(entries, table[rid][col]), row[col], rid), col,
                      [table EXCEPT ![rid] = row], leaks)
<1> DEFINE mid == [table EXCEPT ![rid] = Absent]
           new == [table EXCEPT ![rid] = row]
           e1 == delete_entry(entries, table[rid][col])
<1>1. table[rid][col] \in Key /\ e1 \in Entries
  BY DeleteEntry DEF Row, Heap, Content
<1>2. mid \in Heap /\ mid[rid] = Absent
  BY Zenon DEF Heap, Content
<1>3. [mid EXCEPT ![rid] = row] = new
  BY Zenon DEF Heap
<1>4. IndexExact(e1, col, mid, leaks)
  BY RemovedExact, Zenon
<1> HIDE DEF mid, new, e1
<1>5. IndexExact(insert_entry(e1, row[col], rid), col, [mid EXCEPT ![rid] = row], leaks)
  BY <1>1, <1>2, <1>4, EnteredExact, Zenon
<1> QED BY <1>3, <1>5, Zenon DEF e1, new

\* A change of other columns does not concern an index.
LEMMA SameKeyExact ==
    ASSUME NEW entries \in Entries, NEW col \in Col, NEW table \in Heap, NEW leaks,
           NEW rid \in Rid, NEW row \in Row, table[rid] # Absent, table[rid][col] = row[col],
           IndexExact(entries, col, table, leaks)
    PROVE  IndexExact(entries, col, [table EXCEPT ![rid] = row], leaks)
<1> DEFINE new == [table EXCEPT ![rid] = row]
<1>1. row # Absent /\ \A r \in Rid : new[r] = IF r = rid THEN row ELSE table[r]
  BY ConstantsDistinct, Zenon DEF Heap, Row
<1>2. \A k \in Key : entries[k] = Absent \/ entries[k] \in Rid
  BY Zenon DEF Entries
<1> HIDE DEF new
<1>3. ASSUME NEW r \in Rid
      PROVE  /\ new[r] # Absent <=> table[r] # Absent
             /\ new[r] # Absent => new[r][col] = table[r][col]
  BY <1>1, Zenon
<1>4. ASSUME NEW key \in Key PROVE EntryExact(entries, col, key, new, leaks)
  <2>1. EntryExact(entries, col, key, table, leaks)
    BY Zenon DEF IndexExact
  <2> QED BY <1>2, <1>3, <2>1, Zenon DEF EntryExact
<1> QED BY <1>4, Zenon DEF IndexExact, new

\* Leaked entries that are gone need no exception.
LEMMA LeaksGone ==
    ASSUME NEW open, NEW col \in Col, open[col] # NotOpen, NEW table,
           IndexExact(open[col], col, table, leaked)
    PROVE  IndexExact(open[col], col, table, StillLeaked(open))
<1>1. \A key : <<col, key>> \in leaked /\ open[col][key] # Absent => <<col, key>> \in StillLeaked(open)
  BY Zenon DEF StillLeaked
<1> QED BY <1>1, Zenon DEF IndexExact, EntryExact

\* A transaction without writes is where it began.
LEMMA NoWrites ==
    ASSUME NEW from, NEW to, NEW cols, LeadsBack(<<>>, from, to, cols)
    PROVE  from = to
BY DEF LeadsBack, Trail

\* A transaction that has not written yet leads back to the table it found.
LEMMA NoWritesYet ==
    ASSUME NEW table \in Heap, NEW cols, \A col \in cols : UniqueOn(table, col)
    PROVE  LeadsBack(<<>>, table, table, cols)
<1>1. <<table>> \in Seq(Heap) /\ Len(<<table>>) = 1 /\ <<table>>[1] = table
  OBVIOUS
<1>2. Trail(<<>>, <<table>>, table, table)
  BY <1>1 DEF Trail
<1>3. UniqueAlong(<<table>>, cols)
  BY <1>1 DEF UniqueAlong
<1> QED BY <1>1, <1>2, <1>3, Zenon DEF LeadsBack

\* No key occurs twice in the table there is now.
LEMMA UniqueNow ==
    ASSUME NEW writes, Len(writes) \in Nat, NEW from, NEW to, NEW cols,
           LeadsBack(writes, from, to, cols)
    PROVE  \A col \in cols : UniqueOn(to, col)
BY DEF LeadsBack, Trail, UniqueAlong

\* Fewer columns, fewer claims: an index that is dropped takes its claim along.
LEMMA FewerColumns ==
    ASSUME NEW writes, NEW from, NEW to, NEW cols, NEW fewer \in SUBSET cols,
           LeadsBack(writes, from, to, cols)
    PROVE  LeadsBack(writes, from, to, fewer)
BY Zenon DEF LeadsBack, UniqueAlong

\* One more write record.
LEMMA OneMore ==
    ASSUME NEW writes \in Seq(WriteRecord), NEW from, NEW to, NEW cols,
           LeadsBack(writes, from, to, cols),
           NEW table \in Heap, NEW write \in WriteRecord, Undoes(write, to, table),
           \A col \in cols : UniqueOn(table, col)
    PROVE  LeadsBack(Append(writes, write), from, table, cols)
<1>1. PICK trail \in Seq(Heap) : Trail(writes, trail, from, to) /\ UniqueAlong(trail, cols)
  BY Zenon DEF LeadsBack
<1> DEFINE n == Len(writes)
           w2 == Append(writes, write)
           t2 == Append(trail, table)
<1>2. /\ n \in Nat /\ Len(trail) = n + 1
      /\ Len(w2) = n + 1 /\ \A i \in 1 .. n : w2[i] = writes[i]
      /\ w2[n + 1] = write
      /\ Len(t2) = n + 2 /\ t2 \in Seq(Heap) /\ \A i \in 1 .. n + 1 : t2[i] = trail[i]
      /\ t2[n + 2] = table
  BY <1>1 DEF Trail
<1>3. trail[1] = from /\ trail[n + 1] = to /\ \A i \in 1 .. n : Undoes(writes[i], trail[i], trail[i + 1])
  BY <1>1, Zenon DEF Trail
<1> HIDE DEF n, w2, t2
<1>4. \A i \in 1 .. n + 1 : Undoes(w2[i], t2[i], t2[i + 1])
  <2> TAKE i \in 1 .. n + 1
  <2>1. CASE i = n + 1
    <3>1. w2[i] = write /\ t2[i] = to /\ t2[i + 1] = table
      BY <1>2, <1>3, <2>1
    <3> QED BY <3>1, Zenon
  <2>2. CASE i # n + 1
    <3>1. i \in 1 .. n /\ w2[i] = writes[i] /\ t2[i] = trail[i] /\ t2[i + 1] = trail[i + 1]
      BY <1>2, <2>2
    <3> QED BY <1>3, <3>1, Zenon
  <2> QED BY <2>1, <2>2, Zenon
<1>5. Trail(w2, t2, from, table)
  BY <1>2, <1>3, <1>4 DEF Trail
<1>6. \A i \in 1 .. Len(t2) : \A col \in cols : UniqueOn(t2[i], col)
  <2> TAKE i \in 1 .. Len(t2)
  <2>1. CASE i = n + 2
    BY <1>2, <2>1, Zenon
  <2>2. CASE i # n + 2
    <3>1. i \in 1 .. Len(trail) /\ t2[i] = trail[i]
      BY <1>2, <2>2
    <3> QED BY <1>1, <3>1, Zenon DEF UniqueAlong
  <2> QED BY <2>1, <2>2, Zenon
<1> QED BY <1>2, <1>5, <1>6, Zenon DEF LeadsBack, UniqueAlong, w2

\* One write record undone.
LEMMA OneLess ==
    ASSUME NEW writes \in Seq(WriteRecord), writes # <<>>, NEW from, NEW to, NEW cols,
           LeadsBack(writes, from, to, cols)
    PROVE  /\ back(writes) \in WriteRecord /\ pop_back(writes) \in Seq(WriteRecord)
           /\ \E before \in Heap : /\ Undoes(back(writes), before, to)
                                   /\ LeadsBack(pop_back(writes), from, before, cols)
<1>1. PICK trail \in Seq(Heap) : Trail(writes, trail, from, to) /\ UniqueAlong(trail, cols)
  BY Zenon DEF LeadsBack
<1> DEFINE n == Len(writes) - 1
           w2 == pop_back(writes)
           t2 == pop_back(trail)
<1>2. /\ n \in Nat /\ Len(writes) = n + 1 /\ Len(trail) = n + 2
      /\ Len(w2) = n /\ w2 \in Seq(WriteRecord) /\ \A i \in 1 .. n : w2[i] = writes[i]
      /\ back(writes) = writes[n + 1] /\ back(writes) \in WriteRecord
  <2>1. Len(writes) \in Nat /\ Len(writes) # 0 /\ Len(trail) = Len(writes) + 1
    BY <1>1 DEF Trail
  <2>2. n \in Nat /\ n + 1 = Len(writes) /\ Len(trail) = n + 2
    BY <2>1
  <2>3. w2 = SubSeq(writes, 1, n) /\ back(writes) = writes[n + 1]
    BY <2>2, Zenon DEF pop_back, back
  <2> QED BY <2>2, <2>3
<1>3. /\ Len(t2) = n + 1 /\ t2 \in Seq(Heap) /\ \A i \in 1 .. n + 1 : t2[i] = trail[i]
      /\ trail[n + 1] \in Heap
  BY <1>2 DEF pop_back
<1>4. /\ trail[1] = from /\ trail[n + 2] = to
      /\ \A i \in 1 .. n + 1 : Undoes(writes[i], trail[i], trail[i + 1])
  BY <1>1, <1>2, Zenon DEF Trail
<1> HIDE DEF n, w2, t2
<1>5. Undoes(back(writes), trail[n + 1], to)
  <2>1. n + 1 \in 1 .. n + 1 /\ n + 1 + 1 = n + 2
    BY <1>2
  <2> QED BY <1>2, <1>4, <2>1, Zenon
<1>6. \A i \in 1 .. n : Undoes(w2[i], t2[i], t2[i + 1])
  <2> TAKE i \in 1 .. n
  <2>1. i \in 1 .. n + 1 /\ w2[i] = writes[i] /\ t2[i] = trail[i] /\ t2[i + 1] = trail[i + 1]
    BY <1>2, <1>3
  <2> QED BY <1>4, <2>1, Zenon
<1>7. Trail(w2, t2, from, trail[n + 1])
  BY <1>2, <1>3, <1>4, <1>6 DEF Trail
<1>8. UniqueAlong(t2, cols)
  BY <1>1, <1>2, <1>3 DEF UniqueAlong
<1> QED BY <1>2, <1>3, <1>5, <1>7, <1>8, Zenon DEF LeadsBack, w2

Open == [Col -> Entries \cup {NotOpen}]

\* Which indexes are open, and that each has entries, survives the loops over
\* the indexes of a table.
SameOpen(open, open2) ==
    open2 \in Open /\ \A col \in Col : open2[col] = NotOpen <=> open[col] = NotOpen

\* Indexes that a loop can visit.
AllOpen(open, cols) == open \in Open /\ cols \subseteq Col /\ \A col \in cols : open[col] # NotOpen

\* The loop of InsertExecutor::Next opens and closes no index.
LEMMA EnteredOpen ==
    ASSUME NEW open, NEW cols, AllOpen(open, cols),
           NEW row \in Row, NEW rid \in Rid
    PROVE  /\ SameOpen(open, Entered(open, cols, row, rid))
           /\ \A col \in Col : Entered(open, cols, row, rid)[col] =
                 IF col \in cols THEN insert_entry(open[col], row[col], rid) ELSE open[col]
<1>1. \A col \in Col : Entered(open, cols, row, rid)[col] =
         IF col \in cols THEN insert_entry(open[col], row[col], rid) ELSE open[col]
  BY Zenon DEF Entered
<1>2. \A col \in cols : open[col] \in Entries /\ row[col] \in Key
  BY Zenon DEF Open, Row, AllOpen
<1>3. \A col \in cols : insert_entry(open[col], row[col], rid) \in Entries
  BY <1>2, InsertEntry, Zenon
<1>4. NotOpen \notin Entries
  BY ConstantsDistinct, Zenon DEF Entries, Rid
<1>5. \A col \in Col : /\ Entered(open, cols, row, rid)[col] \in Entries \cup {NotOpen}
                       /\ Entered(open, cols, row, rid)[col] = NotOpen <=> open[col] = NotOpen
  BY <1>1, <1>2, <1>3, <1>4, Zenon DEF Open, AllOpen
<1>6. Entered(open, cols, row, rid) \in Open
  BY <1>5, Zenon DEF Entered, Open
<1> QED BY <1>1, <1>5, <1>6, Zenon DEF SameOpen

\* Nor does the loop of DeleteExecutor::Next,
LEMMA RemovedOpen ==
    ASSUME NEW open, NEW cols, AllOpen(open, cols),
           NEW row \in Row
    PROVE  /\ SameOpen(open, Removed(open, cols, row))
           /\ \A col \in Col : Removed(open, cols, row)[col] =
                 IF col \in cols THEN delete_entry(open[col], row[col]) ELSE open[col]
<1>1. \A col \in Col : Removed(open, cols, row)[col] =
         IF col \in cols THEN delete_entry(open[col], row[col]) ELSE open[col]
  BY Zenon DEF Removed
<1>2. \A col \in cols : open[col] \in Entries /\ row[col] \in Key
  BY Zenon DEF Open, Row, AllOpen
<1>3. \A col \in cols : delete_entry(open[col], row[col]) \in Entries
  BY <1>2, DeleteEntry, Zenon
<1>4. NotOpen \notin Entries
  BY ConstantsDistinct, Zenon DEF Entries, Rid
<1>5. \A col \in Col : /\ Removed(open, cols, row)[col] \in Entries \cup {NotOpen}
                       /\ Removed(open, cols, row)[col] = NotOpen <=> open[col] = NotOpen
  BY <1>1, <1>2, <1>3, <1>4, Zenon DEF Open, AllOpen
<1>6. Removed(open, cols, row) \in Open
  BY <1>5, Zenon DEF Removed, Open
<1> QED BY <1>1, <1>5, <1>6, Zenon DEF SameOpen

\* nor that of UpdateExecutor::Next.
LEMMA RekeyOpen ==
    ASSUME NEW open, NEW cols, AllOpen(open, cols),
           NEW old \in Row, NEW new \in Row, NEW rid \in Rid
    PROVE  /\ SameOpen(open, Rekey(open, cols, rid, old, new))
           /\ \A col \in Col : Rekey(open, cols, rid, old, new)[col] =
                 IF col \in cols /\ old[col] # new[col]
                 THEN insert_entry(delete_entry(open[col], old[col]), new[col], rid)
                 ELSE open[col]
<1>1. \A col \in Col : Rekey(open, cols, rid, old, new)[col] =
         IF col \in cols /\ old[col] # new[col]
         THEN insert_entry(delete_entry(open[col], old[col]), new[col], rid)
         ELSE open[col]
  BY Zenon DEF Rekey
<1>2. \A col \in cols : open[col] \in Entries /\ old[col] \in Key /\ new[col] \in Key
  BY Zenon DEF Open, Row, AllOpen
<1>3. \A col \in cols : delete_entry(open[col], old[col]) \in Entries
  BY <1>2, DeleteEntry, Zenon
<1>4. \A col \in cols : insert_entry(delete_entry(open[col], old[col]), new[col], rid) \in Entries
  BY <1>2, <1>3, InsertEntry, Zenon
<1>5. NotOpen \notin Entries
  BY ConstantsDistinct, Zenon DEF Entries, Rid
<1>6. \A col \in Col :
         /\ Rekey(open, cols, rid, old, new)[col] \in Entries \cup {NotOpen}
         /\ Rekey(open, cols, rid, old, new)[col] = NotOpen <=> open[col] = NotOpen
  BY <1>1, <1>2, <1>4, <1>5, Zenon DEF Open, AllOpen
<1>7. Rekey(open, cols, rid, old, new) \in Open
  BY <1>6, Zenon DEF Rekey, Open
<1> QED BY <1>1, <1>6, <1>7, Zenon DEF SameOpen

-----------------------------------------------------------------------------
(* Steps.                                                                  *)

\* DDL beside a writer is never forgotten, so that the claims only shrink.
LEMMA OverlapGrows == [Next]_vars => overlap \subseteq overlap'
<1> SUFFICES ASSUME [Next]_vars PROVE overlap \subseteq overlap'
  OBVIOUS
<1>1. CASE UNCHANGED vars
  BY <1>1, Zenon DEF vars
<1>2. ASSUME NEW s \in Writer,
             \/ ConstructInsert(s) \/ ConstructDelete(s) \/ ConstructUpdate(s)
             \/ InsertNext(s) \/ DeleteNext(s) \/ UpdateNext(s) \/ NextOnDropped(s)
             \/ commit(s) \/ abort(s) \/ Undo(s) \/ EndUndo(s)
      PROVE  overlap \subseteq overlap'
  <2>1. \A what : Construct(s, what) => overlap \subseteq overlap'
    BY Zenon DEF Construct
  <2>2. CASE ConstructInsert(s) \/ ConstructDelete(s) \/ ConstructUpdate(s)
    BY <2>1, <2>2, Zenon DEF ConstructInsert, ConstructDelete, ConstructUpdate
  <2>3. CASE InsertNext(s) \/ DeleteNext(s) \/ UpdateNext(s) \/ NextOnDropped(s)
    BY <2>3, Zenon DEF InsertNext, DeleteNext, UpdateNext, NextOnDropped, Met
  <2>4. CASE commit(s) \/ abort(s) \/ Undo(s) \/ EndUndo(s)
    BY <2>4, Zenon DEF commit, abort, Undo, EndUndo, Met
  <2> QED BY <1>2, <2>2, <2>3, <2>4, Zenon
<1>3. ASSUME NEW s \in Definer,
             \/ \E col \in Col : create_index(s, col) \/ drop_index(s, col)
             \/ BuildRecord(s) \/ BuildPublish(s) \/ BuildOpen(s) \/ Unlist(s)
             \/ drop_table(s) \/ DropBackIndex(s) \/ DropFile(s) \/ create_table(s)
      PROVE  overlap \subseteq overlap'
  BY <1>3, Zenon DEF create_index, drop_index, BuildRecord, BuildPublish, BuildOpen, Unlist,
     drop_table, DropBackIndex, DropFile, create_table, Beside
<1> QED BY <1>1, <1>2, <1>3, Zenon DEF Next

\* A step that leaves the index list alone claims nothing new.
LEMMA WatchedShrinks ==
    indexes' = indexes /\ overlap \subseteq overlap' =>
        /\ Watched' \subseteq Watched
        /\ overlap' = {} => overlap = {}
BY Zenon DEF Watched

\* A session between two statements has copied no metadata.
LEMMA IdleIs == Idle \in Statement /\ Idle.op = "idle" /\ Idle.op \notin InDdl
                /\ \A cols, watched, records : Current(Idle, cols, watched, records)
BY Zenon DEF Idle, Statement, Plain, Current, InDdl

\* A step of a session that is not between the halves of a DDL statement, and
\* does not come there, leaves the unopened indexes as they are.
LEMMA UnopenedSame ==
    ASSUME stmt \in [Session -> Statement], NEW s \in Session, NEW what,
           stmt' = [stmt EXCEPT ![s] = what],
           stmt[s].op \notin {"publish", "unlist"}, what.op \notin {"publish", "unlist"}
    PROVE  Unopened' = Unopened
<1>1. \A c \in Session : stmt'[c] = IF c = s THEN what ELSE stmt[c]
  BY Zenon
<1>2. \A c \in Session : stmt'[c].op \in {"publish", "unlist"} <=> stmt[c].op \in {"publish", "unlist"}
  BY <1>1, Zenon
<1>3. \A c \in Session : stmt[c].op \in {"publish", "unlist"} => stmt'[c].col = stmt[c].col
  BY <1>1, Zenon
<1> QED BY <1>2, <1>3, Zenon DEF Unopened

\* A DDL statement between its halves leaves one index unopened, and only such
\* a statement leaves any.
LEMMA UnopenedIs ==
    ASSUME Builds
    PROVE  /\ \A s \in Session : stmt[s].op \in {"publish", "unlist"} => Unopened = {stmt[s].col}
           /\ \A s \in Session : stmt[s].op \in {"build", "drop table"} => Unopened = {}
           /\ (\A s \in Session : stmt[s].op \notin InDdl) => Unopened = {}
<1>1. \A c \in Session : stmt[c].op \in {"publish", "unlist"} => stmt[c].op \in InDdl
  BY Zenon DEF InDdl
<1>2. ASSUME NEW s \in Session, stmt[s].op \in {"publish", "unlist"}
      PROVE  Unopened = {stmt[s].col}
  <2>1. \A c \in Session : stmt[c].op \in {"publish", "unlist"} => c = s
    BY <1>1, <1>2, Zenon DEF Builds
  <2> QED BY <1>2, <2>1, Zenon DEF Unopened
<1>3. ASSUME NEW s \in Session, stmt[s].op \in {"build", "drop table"}
      PROVE  Unopened = {}
  <2>1. stmt[s].op \in InDdl /\ stmt[s].op \notin {"publish", "unlist"}
    BY <1>3, Zenon DEF InDdl
  <2>2. \A c \in Session : stmt[c].op \notin {"publish", "unlist"}
    BY <1>1, <2>1, Zenon DEF Builds
  <2> QED BY <2>2, Zenon DEF Unopened
<1>4. ASSUME \A s \in Session : stmt[s].op \notin InDdl PROVE Unopened = {}
  BY <1>1, <1>4, Zenon DEF Unopened
<1> QED BY <1>2, <1>3, <1>4, Zenon

\* MayDefine lets a DDL statement begin only when none is under way.
LEMMA NoDdl ==
    ASSUME NEW s \in Session, MayDefine(s)
    PROVE  stmt[s] = Idle /\ \A c \in Session : stmt[c].op \notin InDdl
BY Zenon DEF MayDefine, Creating, Dropping, InDdl

\* Only the session with the lock is active.
LEMMA OneActive ==
    ASSUME SBody, NEW s \in Session, NEW c \in Session, Active(c), holder \in {None, s}
    PROVE  c = s
BY ConstantsDistinct, Zenon DEF SBody, Locked

\* The constructor of an executor.
LEMMA ConstructKeeps ==
    ASSUME SBody, NEW s \in Writer, NEW what \in Statement,
           what.op \in {"insert", "delete", "update"}, what.cols = indexes,
           what.op \in {"delete", "update"} => what.rids # {} /\ what.rids \subseteq Records,
           Construct(s, what), Calm'
    PROVE  SBody'
<1>1. s \in Session
  BY Zenon DEF Session
<1>2. /\ stmt' = [stmt EXCEPT ![s] = what] /\ stmt[s] = Idle /\ exists
      /\ holder' = s /\ holder \in {None, s}
      /\ overlap' = overlap \cup {"create" : c \in Creating} \cup {"drop" : c \in Dropping}
      /\ UNCHANGED <<exists, heap, indexes, ihs, write_set, committed, leaked>>
  BY Zenon DEF Construct, tableVars
<1>3. SType
  BY Zenon DEF SBody
<1>4. \A c \in Session : stmt'[c] = IF c = s THEN what ELSE stmt[c]
  BY <1>1, <1>2, <1>3, Zenon DEF SType
<1>5. Watched' \subseteq Watched /\ (overlap' = {} => overlap = {})
  BY <1>2, WatchedShrinks, Zenon
<1>6. SType'
  BY <1>1, <1>2, <1>3, Zenon DEF SType
<1>7. \A c \in Session : Active(c)' => c = s
  <2> TAKE c \in Session
  <2>1. ASSUME Active(c)', c # s PROVE FALSE
    <3>1. stmt'[c] = stmt[c] /\ write_set'[c] = write_set[c]
      BY <1>2, <1>4, <2>1, Zenon
    <3>2. Active(c)
      BY <2>1, <3>1, Zenon DEF Active, Executing
    <3> QED BY <1>1, <1>2, <2>1, <3>2, OneActive
  <2> QED BY <2>1, Zenon
<1>8. Locked'
  <2>1. \A c \in Session : stmt'[c].op \notin {"failed", "dangling"}
    BY <1>4, Zenon DEF SBody, Locked
  <2> QED BY <1>2, <1>7, <2>1, Zenon DEF Locked
<1>14. Unopened' = Unopened
  BY <1>1, <1>2, <1>3, IdleIs, UnopenedSame, Zenon DEF SType
<1>9. Opened'
  BY <1>2, <1>14, Zenon DEF SBody, Opened
<1>10. Statements'
  <2>1. Range(indexes') = Range(indexes) /\ Records' = Records
    BY <1>2, Zenon DEF Records
  <2>2. Current(what, Range(indexes'), Watched', Records')
    BY <1>2, <2>1, Zenon DEF Current, Watched
  <2>3. ASSUME NEW c \in Session
        PROVE  Current(stmt[c], Range(indexes'), Watched', Records')
    BY <1>5, <2>1, Zenon DEF SBody, Statements, Current
  <2> QED BY <1>4, <2>2, <2>3, Zenon DEF Statements
<1>11. History'
  <2>1. Writes' = Writes
    <3>1. CASE holder = s
      BY <1>2, <3>1, Zenon DEF Writes
    <3>2. CASE holder # s
      <4>1. holder = None /\ Writes = <<>>
        BY <1>2, <3>2, ConstantsDistinct, Zenon DEF Writes
      <4>2. write_set[s] = <<>>
        BY <1>1, <3>2, Zenon DEF SBody, Locked, Active
      <4> QED BY <1>2, <4>1, <4>2, Zenon DEF Writes
    <3> QED BY <3>1, <3>2, Zenon
  <2>2. LeadsBack(Writes, committed, heap, Watched)
    BY Zenon DEF SBody, History
  <2>3. LeadsBack(Writes, committed, heap, Watched')
    BY <1>5, <2>2, FewerColumns, Zenon
  <2> QED BY <1>2, <2>1, <2>3 DEF History, Heap, Rid
<1>12. Indexed'
  <2>1. Indexed
    BY Zenon DEF SBody
  <2> QED BY <1>2, <1>5, <1>14, <2>1, Zenon DEF Indexed
<1>13. Builds'
  <2>1. \A c \in Session : stmt'[c].op \in InDdl => c # s /\ stmt'[c] = stmt[c]
    BY <1>4, Zenon DEF InDdl
  <2>2. Dropping = {}
    <3>1. "drop" \notin overlap'
      BY Zenon DEF Calm
    <3> QED BY <1>2, <3>1, Zenon
  <2>3. ASSUME NEW c \in Session, stmt'[c].op \in InDdl
        PROVE  stmt[c].op \in {"build", "publish"} /\ overlap' # {}
    <3>1. stmt[c].op \in {"build", "publish"}
      BY <2>1, <2>2, <2>3, Zenon DEF InDdl, Dropping
    <3>2. c \in Creating
      BY <3>1, Zenon DEF Creating
    <3> QED BY <1>2, <3>1, <3>2, Zenon
  <2> QED BY <1>2, <2>1, <2>3, Zenon DEF SBody, Builds
<1> QED BY <1>6, <1>8, <1>9, <1>10, <1>11, <1>12, <1>13, Zenon DEF SBody

\* A step of the session with the lock: what remains to be shown is that its
\* write records still lead back, and that the indexes still agree.
LEMMA WriterStep ==
    ASSUME SBody, NEW s \in Writer, Active(s),
           UNCHANGED <<exists, indexes, holder, committed, overlap>>,
           NEW what \in Statement, stmt' = [stmt EXCEPT ![s] = what],
           what.op \notin {"failed", "dangling"}, what.op \notin InDdl, stmt[s].op \notin InDdl,
           Current(what, Range(indexes), Watched, Records'),
           heap' \in Heap,
           NEW writes \in Seq(WriteRecord), write_set' = [write_set EXCEPT ![s] = writes],
           LeadsBack(writes, committed, heap', Watched),
           SameOpen(ihs, ihs'), leaked' \subseteq Col \X Key, Indexed'
    PROVE  SBody'
<1>1. s \in Session /\ holder = s /\ exists /\ SType
  BY Zenon DEF Session, SBody, Locked
<1>2. \A c \in Session : /\ stmt'[c] = IF c = s THEN what ELSE stmt[c]
                         /\ write_set'[c] = IF c = s THEN writes ELSE write_set[c]
  BY <1>1, Zenon DEF SType
<1>3. Watched' = Watched
  BY Zenon DEF Watched
<1>4. \A c \in Session : Active(c) => c = s
  BY <1>1, OneActive, Zenon
<1>5. SType'
  <2>1. ihs' \in [Col -> Entries \cup {NotOpen}]
    BY Zenon DEF SameOpen, Open
  <2>2. stmt' \in [Session -> Statement] /\ write_set' \in [Session -> Seq(WriteRecord)]
    BY <1>1, Zenon DEF SType
  <2> QED BY <1>1, <2>1, <2>2, Zenon DEF SType
<1>6. Locked'
  <2>1. ASSUME NEW c \in Session PROVE Active(c)' => c = s
    BY <1>2, <1>4, Zenon DEF Active, Executing
  <2>2. ASSUME NEW c \in Session PROVE stmt'[c].op \notin {"failed", "dangling"}
    BY <1>2, Zenon DEF SBody, Locked
  <2> QED BY <1>1, <2>1, <2>2, Zenon DEF Locked
<1>11. Unopened' = Unopened
  BY <1>1, UnopenedSame, Zenon DEF SType, InDdl
<1>7. Opened'
  BY <1>11, Zenon DEF SBody, Opened, SameOpen
<1>8. Statements'
  <2>1. ASSUME NEW c \in Session, c # s
        PROVE  Current(stmt[c], Range(indexes), Watched, Records')
    <3>1. stmt[c].op \notin {"insert", "delete", "update"}
      BY <1>4, <2>1, Zenon DEF Active, Executing
    <3> QED BY <3>1, Zenon DEF Current
  <2> QED BY <1>2, <1>3, <2>1, Zenon DEF Statements
<1>9. History'
  <2>1. Writes' = writes
    BY <1>1, <1>2, Zenon DEF Writes
  <2> QED BY <1>3, <2>1, Zenon DEF History
<1>10. Builds'
  <2>1. \A c \in Session : stmt'[c].op \in InDdl => c # s /\ stmt'[c] = stmt[c]
    BY <1>2, Zenon
  <2>2. ASSUME NEW c \in Session, stmt'[c].op \in InDdl
        PROVE  overlap # {} /\ stmt[c].op \notin {"unlist", "drop table"}
    <3>1. stmt[c].op \in InDdl
      BY <2>1, <2>2, Zenon
    <3> QED BY <1>1, <3>1, Zenon DEF SBody, Builds
  <2> QED BY <2>1, <2>2, Zenon DEF SBody, Builds
<1> QED BY <1>5, <1>6, <1>7, <1>8, <1>9, <1>10, Zenon DEF SBody

\* Beside a writer that no DDL statement has met, every index has a handle.
LEMMA NoneUnopened ==
    ASSUME SBody, NEW s \in Session, Active(s), overlap = {}
    PROVE  Unopened = {}
<1>1. Builds
  BY Zenon DEF SBody
<1>2. \A c \in Session : stmt[c].op \notin InDdl
  BY <1>1, Zenon DEF Builds
<1> QED BY <1>1, <1>2, UnopenedIs, Zenon

\* What the session with the lock knows of the state.
LEMMA WriterKnows ==
    ASSUME SBody, NEW s \in Writer, Active(s)
    PROVE  /\ s \in Session /\ holder = s /\ exists
           /\ stmt[s] \in Statement
           /\ Current(stmt[s], Range(indexes), Watched, Records)
           /\ write_set[s] \in Seq(WriteRecord)
           /\ LeadsBack(write_set[s], committed, heap, Watched)
           /\ heap \in Heap /\ committed \in Heap /\ indexes \in Seq(Col)
           /\ Range(indexes) \subseteq Col /\ Watched \subseteq Range(indexes)
           /\ ihs \in Open /\ leaked \subseteq Col \X Key
           /\ \A col \in Col : ihs[col] # NotOpen => ihs[col] \in Entries
           /\ \A col \in Watched : /\ UniqueOn(heap, col) /\ IndexExact(ihs[col], col, heap, leaked)
                                   /\ ihs[col] # NotOpen
           /\ overlap = {} => \A e \in leaked : /\ e[1] \in Range(indexes) /\ ihs[e[1]] # NotOpen
                                                /\ ihs[e[1]][e[2]] # Absent
<1>1. s \in Session /\ holder = s /\ exists
  BY Zenon DEF Session, SBody, Locked
<1>2. SType /\ Statements /\ Opened /\ History /\ Indexed /\ Builds
  BY Zenon DEF SBody
<1>3. stmt[s] \in Statement /\ write_set[s] \in Seq(WriteRecord)
  BY <1>1, <1>2, Zenon DEF SType
<1>4. Current(stmt[s], Range(indexes), Watched, Records)
  BY <1>1, <1>2, Zenon DEF Statements
<1>5. LeadsBack(write_set[s], committed, heap, Watched)
  BY <1>1, <1>2, Zenon DEF History, Writes
<1>6. Range(indexes) \subseteq Col /\ Watched \subseteq Range(indexes)
  BY <1>2, RangeIn, Zenon DEF SType, Watched
<1>7. \A col \in Col : ihs[col] # NotOpen => ihs[col] \in Entries
  BY <1>2, Zenon DEF SType
<1>11. overlap = {} => Unopened = {}
  BY <1>1, NoneUnopened, Zenon
<1>12. overlap = {} => \A col \in Range(indexes) : ihs[col] # NotOpen
  BY <1>2, <1>6, <1>11, Zenon DEF Opened
<1>13. \A col \in Watched : overlap = {}
  BY Zenon DEF Watched
<1>8. \A col \in Watched : UniqueOn(heap, col)
  <2>1. Len(write_set[s]) \in Nat
    BY <1>3
  <2> QED BY <1>5, <2>1, UniqueNow, Zenon
<1>9. /\ \A col \in Watched : IndexExact(ihs[col], col, heap, leaked) /\ ihs[col] # NotOpen
      /\ overlap = {} => \A e \in leaked : /\ e[1] \in Range(indexes) /\ ihs[e[1]] # NotOpen
                                           /\ ihs[e[1]][e[2]] # Absent
  BY <1>2, <1>6, <1>11, <1>12, <1>13, Zenon DEF Indexed
<1>10. heap \in Heap /\ committed \in Heap /\ indexes \in Seq(Col) /\ ihs \in Open
       /\ leaked \subseteq Col \X Key
  BY <1>2, Zenon DEF SType, Open
<1> QED BY <1>1, <1>3, <1>4, <1>5, <1>6, <1>7, <1>8, <1>9, <1>10, Zenon

\* A write record with what it undoes.
LEMMA WriteUndoes ==
    ASSUME NEW table \in Heap, NEW rid \in Rid, NEW new \in Content,
           NEW wtype \in {"INSERT_TUPLE", "DELETE_TUPLE", "UPDATE_TUPLE"},
           table[rid] = Absent <=> wtype = "INSERT_TUPLE",
           new = Absent <=> wtype = "DELETE_TUPLE"
    PROVE  LET write == [wtype |-> wtype, rid |-> rid, old |-> table[rid]]
           IN  /\ write \in WriteRecord
               /\ [table EXCEPT ![rid] = new] \in Heap
               /\ Undoes(write, table, [table EXCEPT ![rid] = new])
<1> DEFINE write == [wtype |-> wtype, rid |-> rid, old |-> table[rid]]
           after == [table EXCEPT ![rid] = new]
<1>1. write \in WriteRecord
  BY Zenon DEF WriteRecord, Heap
<1>2. after \in Heap /\ after[rid] = new
  BY Zenon DEF Heap
<1>3. write.rid = rid /\ write.old = table[rid] /\ write.wtype = wtype
  OBVIOUS
<1>4. table = [after EXCEPT ![rid] = table[rid]]
  BY Zenon DEF Heap
<1> HIDE DEF after, write
<1>5. Undoes(write, table, after)
  BY <1>2, <1>3, <1>4, Zenon DEF Undoes
<1> QED BY <1>1, <1>2, <1>5, Zenon DEF after, write

\* Entries are only added when a record is entered.
LEMMA EnteredStays ==
    ASSUME NEW open, NEW cols, AllOpen(open, cols), NEW row \in Row, NEW rid \in Rid,
           NEW col \in Col, open[col] # NotOpen, NEW key \in Key
    PROVE  /\ open[col][key] # Absent =>
                 Entered(open, cols, row, rid)[col][key] = open[col][key]
           /\ key # row[col] => Entered(open, cols, row, rid)[col][key] = open[col][key]
           /\ col \in cols => Entered(open, cols, row, rid)[col][row[col]] # Absent
<1>1. open[col] \in Entries /\ row[col] \in Key /\ rid # Absent
  BY ConstantsDistinct, Zenon DEF Open, Row, Rid, AllOpen
<1>2. Entered(open, cols, row, rid)[col] =
         IF col \in cols THEN insert_entry(open[col], row[col], rid) ELSE open[col]
  BY EnteredOpen
<1>3. \A k \in Key : insert_entry(open[col], row[col], rid)[k] =
         IF k = row[col] /\ open[col][k] = Absent THEN rid ELSE open[col][k]
  BY <1>1, InsertEntry, Zenon
<1> QED BY <1>1, <1>2, <1>3, Zenon

\* While no loop has met an unopened index, the index at which a loop ends has
\* a handle.
LEMMA NotMissed ==
    ASSUME SBody, NEW cols \in Seq(Col), Range(cols) \subseteq Range(indexes),
           NEW stops \in SUBSET (DOMAIN cols), Met(Missed(cols, stops)), Calm'
    PROVE  /\ overlap' = overlap
           /\ stops # {} => FirstOf(stops) \in stops /\ ihs[cols[FirstOf(stops)]] # NotOpen
<1>1. "unopened" \notin overlap'
  BY Zenon DEF Calm
<1>2. Missed(cols, stops) \cap Unopened = {}
  BY <1>1, Zenon DEF Met
<1>3. overlap' = overlap
  BY <1>2, Zenon DEF Met
<1>4. ASSUME stops # {} PROVE FirstOf(stops) \in stops /\ ihs[cols[FirstOf(stops)]] # NotOpen
  <2> DEFINE m == FirstOf(stops)
  <2>1. stops \in SUBSET Nat
    OBVIOUS
  <2>2. m \in stops /\ \A j \in stops : m <= j
    BY <1>4, <2>1, FirstOfLeast, Zenon
  <2> HIDE DEF m
  <2>3. cols[m] \in Range(indexes) /\ cols[m] \in Col
    <3>1. m \in DOMAIN cols /\ Range(cols) \subseteq Col
      BY <2>2, RangeIn, Zenon
    <3> QED BY <3>1, Zenon DEF Range
  <2>4. ASSUME ihs[cols[m]] = NotOpen PROVE FALSE
    <3>1. cols[m] \in Missed(cols, stops)
      BY <2>2, <2>4, Zenon DEF Missed
    <3>2. cols[m] \in Unopened
      BY <2>3, <2>4, Zenon DEF SBody, Opened
    <3> QED BY <1>2, <3>1, <3>2, Zenon
  <2> QED BY <2>2, <2>4, Zenon DEF m
<1> QED BY <1>3, <1>4, Zenon

\* InsertExecutor::Next.
LEMMA InsertNextKeeps ==
    ASSUME SBody, NEW s \in Writer, InsertNext(s), Calm'
    PROVE  SBody'
<1> DEFINE what == stmt[s]
<1>1. what.op = "insert" /\ Records # Rid
      /\ stmt' = [stmt EXCEPT ![s] = Idle]
      /\ UNCHANGED <<exists, indexes, holder, committed>>
  BY Zenon DEF InsertNext
<1>2. PICK rid \in {FirstOf(Rid \ Records)} :
      \E stops \in {Refusals(what.cols, what.row)} :
      \E out \in {Outcome(what.cols, stops)} :
         /\ ihs' = Entered(ihs, Passed(what.cols, stops), what.row, rid)
         /\ heap' = IF out = "taken" THEN heap ELSE [heap EXCEPT ![rid] = what.row]
         /\ IF out = "ok" THEN Write(s, "INSERT_TUPLE", rid, Absent)
            ELSE UNCHANGED write_set
         /\ leaked' = IF out = "ok" THEN leaked
                      ELSE leaked \cup {<<col, what.row[col]>> :
                                        col \in {c \in Col : ihs'[c] # ihs[c]}}
         /\ Met(Missed(what.cols, stops))
  BY Zenon DEF InsertNext
<1> DEFINE stops == Refusals(what.cols, what.row)
           out == Outcome(what.cols, stops)
           passed == Passed(what.cols, stops)
<1>3. /\ ihs' = Entered(ihs, passed, what.row, rid)
      /\ heap' = IF out = "taken" THEN heap ELSE [heap EXCEPT ![rid] = what.row]
      /\ IF out = "ok" THEN Write(s, "INSERT_TUPLE", rid, Absent)
         ELSE UNCHANGED write_set
      /\ leaked' = IF out = "ok" THEN leaked
                   ELSE leaked \cup {<<col, what.row[col]>> :
                                     col \in {c \in Col : ihs'[c] # ihs[c]}}
      /\ Met(Missed(what.cols, stops))
  BY <1>2, Zenon
<1>4. Active(s)
  BY <1>1, Zenon DEF Active, Executing
<1>5. /\ s \in Session /\ stmt[s] \in Statement
      /\ Current(stmt[s], Range(indexes), Watched, Records)
      /\ write_set[s] \in Seq(WriteRecord)
      /\ LeadsBack(write_set[s], committed, heap, Watched)
      /\ heap \in Heap /\ Range(indexes) \subseteq Col /\ Watched \subseteq Range(indexes)
      /\ ihs \in Open /\ leaked \subseteq Col \X Key
      /\ \A col \in Col : ihs[col] # NotOpen => ihs[col] \in Entries
      /\ \A col \in Watched : /\ UniqueOn(heap, col) /\ IndexExact(ihs[col], col, heap, leaked)
                              /\ ihs[col] # NotOpen
      /\ overlap = {} => \A e \in leaked : /\ e[1] \in Range(indexes) /\ ihs[e[1]] # NotOpen
                                           /\ ihs[e[1]][e[2]] # Absent
  BY <1>4, WriterKnows, Zenon
<1>6. what \in Inserting /\ what.cols \in Seq(Col) /\ what.row \in Row
  BY <1>1, <1>5, Kinds, Zenon DEF Inserting
<1>7. Range(what.cols) \subseteq Range(indexes) /\ Watched \subseteq Range(what.cols)
  BY <1>1, <1>5, Zenon DEF Current
<1>8. rid \in Rid /\ heap[rid] = Absent
  <2>1. Rid \ Records \in SUBSET Nat /\ Rid \ Records # {}
    BY <1>1, BoundsAssumption DEF Rid, Records
  <2>2. rid \in Rid \ Records
    BY <1>2, <2>1, FirstOfLeast, Zenon
  <2> QED BY <2>2, Zenon DEF Records
<1> HIDE DEF what
<1>10. stops \in SUBSET (DOMAIN what.cols) /\ DOMAIN what.cols \subseteq Nat
  BY <1>6 DEF Refusals
<1>9. /\ overlap' = overlap
      /\ stops # {} => FirstOf(stops) \in stops /\ ihs[what.cols[FirstOf(stops)]] # NotOpen
  <2> HIDE DEF stops
  <2> QED BY <1>3, <1>6, <1>7, <1>10, NotMissed, Zenon
<1>15. \A col \in passed : ihs[col] # NotOpen
  <2> SUFFICES ASSUME NEW i \in DOMAIN what.cols, \A j \in stops : i < j
               PROVE  ihs[what.cols[i]] # NotOpen
    BY Zenon DEF Passed
  <2>1. i \notin stops
    <3> HIDE DEF stops
    <3> QED BY <1>10
  <2> QED BY <2>1, Zenon DEF Refusals
<1>11. passed \subseteq Range(what.cols) /\ passed \subseteq Range(indexes) /\ passed \in SUBSET Col
  <2>1. passed \subseteq Range(what.cols)
    BY Zenon DEF Passed, Range
  <2> QED BY <1>5, <1>7, <2>1, Zenon
<1>12. /\ SameOpen(ihs, ihs')
       /\ \A col \in Col : ihs'[col] =
             IF col \in passed THEN insert_entry(ihs[col], what.row[col], rid) ELSE ihs[col]
       /\ \A col \in Col, key \in Key : ihs[col] # NotOpen =>
             /\ ihs[col][key] # Absent => ihs'[col][key] = ihs[col][key]
             /\ key # what.row[col] => ihs'[col][key] = ihs[col][key]
             /\ col \in passed => ihs'[col][what.row[col]] # Absent
  <2> HIDE DEF passed
  <2>1. AllOpen(ihs, passed)
    BY <1>5, <1>11, <1>15, Zenon DEF AllOpen
  <2>2. SameOpen(ihs, Entered(ihs, passed, what.row, rid))
    BY <1>6, <1>8, <2>1, EnteredOpen
  <2>3. \A col \in Col, key \in Key : ihs[col] # NotOpen =>
           /\ ihs[col][key] # Absent =>
                 Entered(ihs, passed, what.row, rid)[col][key] = ihs[col][key]
           /\ key # what.row[col] =>
                 Entered(ihs, passed, what.row, rid)[col][key] = ihs[col][key]
           /\ col \in passed => Entered(ihs, passed, what.row, rid)[col][what.row[col]] # Absent
    BY <1>6, <1>8, <2>1, EnteredStays
  <2>4. \A col \in Col : Entered(ihs, passed, what.row, rid)[col] =
           IF col \in passed THEN insert_entry(ihs[col], what.row[col], rid) ELSE ihs[col]
    BY Zenon DEF Entered
  <2> QED BY <1>3, <2>2, <2>3, <2>4, Zenon
<1>17. stmt[s].op \notin InDdl /\ Idle.op \notin {"failed", "dangling"}
  BY <1>1, IdleIs, Zenon DEF InDdl, what
<1>16. Unopened' = Unopened /\ (overlap = {} => Unopened = {})
  <2>1. Unopened' = Unopened
    BY <1>1, <1>5, <1>17, IdleIs, UnopenedSame, Zenon DEF SBody, SType, InDdl
  <2>2. overlap = {} => Unopened = {}
    BY <1>4, <1>5, NoneUnopened, Zenon
  <2> QED BY <2>1, <2>2, Zenon
<1>13. CASE stops = {}
  <2>1. out = "ok" /\ passed = Range(what.cols)
    BY <1>6, <1>13, PassedAll DEF Outcome
  <2>2. \A col \in Watched : ihs[col][what.row[col]] = Absent
    <3> TAKE col \in Watched
    <3>1. PICK i \in DOMAIN what.cols : what.cols[i] = col
      BY <1>7, Zenon DEF Range
    <3> QED BY <1>13, <3>1, Zenon DEF Refusals
  <2> HIDE DEF stops, out, passed
  <2>3. heap' = [heap EXCEPT ![rid] = what.row] /\ leaked' = leaked
        /\ Write(s, "INSERT_TUPLE", rid, Absent)
    BY <1>3, <2>1, Zenon
  <2> DEFINE write == [wtype |-> "INSERT_TUPLE", rid |-> rid, old |-> Absent]
  <2>4. write_set' = [write_set EXCEPT ![s] = Append(write_set[s], write)]
    BY <2>3, Zenon DEF Write
  <2>5. what.row \in Content /\ what.row # Absent
    BY <1>6, ConstantsDistinct, Zenon DEF Content, Row
  <2>6. write \in WriteRecord /\ heap' \in Heap /\ Undoes(write, heap, heap')
    BY <1>5, <1>8, <2>3, <2>5, WriteUndoes, Zenon
  <2> HIDE DEF write
  <2>7. ASSUME NEW col \in Watched PROVE UniqueOn(heap', col)
    <3>1. \A r \in Rid : heap[r] # Absent => heap[r][col] # what.row[col]
      <4>1. what.row[col] \in Key
        BY <1>5, <1>6, Zenon DEF Row
      <4> QED BY <1>5, <2>2, <4>1, Zenon DEF IndexExact, EntryExact
    <3>2. \A r \in Rid : heap'[r] = IF r = rid THEN what.row ELSE heap[r]
      BY <1>5, <2>3, Zenon DEF Heap
    <3>3. \A r1, r2 \in Rid : heap[r1] # Absent /\ heap[r2] # Absent /\ r1 # r2 =>
             heap[r1][col] # heap[r2][col]
      BY <1>5, Zenon DEF UniqueOn
    <3> QED BY <3>1, <3>2, <3>3, Zenon DEF UniqueOn
  <2>8. LeadsBack(Append(write_set[s], write), committed, heap', Watched)
    BY <1>5, <2>6, <2>7, OneMore, Zenon
  <2>9. ASSUME NEW col \in Watched PROVE IndexExact(ihs'[col], col, heap', leaked')
    <3>1. col \in Col /\ col \in passed /\ ihs[col] \in Entries
          /\ IndexExact(ihs[col], col, heap, leaked)
      BY <1>5, <1>7, <2>1, Zenon
    <3>2. ihs'[col] = insert_entry(ihs[col], what.row[col], rid)
      BY <1>12, <3>1, Zenon
    <3>3. IndexExact(insert_entry(ihs[col], what.row[col], rid), col,
                     [heap EXCEPT ![rid] = what.row], leaked)
      BY <1>5, <1>6, <1>8, <3>1, EnteredExact, Zenon
    <3> QED BY <2>3, <3>2, <3>3
  <2>10. ASSUME overlap = {}, NEW e \in leaked
         PROVE  e[1] \in Range(indexes) /\ ihs'[e[1]][e[2]] # Absent
    <3>1. e[1] \in Range(indexes) /\ e[1] \in Col /\ e[2] \in Key
          /\ ihs[e[1]][e[2]] # Absent /\ ihs[e[1]] # NotOpen
      BY <1>5, <2>10
    <3> QED BY <1>12, <3>1, Zenon
  <2>11. Indexed'
    <3>1. Watched' = Watched /\ Range(indexes') = Range(indexes)
      BY <1>1, <1>9, Zenon DEF Watched
    <3> QED BY <1>1, <1>9, <1>16, <2>3, <2>9, <2>10, <3>1, Zenon DEF Indexed
  <2>12. Append(write_set[s], write) \in Seq(WriteRecord)
    BY <1>5, <2>6
  <2> QED BY <1>1, <1>4, <1>5, <1>9, <1>12, <1>17, <2>3, <2>4, <2>6, <2>8, <2>11, <2>12, IdleIs, WriterStep, Zenon
<1>14. CASE stops # {}
  <2>1. out = "taken"
    <3> HIDE DEF stops
    <3> QED BY <1>9, <1>14, Zenon DEF Outcome
  <2> HIDE DEF stops, out, passed
  <2>2. heap' = heap /\ write_set' = write_set
        /\ leaked' = leaked \cup {<<col, what.row[col]>> : col \in {c \in Col : ihs'[c] # ihs[c]}}
    BY <1>3, <2>1, Zenon
  <2>3. ASSUME NEW col \in Col, ihs'[col] # ihs[col]
        PROVE  col \in passed /\ <<col, what.row[col]>> \in leaked'
    <3>1. col \in passed
      BY <1>12, <2>3, Zenon
    <3> QED BY <2>2, <2>3, <3>1
  <2>4. leaked' \subseteq Col \X Key
    BY <1>5, <1>6, <2>2 DEF Row
  <2>5. ASSUME NEW col \in Watched PROVE IndexExact(ihs'[col], col, heap', leaked')
    <3>1. col \in Col /\ ihs[col] \in Entries /\ IndexExact(ihs[col], col, heap, leaked)
          /\ ihs[col] # NotOpen
      BY <1>5, Zenon
    <3>2. leaked \subseteq leaked'
      BY <2>2, Zenon
    <3>3. ASSUME NEW key \in Key PROVE EntryExact(ihs'[col], col, key, heap, leaked')
      <4>1. EntryExact(ihs[col], col, key, heap, leaked)
        BY <3>1, Zenon DEF IndexExact
      <4>2. CASE ihs'[col][key] = ihs[col][key]
        BY <3>2, <4>1, <4>2, Zenon DEF EntryExact
      <4>3. CASE ihs'[col][key] # ihs[col][key]
        <5>1. ihs'[col] # ihs[col] /\ col \in passed /\ <<col, what.row[col]>> \in leaked'
          BY <2>3, <3>1, <4>3, Zenon
        <5>2. key = what.row[col] /\ ihs'[col][key] # Absent
          BY <1>12, <3>1, <4>3, <5>1, Zenon
        <5> QED BY <5>1, <5>2, Zenon DEF EntryExact
      <4> QED BY <4>2, <4>3
    <3> QED BY <2>2, <3>3, Zenon DEF IndexExact
  <2>6. ASSUME overlap = {}, NEW e \in leaked'
        PROVE  e[1] \in Range(indexes) /\ ihs'[e[1]][e[2]] # Absent
    <3>1. CASE e \in leaked
      <4>1. e[1] \in Range(indexes) /\ e[1] \in Col /\ e[2] \in Key
            /\ ihs[e[1]][e[2]] # Absent /\ ihs[e[1]] # NotOpen
        BY <1>5, <2>6, <3>1
      <4> QED BY <1>12, <4>1, Zenon
    <3>2. CASE e \notin leaked
      <4>1. PICK col \in Col : ihs'[col] # ihs[col] /\ e = <<col, what.row[col]>>
        BY <2>2, <2>6, <3>2
      <4>2. col \in passed /\ col \in Range(indexes) /\ what.row[col] \in Key /\ ihs[col] # NotOpen
        BY <1>5, <1>6, <1>11, <1>15, <2>3, <4>1 DEF Row
      <4>3. ihs'[col][what.row[col]] # Absent
        BY <1>12, <4>1, <4>2, Zenon
      <4> QED BY <4>1, <4>2, <4>3
    <3> QED BY <3>1, <3>2, Zenon
  <2>7. Indexed'
    <3>1. Watched' = Watched /\ Range(indexes') = Range(indexes)
      BY <1>1, <1>9, Zenon DEF Watched
    <3> QED BY <1>1, <1>9, <1>16, <2>5, <2>6, <3>1, Zenon DEF Indexed
  <2>8. write_set' = [write_set EXCEPT ![s] = write_set[s]]
    <3>1. write_set \in [Session -> Seq(WriteRecord)]
      BY Zenon DEF SBody, SType
    <3> QED BY <2>2, <3>1
  <2>9. heap' \in Heap /\ LeadsBack(write_set[s], committed, heap', Watched)
    BY <1>5, <2>2, Zenon
  <2> QED BY <1>1, <1>4, <1>5, <1>9, <1>12, <1>17, <2>4, <2>7, <2>8, <2>9, IdleIs, WriterStep, Zenon
<1> QED BY <1>13, <1>14, Zenon

\* A step that drops the leaked entries that are gone.
LEMMA StillIndexed ==
    ASSUME SBody, NEW s \in Writer, Active(s), UNCHANGED <<indexes, overlap>>,
           Unopened' = Unopened, SameOpen(ihs, ihs'), leaked' = StillLeaked(ihs'),
           \A col \in Watched : IndexExact(ihs'[col], col, heap', leaked)
    PROVE  Indexed' /\ leaked' \subseteq Col \X Key
<1>1. /\ leaked \subseteq Col \X Key /\ Range(indexes) \subseteq Col
      /\ Watched \subseteq Range(indexes)
      /\ \A col \in Watched : ihs[col] # NotOpen
      /\ overlap = {} => \A e \in leaked : e[1] \in Range(indexes)
      /\ s \in Session
  BY WriterKnows, Zenon
<1>5. overlap = {} => Unopened = {}
  BY <1>1, NoneUnopened, Zenon
<1>2. Watched' = Watched /\ Range(indexes') = Range(indexes)
  BY Zenon DEF Watched
<1>3. leaked' \subseteq leaked /\ \A e \in leaked' : ihs'[e[1]][e[2]] # Absent
  BY Zenon DEF StillLeaked
<1>4. ASSUME NEW col \in Watched PROVE IndexExact(ihs'[col], col, heap', leaked')
  <2>1. col \in Col /\ ihs'[col] # NotOpen
    BY <1>1, Zenon DEF SameOpen
  <2> QED BY <2>1, LeaksGone, Zenon
<1> QED BY <1>1, <1>2, <1>3, <1>4, <1>5, Zenon DEF Indexed

\* A statement after one turn of its loop.
LEMMA TurnedIs ==
    ASSUME NEW s, stmt[s] \in Deleting \cup Updating, NEW cols, NEW watched, NEW records,
           NEW rid, Current(stmt[s], cols, watched, records),
           NEW records2, records \ {rid} \subseteq records2, stmt[s].rids # {}
    PROVE  /\ Turned(s, rid) \in Statement
           /\ Turned(s, rid).op \notin {"failed", "dangling"} /\ Turned(s, rid).op \notin InDdl
           /\ Current(Turned(s, rid), cols, watched, records2)
<1>1. CASE stmt[s].rids = {rid}
  <2>1. Turned(s, rid) = Idle
    BY <1>1, Zenon DEF Turned
  <2> QED BY <2>1, IdleIs, Zenon
<1>2. CASE stmt[s].rids # {rid}
  <2> DEFINE what == stmt[s]
             next == [stmt[s] EXCEPT !.rids = @ \ {rid}]
  <2>1. Turned(s, rid) = next
    BY <1>2, Zenon DEF Turned
  <2>2. next \in Statement /\ next.op = what.op /\ next.cols = what.cols
        /\ next.rids = what.rids \ {rid} /\ next.op \in {"delete", "update"}
    <3>1. CASE what \in Deleting
      BY <3>1, Zenon DEF Deleting, Statement
    <3>2. CASE what \in Updating
      BY <3>2, Zenon DEF Updating, Statement
    <3> QED BY <3>1, <3>2
  <2> HIDE DEF next
  <2>3. next.rids # {} /\ what.rids \subseteq records
    BY <1>2, <2>2, Zenon DEF Current
  <2>4. next.rids \subseteq records2
    BY <2>2, <2>3, Zenon
  <2>5. Current(next, cols, watched, records2)
    BY <2>2, <2>3, <2>4, Zenon DEF Current
  <2> QED BY <2>1, <2>2, <2>5 DEF InDdl
<1> QED BY <1>1, <1>2, Zenon

\* A turn of DeleteExecutor::Next.
LEMMA DeleteNextKeeps ==
    ASSUME SBody, NEW s \in Writer, DeleteNext(s), Calm'
    PROVE  SBody'
<1> DEFINE what == stmt[s]
           stops == {i \in DOMAIN what.cols : ihs[what.cols[i]] = NotOpen}
           rid == FirstOf(what.rids)
<1>1. /\ what.op = "delete" /\ leaked' = StillLeaked(ihs')
      /\ UNCHANGED <<exists, indexes, holder, committed>>
      /\ Write(s, "DELETE_TUPLE", rid, heap[rid])
      /\ ihs' = Removed(ihs, Passed(what.cols, stops), heap[rid])
      /\ heap' = IF stops = {} THEN [heap EXCEPT ![rid] = Absent] ELSE heap
      /\ stmt' = [stmt EXCEPT ![s] = IF stops = {} THEN Turned(s, rid) ELSE Idle]
      /\ Met(Missed(what.cols, stops))
  BY Zenon DEF DeleteNext
<1>2. Active(s)
  BY <1>1, Zenon DEF Active, Executing
<1>3. /\ s \in Session /\ stmt[s] \in Statement
      /\ Current(stmt[s], Range(indexes), Watched, Records)
      /\ write_set[s] \in Seq(WriteRecord)
      /\ LeadsBack(write_set[s], committed, heap, Watched)
      /\ heap \in Heap /\ Range(indexes) \subseteq Col /\ Watched \subseteq Range(indexes)
      /\ ihs \in Open
      /\ \A col \in Col : ihs[col] # NotOpen => ihs[col] \in Entries
      /\ \A col \in Watched : /\ UniqueOn(heap, col) /\ IndexExact(ihs[col], col, heap, leaked)
                              /\ ihs[col] # NotOpen
  BY <1>2, WriterKnows, Zenon
<1>4. what \in Deleting /\ what.cols \in Seq(Col) /\ what.rids \in SUBSET Rid
  BY <1>1, <1>3, Kinds, Zenon
<1>5. /\ Range(what.cols) \subseteq Range(indexes) /\ Watched \subseteq Range(what.cols)
      /\ what.rids # {} /\ what.rids \subseteq Records
  BY <1>1, <1>3, Zenon DEF Current
<1>6. /\ stops = {} /\ overlap' = overlap
      /\ \A col \in Range(what.cols) : ihs[col] # NotOpen
  <2>1. stops \in SUBSET (DOMAIN what.cols) /\ \A i \in stops : ihs[what.cols[i]] = NotOpen
    BY Zenon
  <2>2. /\ overlap' = overlap
        /\ stops # {} => FirstOf(stops) \in stops /\ ihs[what.cols[FirstOf(stops)]] # NotOpen
    <3> HIDE DEF stops
    <3> QED BY <1>1, <1>4, <1>5, <2>1, NotMissed, Zenon
  <2>3. stops = {}
    BY <2>1, <2>2, Zenon
  <2> QED BY <2>2, <2>3, Zenon DEF Range
<1>7. rid \in what.rids /\ rid \in Rid /\ heap[rid] # Absent /\ heap[rid] \in Row
  <2>1. what.rids \in SUBSET Nat
    BY <1>4, BoundsAssumption DEF Rid
  <2>2. rid \in what.rids
    BY <1>5, <2>1, FirstOfLeast, Zenon
  <2> QED BY <1>3, <1>5, <2>2, Zenon DEF Records, Heap, Content
<1> DEFINE cols == Range(what.cols)
<1>8. /\ ihs' = Removed(ihs, cols, heap[rid]) /\ heap' = [heap EXCEPT ![rid] = Absent]
      /\ stmt' = [stmt EXCEPT ![s] = Turned(s, rid)]
  BY <1>1, <1>4, <1>6, PassedAll, Zenon
<1> DEFINE write == [wtype |-> "DELETE_TUPLE", rid |-> rid, old |-> heap[rid]]
<1>9. write_set' = [write_set EXCEPT ![s] = Append(write_set[s], write)]
  BY <1>1, Zenon DEF Write
<1> HIDE DEF rid, stops, what
<1>10. write \in WriteRecord /\ heap' \in Heap /\ Undoes(write, heap, heap')
  <2>1. Absent \in Content
    BY Zenon DEF Content
  <2> QED BY <1>3, <1>7, <1>8, <2>1, WriteUndoes, Zenon
<1> HIDE DEF cols, write
<1>11. SameOpen(ihs, ihs') /\ \A col \in cols : ihs'[col] = delete_entry(ihs[col], heap[rid][col])
  <2>1. AllOpen(ihs, cols)
    BY <1>3, <1>5, <1>6, Zenon DEF AllOpen, cols
  <2>2. SameOpen(ihs, Removed(ihs, cols, heap[rid]))
    BY <1>7, <2>1, RemovedOpen
  <2>3. \A col \in cols : col \in Col
    BY <1>3, <1>5, Zenon DEF cols
  <2>4. \A col \in cols : Removed(ihs, cols, heap[rid])[col] = delete_entry(ihs[col], heap[rid][col])
    BY <2>3, Zenon DEF Removed
  <2> QED BY <1>8, <2>2, <2>4, Zenon
<1>12. ASSUME NEW col \in Watched PROVE UniqueOn(heap', col)
  <2>1. \A r \in Rid : heap'[r] = IF r = rid THEN Absent ELSE heap[r]
    BY <1>3, <1>8, Zenon DEF Heap
  <2>2. UniqueOn(heap, col)
    BY <1>3, Zenon
  <2> QED BY <2>1, <2>2, Zenon DEF UniqueOn
<1>13. LeadsBack(Append(write_set[s], write), committed, heap', Watched)
  BY <1>3, <1>10, <1>12, OneMore, Zenon
<1>14. ASSUME NEW col \in Watched PROVE IndexExact(ihs'[col], col, heap', leaked)
  <2>1. col \in Col /\ col \in cols /\ ihs[col] \in Entries
        /\ IndexExact(ihs[col], col, heap, leaked) /\ UniqueOn(heap, col)
    BY <1>3, <1>5, Zenon DEF cols
  <2>2. IndexExact(delete_entry(ihs[col], heap[rid][col]), col, [heap EXCEPT ![rid] = Absent], leaked)
    BY <1>3, <1>7, <2>1, RemovedExact, Zenon
  <2> QED BY <1>8, <1>11, <2>1, <2>2
<1>17. /\ Turned(s, rid) \in Statement
       /\ Turned(s, rid).op \notin {"failed", "dangling"} /\ Turned(s, rid).op \notin InDdl
       /\ Current(Turned(s, rid), Range(indexes), Watched, Records')
  <2>1. Records \ {rid} \subseteq Records'
    BY <1>3, <1>8, Zenon DEF Records, Heap
  <2>2. stmt[s] \in Deleting \cup Updating /\ stmt[s].rids # {}
    BY <1>4, <1>5, Zenon DEF what
  <2> QED BY <1>3, <2>1, <2>2, TurnedIs, Zenon
<1>18. stmt[s].op \notin InDdl /\ Unopened' = Unopened
  <2>1. stmt[s].op \notin InDdl
    BY <1>1, Zenon DEF InDdl, what
  <2> QED BY <1>3, <1>8, <1>17, <2>1, UnopenedSame, Zenon DEF SBody, SType, InDdl
<1>15. Indexed' /\ leaked' \subseteq Col \X Key
  BY <1>1, <1>2, <1>6, <1>11, <1>14, <1>18, StillIndexed, Zenon
<1>16. Append(write_set[s], write) \in Seq(WriteRecord)
  BY <1>3, <1>10
<1> QED BY <1>1, <1>2, <1>6, <1>8, <1>9, <1>10, <1>11, <1>13, <1>15, <1>16, <1>17, <1>18, WriterStep, Zenon

\* The lists of tables and indexes after a record has been given new contents.
LEMMA RekeyIndexed ==
    ASSUME NEW cols, AllOpen(ihs, cols), heap \in Heap, NEW rid \in Rid, NEW new \in Row,
           heap[rid] # Absent, NEW col \in cols,
           IndexExact(ihs[col], col, heap, leaked), UniqueOn(heap, col)
    PROVE  IndexExact(Rekey(ihs, cols, rid, heap[rid], new)[col], col,
                      [heap EXCEPT ![rid] = new], leaked)
<1>1. col \in Col /\ ihs[col] \in Entries
  BY Zenon DEF AllOpen, Open
<1>2. CASE heap[rid][col] = new[col]
  <2>1. Rekey(ihs, cols, rid, heap[rid], new)[col] = ihs[col]
    BY <1>1, <1>2, Zenon DEF Rekey
  <2> QED BY <1>1, <1>2, <2>1, SameKeyExact
<1>3. CASE heap[rid][col] # new[col]
  <2>1. Rekey(ihs, cols, rid, heap[rid], new)[col] =
           insert_entry(delete_entry(ihs[col], heap[rid][col]), new[col], rid)
    BY <1>1, <1>3, Zenon DEF Rekey
  <2> QED BY <1>1, <1>3, <2>1, RekeyedExact
<1> QED BY <1>2, <1>3, Zenon

\* A turn of UpdateExecutor::Next.
LEMMA UpdateNextKeeps ==
    ASSUME SBody, NEW s \in Writer, UpdateNext(s)
    PROVE  SBody'
<1> DEFINE what == stmt[s]
           rid == FirstOf(what.rids)
           new == [heap[rid] EXCEPT ![what.col] = what.key]
<1>1. /\ what.op = "update" /\ leaked' = StillLeaked(ihs')
      /\ UNCHANGED <<exists, indexes, holder, committed, overlap>>
      /\ IF Accepts(what.cols, heap[rid], new)
         THEN /\ Write(s, "UPDATE_TUPLE", rid, heap[rid])
              /\ ihs' = Rekey(ihs, Range(what.cols), rid, heap[rid], new)
              /\ heap' = [heap EXCEPT ![rid] = new]
              /\ stmt' = [stmt EXCEPT ![s] = Turned(s, rid)]
         ELSE /\ stmt' = [stmt EXCEPT ![s] = Idle]
              /\ UNCHANGED <<heap, ihs, write_set>>
  BY Zenon DEF UpdateNext
<1>2. Active(s)
  BY <1>1, Zenon DEF Active, Executing
<1>3. /\ s \in Session /\ stmt[s] \in Statement
      /\ Current(stmt[s], Range(indexes), Watched, Records)
      /\ write_set[s] \in Seq(WriteRecord)
      /\ LeadsBack(write_set[s], committed, heap, Watched)
      /\ heap \in Heap /\ Range(indexes) \subseteq Col /\ Watched \subseteq Range(indexes)
      /\ ihs \in Open
      /\ \A col \in Col : ihs[col] # NotOpen => ihs[col] \in Entries
      /\ \A col \in Watched : /\ UniqueOn(heap, col) /\ IndexExact(ihs[col], col, heap, leaked)
                              /\ ihs[col] # NotOpen
  BY <1>2, WriterKnows, Zenon
<1>4. /\ what \in Updating /\ what.cols \in Seq(Col) /\ what.rids \in SUBSET Rid
      /\ what.col \in Col /\ what.key \in Key
  BY <1>1, <1>3, Kinds DEF Updating
<1>5. /\ Range(what.cols) \subseteq Range(indexes) /\ Watched \subseteq Range(what.cols)
      /\ what.rids # {} /\ what.rids \subseteq Records
  BY <1>1, <1>3, Zenon DEF Current
<1>6. rid \in what.rids /\ rid \in Rid /\ heap[rid] # Absent /\ heap[rid] \in Row
  <2>1. what.rids \in SUBSET Nat
    BY <1>4, BoundsAssumption DEF Rid
  <2>2. rid \in what.rids
    BY <1>5, <2>1, FirstOfLeast, Zenon
  <2> QED BY <1>3, <1>5, <2>2, Zenon DEF Records, Heap, Content
<1>7. new \in Row /\ new \in Content /\ new # Absent
  <2>1. new \in Row
    BY <1>4, <1>6, Zenon DEF Row
  <2> QED BY <2>1, ConstantsDistinct, Zenon DEF Row, Content
<1> DEFINE cols == Range(what.cols)
<1>8. stmt[s].op \notin InDdl /\ Idle.op \notin {"failed", "dangling"}
  BY <1>1, IdleIs, Zenon DEF InDdl
<1>9. CASE Accepts(what.cols, heap[rid], new)
  <2>1. /\ Write(s, "UPDATE_TUPLE", rid, heap[rid])
        /\ ihs' = Rekey(ihs, cols, rid, heap[rid], new)
        /\ heap' = [heap EXCEPT ![rid] = new]
        /\ stmt' = [stmt EXCEPT ![s] = Turned(s, rid)]
    BY <1>1, <1>9
  <2>2. \A col \in cols : heap[rid][col] # new[col] => ihs[col][new[col]] = Absent
    BY <1>9, Zenon DEF Accepts, Range
  <2>12. AllOpen(ihs, cols)
    BY <1>3, <1>5, <1>9, Zenon DEF AllOpen, Accepts, Range
  <2> HIDE DEF cols, rid, new, what
  <2> DEFINE write == [wtype |-> "UPDATE_TUPLE", rid |-> rid, old |-> heap[rid]]
  <2>3. write_set' = [write_set EXCEPT ![s] = Append(write_set[s], write)]
    BY <2>1, Zenon DEF Write
  <2>4. write \in WriteRecord /\ heap' \in Heap /\ Undoes(write, heap, heap')
    BY <1>3, <1>6, <1>7, <2>1, WriteUndoes, Zenon
  <2> HIDE DEF write
  <2>5. SameOpen(ihs, ihs')
    BY <1>6, <1>7, <2>1, <2>12, RekeyOpen
  <2>6. ASSUME NEW col \in Watched PROVE UniqueOn(heap', col)
    <3>1. \A r \in Rid : heap'[r] = IF r = rid THEN new ELSE heap[r]
      BY <1>3, <2>1, Zenon DEF Heap
    <3>2. UniqueOn(heap, col) /\ IndexExact(ihs[col], col, heap, leaked) /\ col \in cols
          /\ col \in Col
      BY <1>3, <1>5, Zenon DEF cols
    <3>3. \A r \in Rid : r # rid /\ heap[r] # Absent => heap[r][col] # new[col]
      <4>1. CASE heap[rid][col] = new[col]
        BY <1>6, <3>2, <4>1, Zenon DEF UniqueOn
      <4>2. CASE heap[rid][col] # new[col]
        <5>1. ihs[col][new[col]] = Absent /\ new[col] \in Key
          BY <1>7, <2>2, <3>2, <4>2 DEF Row
        <5> QED BY <3>2, <5>1, Zenon DEF IndexExact, EntryExact
      <4> QED BY <4>1, <4>2
    <3> QED BY <3>1, <3>2, <3>3, Zenon DEF UniqueOn
  <2>7. LeadsBack(Append(write_set[s], write), committed, heap', Watched)
    BY <1>3, <2>4, <2>6, OneMore, Zenon
  <2>8. ASSUME NEW col \in Watched PROVE IndexExact(ihs'[col], col, heap', leaked)
    <3>1. col \in cols /\ IndexExact(ihs[col], col, heap, leaked) /\ UniqueOn(heap, col)
      BY <1>3, <1>5, Zenon DEF cols
    <3>2. IndexExact(Rekey(ihs, cols, rid, heap[rid], new)[col], col,
                     [heap EXCEPT ![rid] = new], leaked)
      BY <1>3, <1>6, <1>7, <2>12, <3>1, RekeyIndexed
    <3> QED BY <2>1, <3>2
  <2>11. /\ Turned(s, rid) \in Statement
         /\ Turned(s, rid).op \notin {"failed", "dangling"} /\ Turned(s, rid).op \notin InDdl
         /\ Current(Turned(s, rid), Range(indexes), Watched, Records')
    <3>1. Records \ {rid} \subseteq Records'
      BY <1>3, <2>1 DEF Records, Heap
    <3>2. stmt[s] \in Deleting \cup Updating /\ stmt[s].rids # {}
      BY <1>4, <1>5, Zenon DEF what
    <3> QED BY <1>3, <3>1, <3>2, TurnedIs, Zenon
  <2>13. Unopened' = Unopened
    BY <1>3, <1>8, <2>1, <2>11, UnopenedSame, Zenon DEF SBody, SType, InDdl
  <2>9. Indexed' /\ leaked' \subseteq Col \X Key
    BY <1>1, <1>2, <2>5, <2>8, <2>13, StillIndexed
  <2>10. Append(write_set[s], write) \in Seq(WriteRecord)
    BY <1>3, <2>4
  <2> QED BY <1>1, <1>2, <1>8, <2>1, <2>3, <2>4, <2>5, <2>7, <2>9, <2>10, <2>11, WriterStep, Zenon
<1>10. CASE ~Accepts(what.cols, heap[rid], new)
  <2>1. stmt' = [stmt EXCEPT ![s] = Idle] /\ UNCHANGED <<heap, ihs, write_set>>
    BY <1>1, <1>10
  <2>2. SameOpen(ihs, ihs')
    BY <1>3, <2>1, Zenon DEF SameOpen
  <2>3. \A col \in Watched : IndexExact(ihs'[col], col, heap', leaked)
    BY <1>3, <2>1, Zenon
  <2>7. Unopened' = Unopened
    BY <1>3, <1>8, <2>1, IdleIs, UnopenedSame, Zenon DEF SBody, SType, InDdl
  <2>4. Indexed' /\ leaked' \subseteq Col \X Key
    BY <1>1, <1>2, <2>2, <2>3, <2>7, StillIndexed
  <2>5. write_set' = [write_set EXCEPT ![s] = write_set[s]]
    <3>1. write_set \in [Session -> Seq(WriteRecord)]
      BY Zenon DEF SBody, SType
    <3> QED BY <2>1, <3>1, Zenon
  <2>6. heap' \in Heap /\ LeadsBack(write_set[s], committed, heap', Watched)
    BY <1>3, <2>1, Zenon
  <2> QED BY <1>1, <1>2, <1>3, <1>8, <2>1, <2>2, <2>4, <2>5, <2>6, IdleIs, WriterStep, Zenon
<1> QED BY <1>9, <1>10, Zenon

\* Rekey leaves the indexes whose key stays alone.
LEMMA RekeyOnly ==
    ASSUME NEW open, NEW cols, NEW rid, NEW old, NEW new,
           NEW moved, moved = {col \in cols : old[col] # new[col]}
    PROVE  Rekey(open, cols, rid, old, new) = Rekey(open, moved, rid, old, new)
BY Zenon DEF Rekey

\* A turn of the loop of abort finds the table and the record, and restores the
\* table there was before the change.
LEMMA UndoKeeps ==
    ASSUME SBody, NEW s \in Writer, Undo(s), Calm'
    PROVE  SBody'
<1> DEFINE write == back(write_set[s])
           cols == Range(indexes)
           stops == Throws(write)
<1>1. /\ stmt[s].op = "undo" /\ write_set[s] # <<>>
      /\ leaked' = StillLeaked(ihs')
      /\ write_set' = [write_set EXCEPT ![s] = pop_back(write_set[s])]
      /\ UNCHANGED <<exists, indexes, holder, committed>>
      /\ IF ~exists \/ (write.wtype # "DELETE_TUPLE" /\ heap[write.rid] = Absent)
         THEN /\ stmt' = [stmt EXCEPT ![s] = [op |-> "failed"]]
              /\ UNCHANGED <<heap, ihs, overlap>>
         ELSE /\ ihs' = UndoneEntries(write, Passed(indexes, stops))
              /\ heap' = IF stops # {} /\ write.wtype # "DELETE_TUPLE" THEN heap
                         ELSE [heap EXCEPT ![write.rid] =
                            IF write.wtype = "DELETE_TUPLE" /\ heap[write.rid] # Absent
                            THEN heap[write.rid] ELSE write.old]
              /\ stmt' = IF stops = {} THEN stmt ELSE [stmt EXCEPT ![s] = [op |-> "failed"]]
              /\ Met(Missed(indexes, stops))
  BY Zenon DEF Undo
<1>2. Active(s)
  BY <1>1, Zenon DEF Active
<1>3. /\ s \in Session /\ exists /\ stmt[s] \in Statement
      /\ Current(stmt[s], Range(indexes), Watched, Records)
      /\ write_set[s] \in Seq(WriteRecord)
      /\ LeadsBack(write_set[s], committed, heap, Watched)
      /\ heap \in Heap /\ Range(indexes) \subseteq Col /\ Watched \subseteq Range(indexes)
      /\ ihs \in Open
      /\ \A col \in Col : ihs[col] # NotOpen => ihs[col] \in Entries
      /\ \A col \in Watched : /\ UniqueOn(heap, col) /\ IndexExact(ihs[col], col, heap, leaked)
                              /\ ihs[col] # NotOpen
  BY <1>2, WriterKnows, Zenon
<1>4. PICK before \in Heap : /\ Undoes(write, before, heap)
                             /\ LeadsBack(pop_back(write_set[s]), committed, before, Watched)
  BY <1>1, <1>3, OneLess
<1>5. write \in WriteRecord /\ pop_back(write_set[s]) \in Seq(WriteRecord)
  BY <1>1, <1>3, OneLess, Zenon
<1> HIDE DEF write
<1>6. /\ write.rid \in Rid /\ write.old \in Content
      /\ write.wtype \in {"INSERT_TUPLE", "DELETE_TUPLE", "UPDATE_TUPLE"}
  BY <1>5, Zenon DEF WriteRecord
<1>7. /\ before = [heap EXCEPT ![write.rid] = write.old]
      /\ write.old = Absent <=> write.wtype = "INSERT_TUPLE"
      /\ heap[write.rid] = Absent <=> write.wtype = "DELETE_TUPLE"
  BY <1>4, Zenon DEF Undoes
<1>17. indexes \in Seq(Col)
  BY Zenon DEF SBody, SType
<1>18. Met(Missed(indexes, stops))
  BY <1>1, <1>3, <1>7, Zenon
<1>19. stops = {} /\ overlap' = overlap
  <2>1. stops \in SUBSET (DOMAIN indexes) /\ \A i \in stops : ihs[indexes[i]] = NotOpen
    BY Zenon DEF Throws
  <2>2. /\ overlap' = overlap
        /\ stops # {} => FirstOf(stops) \in stops /\ ihs[indexes[FirstOf(stops)]] # NotOpen
    <3> HIDE DEF stops
    <3> QED BY <1>17, <1>18, <2>1, NotMissed, Zenon
  <2> QED BY <2>1, <2>2, Zenon
<1>8. ihs' = UndoneEntries(write, cols) /\ heap' = before /\ stmt' = stmt
  <2>1. Passed(indexes, stops) = cols
    BY <1>17, <1>19, PassedAll, Zenon
  <2> HIDE DEF stops
  <2> QED BY <1>1, <1>3, <1>7, <1>19, <2>1, Zenon
<1>9. \A col \in cols :
         ihs[col] # NotOpen \/ (write.wtype = "UPDATE_TUPLE" /\ heap[write.rid][col] = write.old[col])
  BY <1>19, Zenon DEF Throws, Range
<1>20. write.wtype # "UPDATE_TUPLE" => AllOpen(ihs, cols)
  BY <1>3, <1>9, Zenon DEF AllOpen
<1>10. \A col \in Watched : UniqueOn(heap', col)
  <2>1. Len(pop_back(write_set[s])) \in Nat
    BY <1>5
  <2> QED BY <1>4, <1>8, <2>1, UniqueNow, Zenon
<1>21. Watched # {} => Watched = cols
  BY Zenon DEF Watched
<1>11. SameOpen(ihs, ihs') /\ \A col \in Watched : IndexExact(ihs'[col], col, heap', leaked)
  <2>1. CASE write.wtype = "INSERT_TUPLE"
    <3>1. ihs' = Removed(ihs, cols, heap[write.rid])
      BY <1>8, <2>1, Zenon DEF UndoneEntries
    <3>2. heap[write.rid] \in Row /\ heap[write.rid] # Absent /\ write.old = Absent
      BY <1>3, <1>6, <1>7, <2>1 DEF Heap, Content
    <3>3. SameOpen(ihs, Removed(ihs, cols, heap[write.rid]))
      BY <1>20, <2>1, <3>2, RemovedOpen
    <3>4. ASSUME NEW col \in Watched PROVE IndexExact(ihs'[col], col, heap', leaked)
      <4>1. col \in Col /\ col \in cols /\ ihs[col] \in Entries
            /\ IndexExact(ihs[col], col, heap, leaked) /\ UniqueOn(heap, col)
        BY <1>3, Zenon
      <4>2. ihs'[col] = delete_entry(ihs[col], heap[write.rid][col])
        BY <3>1, <4>1, Zenon DEF Removed
      <4>3. IndexExact(delete_entry(ihs[col], heap[write.rid][col]), col,
                       [heap EXCEPT ![write.rid] = Absent], leaked)
        BY <1>3, <1>6, <3>2, <4>1, RemovedExact, Zenon
      <4> QED BY <1>7, <1>8, <3>2, <4>2, <4>3
    <3> QED BY <3>1, <3>3, <3>4, Zenon
  <2>2. CASE write.wtype = "DELETE_TUPLE"
    <3>1. ihs' = Entered(ihs, cols, write.old, write.rid)
      BY <1>8, <2>2, Zenon DEF UndoneEntries
    <3>2. heap[write.rid] = Absent /\ write.old \in Row
      BY <1>6, <1>7, <2>2, Zenon DEF Content
    <3>3. SameOpen(ihs, Entered(ihs, cols, write.old, write.rid))
      BY <1>6, <1>20, <2>2, <3>2, EnteredOpen
    <3>4. ASSUME NEW col \in Watched PROVE IndexExact(ihs'[col], col, heap', leaked)
      <4>1. col \in Col /\ col \in cols /\ ihs[col] \in Entries
            /\ IndexExact(ihs[col], col, heap, leaked)
        BY <1>3, Zenon
      <4>2. ihs'[col] = insert_entry(ihs[col], write.old[col], write.rid)
        BY <3>1, <4>1, Zenon DEF Entered
      <4>3. IndexExact(insert_entry(ihs[col], write.old[col], write.rid), col,
                       [heap EXCEPT ![write.rid] = write.old], leaked)
        BY <1>3, <1>6, <3>2, <4>1, EnteredExact
      <4> QED BY <1>7, <1>8, <4>2, <4>3
    <3> QED BY <3>1, <3>3, <3>4
  <2>3. CASE write.wtype = "UPDATE_TUPLE"
    <3>1. ihs' = Rekey(ihs, cols, write.rid, heap[write.rid], write.old)
      BY <1>8, <2>3, Zenon DEF UndoneEntries
    <3>2. heap[write.rid] \in Row /\ heap[write.rid] # Absent /\ write.old \in Row
      BY <1>3, <1>6, <1>7, <2>3, Zenon DEF Heap, Content
    <3>3. SameOpen(ihs, Rekey(ihs, cols, write.rid, heap[write.rid], write.old))
      <4> DEFINE moved == {col \in cols : heap[write.rid][col] # write.old[col]}
      <4>1. AllOpen(ihs, moved)
        BY <1>3, <1>9, Zenon DEF AllOpen
      <4>2. SameOpen(ihs, Rekey(ihs, moved, write.rid, heap[write.rid], write.old))
        <5> HIDE DEF moved
        <5> QED BY <1>6, <3>2, <4>1, RekeyOpen
      <4>3. moved = {col \in cols : heap[write.rid][col] # write.old[col]}
        OBVIOUS
      <4> HIDE DEF moved, cols
      <4>4. Rekey(ihs, cols, write.rid, heap[write.rid], write.old)
             = Rekey(ihs, moved, write.rid, heap[write.rid], write.old)
        BY <4>3, RekeyOnly
      <4> QED BY <4>2, <4>4, Zenon
    <3>4. ASSUME NEW col \in Watched PROVE IndexExact(ihs'[col], col, heap', leaked)
      <4>1. col \in cols /\ IndexExact(ihs[col], col, heap, leaked) /\ UniqueOn(heap, col)
        BY <1>3, Zenon
      <4>2. IndexExact(Rekey(ihs, cols, write.rid, heap[write.rid], write.old)[col], col,
                       [heap EXCEPT ![write.rid] = write.old], leaked)
        <5>1. AllOpen(ihs, cols)
          BY <1>3, <1>21, Zenon DEF AllOpen
        <5> QED BY <1>3, <1>6, <3>2, <4>1, <5>1, RekeyIndexed
      <4> QED BY <1>7, <1>8, <3>1, <4>2
    <3> QED BY <3>1, <3>3, <3>4, Zenon
  <2> QED BY <1>6, <2>1, <2>2, <2>3
<1>12. Indexed' /\ leaked' \subseteq Col \X Key
  <2>1. Unopened' = Unopened
    BY <1>8, Zenon DEF Unopened
  <2> QED BY <1>1, <1>2, <1>11, <1>19, <2>1, StillIndexed
<1>13. stmt' = [stmt EXCEPT ![s] = stmt[s]]
  <2>1. stmt \in [Session -> Statement]
    BY Zenon DEF SBody, SType
  <2> QED BY <1>8, <2>1, Zenon
<1>14. heap' \in Heap /\ LeadsBack(pop_back(write_set[s]), committed, heap', Watched)
  BY <1>4, <1>8, Zenon
<1>15. Current(stmt[s], Range(indexes), Watched, Records')
  BY <1>1, Zenon DEF Current
<1>16. stmt[s].op \notin {"failed", "dangling"} /\ stmt[s].op \notin InDdl
  BY <1>1, Zenon DEF InDdl
<1> QED BY <1>1, <1>2, <1>3, <1>5, <1>11, <1>19, <1>12, <1>13, <1>14, <1>15, <1>16, WriterStep, Zenon


\* A step of one session that leaves the table and its indexes as they are.
LEMMA QuietStep ==
    ASSUME SBody, NEW s \in Session, NEW what \in Statement, stmt' = [stmt EXCEPT ![s] = what],
           what.op \notin {"failed", "dangling", "publish", "unlist"},
           stmt[s].op \notin {"publish", "unlist"},
           Current(what, Range(indexes), Watched, Records),
           UNCHANGED <<exists, heap, indexes, ihs, leaked>>, overlap \subseteq overlap',
           committed' \in Heap, holder' \in Writer \cup {None},
           write_set' \in [Session -> Seq(WriteRecord)],
           \A c \in Session : Active(c)' => c \in Writer /\ holder' = c /\ exists,
           History', Builds'
    PROVE  SBody'
<1>1. SType
  BY Zenon DEF SBody
<1>2. \A c \in Session : stmt'[c] = IF c = s THEN what ELSE stmt[c]
  BY <1>1, Zenon DEF SType
<1>3. Watched' \subseteq Watched /\ (overlap' = {} => overlap = {})
  BY WatchedShrinks, Zenon
<1>4. SType'
  <2>1. stmt' \in [Session -> Statement]
    BY <1>1, Zenon DEF SType
  <2> QED BY <1>1, <2>1, Zenon DEF SType
<1>5. Locked'
  <2>1. ASSUME NEW c \in Session PROVE stmt'[c].op \notin {"failed", "dangling"}
    BY <1>2, Zenon DEF SBody, Locked
  <2> QED BY <2>1, Zenon DEF Locked
<1>9. Unopened' = Unopened
  BY <1>1, UnopenedSame, Zenon DEF SType
<1>6. Opened'
  BY <1>9, Zenon DEF SBody, Opened
<1>7. Statements'
  <2>1. Range(indexes') = Range(indexes) /\ Records' = Records
    BY Zenon DEF Records
  <2>2. Current(what, Range(indexes'), Watched', Records')
    BY <1>3, <2>1, Zenon DEF Current
  <2>3. ASSUME NEW c \in Session
        PROVE  Current(stmt[c], Range(indexes'), Watched', Records')
    BY <1>3, <2>1, Zenon DEF SBody, Statements, Current
  <2> QED BY <1>2, <2>2, <2>3, Zenon DEF Statements
<1>8. Indexed'
  <2>1. Indexed
    BY Zenon DEF SBody
  <2> QED BY <1>3, <1>9, <2>1, Zenon DEF Indexed
<1> QED BY <1>4, <1>5, <1>6, <1>7, <1>8, Zenon DEF SBody

\* No writer has begun or is rolling back: no key occurs twice in the table.
LEMMA UniqueHeap ==
    ASSUME SBody
    PROVE  \A col \in Watched : UniqueOn(heap, col)
<1>1. Writes \in Seq(WriteRecord)
  <2>1. CASE holder \in Writer
    BY <2>1, Zenon DEF SBody, SType, Writes, Session
  <2>2. CASE holder \notin Writer
    BY <2>2 DEF Writes
  <2> QED BY <2>1, <2>2, Zenon
<1>2. Len(Writes) \in Nat
  BY <1>1
<1>3. LeadsBack(Writes, committed, heap, Watched)
  BY Zenon DEF SBody, History
<1> QED BY <1>2, <1>3, UniqueNow, Zenon

\* A transaction that commits.
LEMMA CommitKeeps ==
    ASSUME SBody, NEW s \in Writer, commit(s)
    PROVE  SBody'
<1>1. /\ stmt[s] = Idle /\ holder = s /\ committed' = heap
      /\ write_set' = [write_set EXCEPT ![s] = <<>>] /\ holder' = None
      /\ UNCHANGED <<exists, heap, indexes, ihs, leaked, stmt, overlap>>
  BY Zenon DEF commit, tableVars
<1>2. s \in Session /\ SType
  BY Zenon DEF Session, SBody
<1>3. stmt' = [stmt EXCEPT ![s] = Idle]
  BY <1>1, <1>2, Zenon DEF SType
<1>4. write_set' \in [Session -> Seq(WriteRecord)]
  BY <1>1, <1>2 DEF SType
<1>5. \A c \in Session : write_set'[c] = IF c = s THEN <<>> ELSE write_set[c]
  BY <1>1, <1>2, Zenon DEF SType
<1>6. ASSUME NEW c \in Session, Active(c)' PROVE FALSE
  <2>1. CASE c = s
    BY <1>1, <1>2, <1>5, <1>6, <2>1, IdleIs DEF Active, Executing
  <2>2. CASE c # s
    <3>1. Active(c)
      BY <1>1, <1>5, <1>6, <2>2, Zenon DEF Active, Executing
    <3> QED BY <1>1, <1>2, <2>2, <3>1, OneActive
  <2> QED BY <2>1, <2>2, Zenon
<1>7. History'
  <2>1. Writes' = <<>>
    BY <1>1, ConstantsDistinct, Zenon DEF Writes
  <2>2. heap \in Heap /\ Watched' = Watched
    BY <1>1, <1>2, Zenon DEF SType, Watched
  <2>3. LeadsBack(<<>>, heap, heap, Watched)
    BY <2>2, UniqueHeap, NoWritesYet, Zenon
  <2> QED BY <1>1, <2>1, <2>2, <2>3, Zenon DEF History
<1>8. Builds'
  BY <1>1, <1>6, Zenon DEF SBody, Builds
<1>9. committed' \in Heap /\ holder' \in Writer \cup {None} /\ overlap \subseteq overlap'
  BY <1>1, <1>2, Zenon DEF SType
<1>10. Idle.op \notin {"failed", "dangling", "publish", "unlist"} /\ stmt[s].op = Idle.op
  BY <1>1, IdleIs, Zenon
<1> QED BY <1>1, <1>2, <1>3, <1>4, <1>6, <1>7, <1>8, <1>9, <1>10, IdleIs, QuietStep, Zenon

\* The start of a rollback.
LEMMA AbortKeeps ==
    ASSUME SBody, NEW s \in Writer, abort(s)
    PROVE  SBody'
<1> DEFINE what == [op |-> "undo"]
<1>1. /\ stmt[s] = Idle /\ holder = s /\ stmt' = [stmt EXCEPT ![s] = what]
      /\ UNCHANGED <<exists, heap, indexes, ihs, holder, write_set, committed, leaked, overlap>>
  BY Zenon DEF abort, tableVars
<1>2. s \in Session /\ SType
  BY Zenon DEF Session, SBody
<1>3. what \in Statement /\ what.op = "undo" /\ Current(what, Range(indexes), Watched, Records)
  BY Zenon DEF Statement, Plain, Current
<1> HIDE DEF what
<1>4. \A c \in Session : stmt'[c] = IF c = s THEN what ELSE stmt[c]
  BY <1>1, <1>2, Zenon DEF SType
<1>5. ASSUME NEW c \in Session, Active(c)' PROVE Active(c)
  <2>1. CASE c = s
    BY <1>1, <1>3, <1>4, <1>5, <2>1, Zenon DEF Active, Executing
  <2>2. CASE c # s
    BY <1>1, <1>4, <1>5, <2>2, Zenon DEF Active, Executing
  <2> QED BY <2>1, <2>2, Zenon
<1>6. \A c \in Session : Active(c)' => c \in Writer /\ holder' = c /\ exists
  BY <1>1, <1>5, Zenon DEF SBody, Locked
<1>7. History'
  BY <1>1, Zenon DEF SBody, History, Writes, Watched
<1>8. Builds'
  <2>1. ASSUME NEW c \in Session, stmt'[c].op \in InDdl PROVE stmt'[c] = stmt[c]
    BY <1>3, <1>4, <2>1, Zenon DEF InDdl
  <2> QED BY <1>1, <1>5, <2>1, Zenon DEF SBody, Builds
<1>9. /\ committed' \in Heap /\ holder' \in Writer \cup {None} /\ overlap \subseteq overlap'
      /\ write_set' \in [Session -> Seq(WriteRecord)]
      /\ what.op \notin {"failed", "dangling", "publish", "unlist"}
      /\ stmt[s].op \notin {"publish", "unlist"}
  BY <1>1, <1>2, <1>3, IdleIs, Zenon DEF SType
<1> QED BY <1>1, <1>2, <1>3, <1>6, <1>7, <1>8, <1>9, QuietStep, Zenon

\* The end of a rollback.
LEMMA EndUndoKeeps ==
    ASSUME SBody, NEW s \in Writer, EndUndo(s)
    PROVE  SBody'
<1>1. /\ stmt[s].op = "undo" /\ write_set[s] = <<>> /\ stmt' = [stmt EXCEPT ![s] = Idle]
      /\ holder' = IF holder = s THEN None ELSE holder
      /\ UNCHANGED <<exists, heap, indexes, ihs, write_set, committed, leaked, overlap>>
  BY Zenon DEF EndUndo, tableVars
<1>2. s \in Session /\ SType
  BY Zenon DEF Session, SBody
<1>3. \A c \in Session : stmt'[c] = IF c = s THEN Idle ELSE stmt[c]
  BY <1>1, <1>2, Zenon DEF SType
<1>4. ASSUME NEW c \in Session, Active(c)' PROVE Active(c) /\ c # s
  <2>1. CASE c = s
    BY <1>1, <1>3, <1>4, <2>1, IdleIs DEF Active, Executing
  <2>2. CASE c # s
    BY <1>1, <1>3, <1>4, <2>2, Zenon DEF Active, Executing
  <2> QED BY <2>1, <2>2, Zenon
<1>5. \A c \in Session : Active(c)' => c \in Writer /\ holder' = c /\ exists
  BY <1>1, <1>4, Zenon DEF SBody, Locked
<1>6. History'
  <2>1. Writes' = Writes
    BY <1>1, ConstantsDistinct, Zenon DEF Writes
  <2> QED BY <1>1, <2>1, Zenon DEF SBody, History, Watched
<1>7. Builds'
  <2>1. ASSUME NEW c \in Session, stmt'[c].op \in InDdl PROVE stmt'[c] = stmt[c]
    BY <1>3, <2>1, IdleIs, Zenon
  <2> QED BY <1>1, <1>4, <2>1, Zenon DEF SBody, Builds
<1>8. /\ committed' \in Heap /\ holder' \in Writer \cup {None} /\ overlap \subseteq overlap'
      /\ write_set' \in [Session -> Seq(WriteRecord)]
      /\ Idle.op \notin {"failed", "dangling", "publish", "unlist"}
      /\ stmt[s].op \notin {"publish", "unlist"}
  BY <1>1, <1>2, IdleIs, Zenon DEF SType
<1> QED BY <1>1, <1>2, <1>5, <1>6, <1>7, <1>8, IdleIs, QuietStep, Zenon


\* The scan of a record file goes on at the next record, or ends.
LEMMA NextRecordIs ==
    ASSUME NEW rid \in Nat
    PROVE  /\ NextRecord(rid) \in 0 .. MaxRid
           /\ NextRecord(rid) # 0 => NextRecord(rid) \in Records /\ rid < NextRecord(rid)
           /\ \A r \in Records : rid < r => NextRecord(rid) # 0 /\ NextRecord(rid) <= r
<1> DEFINE S == {r \in Records : r > rid}
<1>1. S \in SUBSET Nat /\ Records \subseteq Rid /\ Rid \subseteq Nat
  BY BoundsAssumption DEF Records, Rid
<1>2. CASE S = {}
  <2>1. NextRecord(rid) = 0
    BY <1>1, <1>2, Zenon DEF NextRecord
  <2> QED BY <1>1, <1>2, <2>1, BoundsAssumption
<1>3. CASE S # {}
  <2>1. NextRecord(rid) = FirstOf(S)
    BY <1>1, <1>3, Zenon DEF NextRecord
  <2>2. FirstOf(S) \in S /\ \A y \in S : FirstOf(S) <= y
    <3> HIDE DEF S
    <3> QED BY <1>1, <1>3, FirstOfLeast, Zenon
  <2> QED BY <1>1, <2>1, <2>2, BoundsAssumption DEF Rid
<1> QED BY <1>2, <1>3, Zenon

\* The start of CREATE INDEX.
LEMMA CreateIndexKeeps ==
    ASSUME SBody, NEW s \in Definer, NEW col \in Col, create_index(s, col)
    PROVE  SBody'
<1> DEFINE what == [op |-> "build", col |-> col, at |-> NextRecord(0), entries |-> Empty]
<1>2. s \in Session /\ SType
  BY Zenon DEF Session, SBody
<1>1. /\ stmt[s] = Idle /\ \A c \in Session : stmt[c].op \notin InDdl
      /\ col \notin Range(indexes) /\ stmt' = [stmt EXCEPT ![s] = what]
      /\ Beside("create")
      /\ UNCHANGED <<exists, heap, indexes, ihs, holder, write_set, committed, leaked>>
  BY <1>2, NoDdl, Zenon DEF create_index, tableVars
<1>3. Empty \in Entries /\ \A key \in Key : Empty[key] = Absent
  BY Zenon DEF Empty, Entries
<1>4. /\ NextRecord(0) \in 0 .. MaxRid
      /\ NextRecord(0) # 0 => NextRecord(0) \in Records
      /\ \A r \in Records : NextRecord(0) # 0 /\ NextRecord(0) <= r
  BY NextRecordIs, BoundsAssumption DEF Records, Rid
<1>5. what \in Build /\ what \in Statement /\ what.op = "build"
      /\ what.col = col /\ what.at = NextRecord(0) /\ what.entries = Empty
  BY <1>3, <1>4, Zenon DEF Statement, Build
<1> HIDE DEF what
<1>6. Current(what, Range(indexes), Watched, Records)
  BY <1>5, Zenon DEF Current
<1>7. \A c \in Session : stmt'[c] = IF c = s THEN what ELSE stmt[c]
  BY <1>1, <1>2, Zenon DEF SType
<1>8. ASSUME NEW c \in Session, Active(c)' PROVE Active(c) /\ Writing(c)
  <2>1. CASE c = s
    BY <1>1, <1>5, <1>7, <1>8, <2>1 DEF Active, Executing, Writing
  <2>2. CASE c # s
    BY <1>1, <1>7, <1>8, <2>2, Zenon DEF Active, Executing, Writing
  <2> QED BY <2>1, <2>2, Zenon
<1>9. \A c \in Session : Active(c)' => c \in Writer /\ holder' = c /\ exists
  BY <1>1, <1>8, Zenon DEF SBody, Locked
<1>10. overlap \subseteq overlap' /\ (overlap' = {} => \A c \in Session : ~Writing(c))
  BY <1>1, Zenon DEF Beside
<1>11. History'
  <2>1. Writes' = Writes
    BY <1>1, Zenon DEF Writes
  <2>2. LeadsBack(Writes, committed, heap, Watched')
    BY <1>1, <1>10, WatchedShrinks, FewerColumns, Zenon DEF SBody, History
  <2> QED BY <1>1, <2>1, <2>2, Zenon DEF History
<1>12. Builds'
  <2>1. ASSUME NEW c \in Session, stmt'[c].op \in InDdl PROVE c = s
    BY <1>1, <1>7, <2>1, Zenon
  <2>2. Scanned(what, heap)
    <3>1. Seen(what, heap) = {}
      <4>1. \A r \in Rid : heap[r] # Absent => r \in Records
        BY Zenon DEF Records
      <4> QED BY <1>4, <1>5, <4>1, BoundsAssumption DEF Seen, Rid
    <3>2. what.at # 0 => heap[what.at] # Absent
      BY <1>4, <1>5, Zenon DEF Records
    <3> QED BY <1>3, <1>5, <3>1, <3>2 DEF Scanned
  <2>3. stmt'[s] = what /\ Scanned(what, heap')
    BY <1>1, <1>2, <1>7, <2>2, Zenon
  <2> QED BY <1>1, <1>5, <1>8, <1>10, <2>1, <2>3, Zenon DEF Builds
<1>13. /\ committed' \in Heap /\ holder' \in Writer \cup {None}
       /\ write_set' \in [Session -> Seq(WriteRecord)]
       /\ what.op \notin {"failed", "dangling", "publish", "unlist"}
       /\ stmt[s].op \notin {"publish", "unlist"}
  BY <1>1, <1>2, <1>5, IdleIs, Zenon DEF SType
<1> QED BY <1>1, <1>2, <1>5, <1>6, <1>9, <1>10, <1>11, <1>12, <1>13, QuietStep, Zenon

\* The entries of an index under construction after one more record.
LEMMA OneScanned ==
    ASSUME NEW what \in Build, heap \in Heap, Scanned(what, heap), what.at # 0,
           what.entries[heap[what.at][what.col]] = Absent
    PROVE  LET next == [what EXCEPT !.entries[heap[what.at][what.col]] = what.at,
                                    !.at = NextRecord(what.at)]
           IN  /\ next \in Build /\ next.col = what.col /\ Scanned(next, heap)
<1> DEFINE at == what.at
           key == heap[at][what.col]
           next == [what EXCEPT !.entries[key] = at, !.at = NextRecord(at)]
<1>1. what.col \in Col /\ at \in Rid /\ what.entries \in Entries /\ at \in Nat
  BY BoundsAssumption DEF Build, Rid
<1>2. heap[at] # Absent /\ heap[at] \in Row /\ key \in Key
  BY <1>1 DEF Scanned, Heap, Content, Row
<1>3. /\ NextRecord(at) \in 0 .. MaxRid
      /\ NextRecord(at) # 0 => NextRecord(at) \in Records /\ at < NextRecord(at)
      /\ \A r \in Records : at < r => NextRecord(at) # 0 /\ NextRecord(at) <= r
  BY <1>1, NextRecordIs, Zenon
<1>4. /\ next.at = NextRecord(at) /\ next.col = what.col
      /\ next.entries = [what.entries EXCEPT ![key] = at]
      /\ next.op = what.op
  BY <1>3, Zenon DEF Build
<1>5. next.entries \in Entries
  BY <1>1, <1>2, <1>4 DEF Entries
<1>6. next \in Build
  BY <1>1, <1>3, <1>4, <1>5, Zenon DEF Build
<1>7. \A k \in Key : next.entries[k] = IF k = key THEN at ELSE what.entries[k]
  BY <1>1, <1>2, <1>4 DEF Entries
<1>8. Seen(next, heap) = Seen(what, heap) \cup {at}
  <2>1. Rid \subseteq Nat
    BY BoundsAssumption DEF Rid
  <2>2. ASSUME NEW r \in Rid, heap[r] # Absent
        PROVE  (next.at = 0 \/ r < next.at) <=> (r < at \/ r = at)
    <3>1. r \in Records /\ r \in Nat
      BY <2>1, <2>2, Zenon DEF Records
    <3> QED BY <1>1, <1>3, <1>4, <3>1
  <2> QED BY <1>1, <1>2, <2>2, Zenon DEF Seen
<1>9. at \notin Seen(what, heap)
  BY <1>1 DEF Seen
<1> HIDE DEF next
<1>10. next.at # 0 => heap[next.at] # Absent
  BY <1>3, <1>4, Zenon DEF Records
<1>11. /\ \A k \in Key : what.entries[k] = Absent =>
              \A rid \in Seen(what, heap) : heap[rid][what.col] # k
       /\ \A k \in Key : what.entries[k] # Absent =>
              what.entries[k] \in Seen(what, heap) /\ heap[what.entries[k]][what.col] = k
       /\ \A r1, r2 \in Seen(what, heap) : r1 # r2 => heap[r1][what.col] # heap[r2][what.col]
  BY Zenon DEF Scanned
<1>12. \A rid \in Seen(what, heap) : heap[rid][what.col] # key
  BY <1>2, <1>11, Zenon
<1>13. heap[at][what.col] = key /\ at # Absent
  BY <1>1, ConstantsDistinct, Zenon DEF Rid
<1> HIDE DEF at, key
<1>14. ASSUME NEW k \in Key, next.entries[k] = Absent, NEW rid \in Seen(next, heap)
       PROVE  heap[rid][next.col] # k
  <2>1. k # key /\ what.entries[k] = Absent
    BY <1>7, <1>13, <1>14
  <2>2. CASE rid = at
    BY <1>4, <1>13, <2>1, <2>2
  <2>3. CASE rid \in Seen(what, heap)
    BY <1>4, <1>11, <2>1, <2>3
  <2> QED BY <1>8, <2>2, <2>3
<1>15. ASSUME NEW k \in Key, next.entries[k] # Absent
       PROVE  next.entries[k] \in Seen(next, heap) /\ heap[next.entries[k]][next.col] = k
  BY <1>4, <1>7, <1>8, <1>11, <1>13, <1>15, Zenon
<1>16. ASSUME NEW r1 \in Seen(next, heap), NEW r2 \in Seen(next, heap), r1 # r2
       PROVE  heap[r1][next.col] # heap[r2][next.col]
  <2>1. CASE r1 = at
    BY <1>4, <1>8, <1>12, <1>13, <1>16, <2>1
  <2>2. CASE r2 = at
    BY <1>4, <1>8, <1>12, <1>13, <1>16, <2>2
  <2>3. CASE r1 \in Seen(what, heap) /\ r2 \in Seen(what, heap)
    BY <1>4, <1>11, <1>16, <2>3
  <2> QED BY <1>8, <2>1, <2>2, <2>3
<1>17. Scanned(next, heap)
  BY <1>10, <1>14, <1>15, <1>16, Zenon DEF Scanned
<1> QED BY <1>4, <1>6, <1>17, Zenon DEF next, at, key

\* One record of the scan of CREATE INDEX.
LEMMA BuildRecordKeeps ==
    ASSUME SBody, NEW s \in Definer, BuildRecord(s)
    PROVE  SBody'
<1> DEFINE old == stmt[s]
           gone == heap[old.at] = Absent \/ old.entries[heap[old.at][old.col]] # Absent
           next == [old EXCEPT !.entries[heap[old.at][old.col]] = old.at,
                               !.at = NextRecord(old.at)]
           what == IF gone THEN Idle ELSE next
<1>1. /\ old.op = "build" /\ old.at # 0 /\ stmt' = [stmt EXCEPT ![s] = what]
      /\ UNCHANGED <<exists, heap, indexes, ihs, holder, write_set, committed, leaked, overlap>>
  BY Zenon DEF BuildRecord, tableVars
<1>2. s \in Session /\ SType
  BY Zenon DEF Session, SBody
<1>3. old \in Build /\ heap \in Heap
  BY <1>1, <1>2, Kinds, Zenon DEF SType
<1>4. \/ what = Idle
      \/ /\ what.op = "build" /\ what \in Statement /\ what.col = old.col
         /\ overlap = {} => Scanned(what, heap)
  <2>1. CASE gone
    BY <2>1, Zenon
  <2>2. CASE ~gone
    <3>1. what = next /\ what.op = "build" /\ what.col = old.col
      BY <1>1, <1>3, <2>2, Zenon DEF Build
    <3>2. what \in Statement
      <4>1. heap[old.at] # Absent /\ old.at \in Rid /\ old.at \in Nat /\ old.entries \in Entries
            /\ old.col \in Col
        BY <1>1, <1>3, <2>2, BoundsAssumption DEF Build, Rid
      <4>2. heap[old.at][old.col] \in Key
        BY <1>3, <4>1 DEF Heap, Content, Row
      <4>3. NextRecord(old.at) \in 0 .. MaxRid
        BY <4>1, NextRecordIs, Zenon
      <4>4. next \in Build
        BY <1>3, <4>1, <4>2, <4>3, Zenon DEF Build, Entries
      <4> QED BY <3>1, <4>4, Zenon DEF Statement
    <3>3. ASSUME overlap = {} PROVE Scanned(what, heap)
      <4>1. Scanned(old, heap)
        BY <1>1, <1>2, <3>3, Zenon DEF SBody, Builds, InDdl
      <4>2. old.entries[heap[old.at][old.col]] = Absent
        BY <2>2, Zenon
      <4>3. Scanned(next, heap)
        BY <1>1, <1>3, <4>1, <4>2, OneScanned, Zenon
      <4> QED BY <3>1, <4>3, Zenon
    <3> QED BY <3>1, <3>2, <3>3, Zenon
  <2> QED BY <2>1, <2>2, Zenon
<1> HIDE DEF what
<1>5. /\ what \in Statement /\ what.op \in {"idle", "build"}
      /\ Current(what, Range(indexes), Watched, Records)
  BY <1>4, IdleIs, Zenon DEF Current
<1>6. \A c \in Session : stmt'[c] = IF c = s THEN what ELSE stmt[c]
  BY <1>1, <1>2 DEF SType
<1>7. ASSUME NEW c \in Session, Active(c)' PROVE Active(c)
  <2>1. CASE c = s
    BY <1>1, <1>5, <1>6, <1>7, <2>1 DEF Active, Executing
  <2>2. CASE c # s
    BY <1>1, <1>6, <1>7, <2>2, Zenon DEF Active, Executing
  <2> QED BY <2>1, <2>2, Zenon
<1>8. \A c \in Session : Active(c)' => c \in Writer /\ holder' = c /\ exists
  BY <1>1, <1>7, Zenon DEF SBody, Locked
<1>9. History'
  BY <1>1, Zenon DEF SBody, History, Writes, Watched
<1>10. Builds'
  <2>1. Builds
    BY Zenon DEF SBody
  <2>6. old.op \in InDdl
    BY <1>1, Zenon DEF InDdl
  <2>2. ASSUME NEW c \in Session, stmt'[c].op \in InDdl PROVE c = s /\ stmt'[c] = what
    BY <1>2, <1>6, <2>1, <2>2, <2>6, Zenon DEF Builds
  <2>3. old.col \notin Range(indexes) /\ (overlap = {} => \A c \in Session : ~Active(c))
    BY <1>1, <1>2, <2>1, <2>6, Zenon DEF Builds
  <2>4. CASE what = Idle
    <3>1. ASSUME NEW c \in Session, stmt'[c].op \in InDdl PROVE FALSE
      BY <2>2, <2>4, <3>1, IdleIs
    <3> QED BY <3>1, Zenon DEF Builds
  <2>5. CASE what # Idle
    <3>1. what.op = "build" /\ what.col = old.col /\ (overlap = {} => Scanned(what, heap))
      BY <1>4, <2>5, Zenon
    <3> HIDE DEF old
    <3> QED BY <1>1, <1>7, <2>2, <2>3, <3>1, Zenon DEF Builds
  <2> QED BY <2>4, <2>5, Zenon
<1>11. /\ committed' \in Heap /\ holder' \in Writer \cup {None} /\ overlap \subseteq overlap'
       /\ write_set' \in [Session -> Seq(WriteRecord)]
       /\ what.op \notin {"failed", "dangling", "publish", "unlist"}
       /\ stmt[s].op \notin {"publish", "unlist"}
  BY <1>1, <1>2, <1>5 DEF SType
<1> QED BY <1>1, <1>2, <1>5, <1>8, <1>9, <1>10, <1>11, QuietStep, Zenon


\* While nobody executes a statement or has changes of its own, the table is
\* the committed one.
LEMMA NobodyWrites ==
    ASSUME SBody, \A c \in Session : ~Active(c)
    PROVE  /\ Writes = <<>> /\ committed = heap
           /\ \A c \in Session : write_set[c] = <<>> /\ ~Executing(c)
           /\ \A c \in Session : \A cols, watched, records :
                 Current(stmt[c], cols, watched, records)
<1>1. \A c \in Session : write_set[c] = <<>> /\ ~Executing(c)
  BY Zenon DEF Active
<1>2. Writes = <<>>
  BY <1>1, Zenon DEF Writes, Session
<1>3. committed = heap
  BY <1>2, NoWrites, Zenon DEF SBody, History
<1>4. ASSUME NEW c \in Session, NEW cols, NEW watched, NEW records
      PROVE  Current(stmt[c], cols, watched, records)
  <2>1. stmt[c].op \notin {"insert", "delete", "update"}
    BY <1>1, Zenon DEF Executing
  <2> QED BY <2>1, Zenon DEF Current
<1> QED BY <1>1, <1>2, <1>3, <1>4, Zenon

\* tab.indexes.push_back of create_index.
LEMMA AppendColumn ==
    ASSUME NEW cols \in Seq(Col), IsInjective(cols), NEW col \in Col, col \notin Range(cols)
    PROVE  /\ Append(cols, col) \in Seq(Col) /\ IsInjective(Append(cols, col))
           /\ Range(Append(cols, col)) = Range(cols) \cup {col}
<1> DEFINE more == Append(cols, col)
           n == Len(cols)
<1>1. n \in Nat /\ DOMAIN cols = 1 .. n /\ DOMAIN more = 1 .. n + 1 /\ more \in Seq(Col)
  OBVIOUS
<1>2. more[n + 1] = col /\ \A i \in 1 .. n : more[i] = cols[i]
  OBVIOUS
<1> HIDE DEF more, n
<1>3. \A i \in 1 .. n : cols[i] # col
  BY <1>1, Zenon DEF Range
<1>4. \A i \in 1 .. n + 1 : i \in 1 .. n \/ i = n + 1
  BY <1>1
<1>5. IsInjective(more)
  BY <1>1, <1>2, <1>3, <1>4, Zenon DEF IsInjective
<1>6. Range(more) = Range(cols) \cup {col}
  <2>1. 1 .. n \subseteq 1 .. n + 1 /\ n + 1 \in 1 .. n + 1
    BY <1>1
  <2> QED BY <1>1, <1>2, <1>4, <2>1 DEF Range
<1> QED BY <1>1, <1>5, <1>6 DEF more

\* tab.indexes.erase of drop_index.
LEMMA EraseColumn ==
    ASSUME NEW cols \in Seq(Col), IsInjective(cols), NEW i \in DOMAIN cols
    PROVE  /\ erase(cols, i) \in Seq(Col) /\ IsInjective(erase(cols, i))
           /\ Range(erase(cols, i)) = Range(cols) \ {cols[i]}
<1> DEFINE less == erase(cols, i)
           n == Len(cols)
           a == SubSeq(cols, 1, i - 1)
           b == SubSeq(cols, i + 1, n)
<1>1. n \in Nat /\ DOMAIN cols = 1 .. n /\ i \in 1 .. n
  OBVIOUS
<1>2. a \in Seq(Col) /\ Len(a) = i - 1 /\ \A j \in 1 .. i - 1 : a[j] = cols[j]
  BY <1>1
<1>3. b \in Seq(Col) /\ Len(b) = n - i /\ \A j \in 1 .. n - i : b[j] = cols[i + j]
  BY <1>1
<1>4. less = a \o b
  BY Zenon DEF erase
<1> HIDE DEF less, n, a, b
<1>5. less \in Seq(Col) /\ Len(less) = n - 1 /\ DOMAIN less = 1 .. n - 1
  <2>1. less \in Seq(Col) /\ Len(less) = Len(a) + Len(b)
    BY <1>2, <1>3, <1>4, Joined
  <2>2. Len(less) = n - 1
    BY <1>1, <1>2, <1>3, <2>1
  <2> QED BY <2>1, <2>2
<1>6. ASSUME NEW j \in 1 .. n - 1 PROVE less[j] = IF j < i THEN cols[j] ELSE cols[j + 1]
  <2>1. j \in 1 .. Len(a) + Len(b)
    BY <1>1, <1>2, <1>3
  <2>2. less[j] = IF j <= Len(a) THEN a[j] ELSE b[j - Len(a)]
    BY <1>2, <1>3, <1>4, <2>1, Joined, Zenon
  <2>3. CASE j < i
    BY <1>1, <1>2, <2>2, <2>3
  <2>4. CASE ~(j < i)
    <3>1. j - (i - 1) \in 1 .. n - i /\ i + (j - (i - 1)) = j + 1
      BY <1>1, <2>4
    <3>2. ~(j <= Len(a)) /\ j - Len(a) = j - (i - 1)
      BY <1>1, <1>2, <2>4
    <3>3. b[j - (i - 1)] = cols[j + 1]
      BY <1>3, <3>1
    <3> QED BY <2>2, <2>4, <3>2, <3>3
  <2> QED BY <2>3, <2>4
<1> DEFINE at(j) == IF j < i THEN j ELSE j + 1
<1>7. \A j \in 1 .. n - 1 : at(j) \in 1 .. n /\ at(j) # i /\ less[j] = cols[at(j)]
  BY <1>1, <1>6
<1>8. \A j, k \in 1 .. n - 1 : at(j) = at(k) => j = k
  BY <1>1
<1> HIDE DEF at
<1>10. IsInjective(less)
  <2>1. ASSUME NEW j \in 1 .. n - 1, NEW k \in 1 .. n - 1, less[j] = less[k] PROVE j = k
    <3>1. cols[at(j)] = cols[at(k)] /\ at(j) \in DOMAIN cols /\ at(k) \in DOMAIN cols
      BY <1>1, <1>7, <2>1
    <3>2. at(j) = at(k)
      BY <3>1, Zenon DEF IsInjective
    <3> QED BY <1>8, <3>2
  <2> QED BY <1>5, <2>1, Zenon DEF IsInjective
<1>11. ASSUME NEW col \in Range(less) PROVE col \in Range(cols) \ {cols[i]}
  <2>1. PICK j \in 1 .. n - 1 : less[j] = col
    BY <1>5, Zenon DEF Range
  <2>2. col = cols[at(j)] /\ at(j) \in DOMAIN cols /\ at(j) # i
    BY <1>1, <1>7, <2>1
  <2> QED BY <2>2, Zenon DEF Range, IsInjective
<1>9. ASSUME NEW col \in Range(cols) \ {cols[i]} PROVE col \in Range(less)
  <2>1. PICK j \in 1 .. n : cols[j] = col
    BY <1>1, Zenon DEF Range
  <2>2. CASE j < i
    BY <1>1, <1>5, <1>6, <2>1, <2>2 DEF Range
  <2>3. CASE j > i
    <3>1. j - 1 \in 1 .. n - 1 /\ less[j - 1] = cols[j]
      BY <1>1, <1>6, <2>3
    <3> QED BY <1>5, <2>1, <3>1 DEF Range
  <2> QED BY <1>1, <2>1, <2>2, <2>3
<1> QED BY <1>5, <1>9, <1>10, <1>11 DEF less

\* CREATE INDEX has seen every record and lists the index: no key occurs twice
\* in its column.
LEMMA BuildPublishKeeps ==
    ASSUME SBody, NEW s \in Definer, BuildPublish(s)
    PROVE  SBody'
<1> DEFINE col == stmt[s].col
           what == [stmt[s] EXCEPT !.op = "publish"]
<1>1. /\ stmt[s].op = "build" /\ stmt[s].at = 0
      /\ indexes' = Append(indexes, col) /\ stmt' = [stmt EXCEPT ![s] = what]
      /\ UNCHANGED <<exists, heap, ihs, holder, write_set, committed, leaked, overlap>>
  BY Zenon DEF BuildPublish
<1>2. /\ s \in Session /\ SType /\ Locked /\ Opened /\ Statements /\ History /\ Indexed /\ Builds
  BY Zenon DEF Session, SBody
<1>3. stmt[s] \in Build /\ col \in Col
  BY <1>1, <1>2, Kinds DEF SType, Build
<1>18. /\ what \in Build /\ what \in Statement /\ what.op = "publish" /\ what.col = col
       /\ what.at = 0 /\ what.entries = stmt[s].entries
  BY <1>1, <1>3, Zenon DEF Build, Statement
<1> HIDE DEF what
<1>4. /\ col \notin Range(indexes) /\ indexes \in Seq(Col) /\ Range(indexes) \subseteq Col
      /\ Unopened = {}
      /\ \A c \in Session : stmt[c].op \in InDdl => c = s
      /\ overlap = {} => Scanned(stmt[s], heap) /\ \A c \in Session : ~Active(c)
  <2>1. indexes \in Seq(Col) /\ stmt[s].op \in InDdl
    BY <1>1, <1>2, Zenon DEF SType, InDdl
  <2>2. Unopened = {}
    BY <1>1, <1>2, UnopenedIs, Zenon
  <2> QED BY <1>1, <1>2, <2>1, <2>2, RangeIn, Zenon DEF Builds
<1>5. /\ indexes' \in Seq(Col) /\ IsInjective(indexes')
      /\ Range(indexes') = Range(indexes) \cup {col}
  <2>1. IsInjective(indexes)
    BY <1>2, Zenon DEF Opened
  <2> HIDE DEF col
  <2> QED BY <1>1, <1>3, <1>4, <2>1, AppendColumn
<1>6. \A c \in Session : stmt'[c] = IF c = s THEN what ELSE stmt[c]
  BY <1>1, <1>2 DEF SType
<1>7. ASSUME NEW c \in Session, stmt'[c].op \in InDdl PROVE c = s /\ stmt'[c] = what
  BY <1>4, <1>6, <1>7, Zenon
<1>8. Unopened' = {col}
  <2>1. \A c \in Session : stmt'[c].op \in {"publish", "unlist"} <=> c = s
    BY <1>2, <1>6, <1>7, <1>18, Zenon DEF InDdl
  <2>2. stmt'[s].col = col
    BY <1>2, <1>6, <1>18, Zenon
  <2> QED BY <1>2, <2>1, <2>2, Zenon DEF Unopened
<1>9. ASSUME NEW c \in Session, Active(c)' PROVE Active(c)
  <2>1. CASE c = s
    BY <1>1, <1>6, <1>9, <1>18, <2>1 DEF Active, Executing
  <2>2. CASE c # s
    BY <1>1, <1>6, <1>9, <2>2, Zenon DEF Active, Executing
  <2> QED BY <2>1, <2>2, Zenon
<1>10. SType'
  <2>1. stmt' \in [Session -> Statement]
    BY <1>1, <1>2, <1>18 DEF SType
  <2> QED BY <1>1, <1>2, <1>5, <2>1, Zenon DEF SType
<1>11. Locked'
  <2>1. ASSUME NEW c \in Session PROVE stmt'[c].op \notin {"failed", "dangling"}
    BY <1>2, <1>6, <1>18 DEF Locked
  <2> QED BY <1>1, <1>2, <1>9, <2>1, Zenon DEF Locked
<1> HIDE DEF col
<1>12. Opened'
  BY <1>1, <1>2, <1>3, <1>4, <1>5, <1>8, Zenon DEF Opened
<1>13. Statements'
  <2>1. ASSUME NEW c \in Session PROVE Current(stmt'[c], Range(indexes'), Watched', Records')
    <3>1. CASE c = s
      BY <1>6, <1>18, <3>1, Zenon DEF Current
    <3>2. CASE c # s /\ overlap = {}
      BY <1>4, <1>6, <3>2, NobodyWrites
    <3>3. CASE c # s /\ overlap # {}
      <4>1. Watched' = {} /\ Records' = Records
        BY <1>1, <3>3, Zenon DEF Watched, Records
      <4>2. Current(stmt[c], Range(indexes), Watched, Records)
        BY <1>2, Zenon DEF Statements
      <4> QED BY <1>5, <1>6, <3>3, <4>1, <4>2 DEF Current
    <3> QED BY <3>1, <3>2, <3>3
  <2> QED BY <2>1, Zenon DEF Statements
<1>14. ASSUME overlap = {} PROVE UniqueOn(heap, col)
  <2>1. Scanned(stmt[s], heap)
    BY <1>4, <1>14, Zenon
  <2>2. Seen(stmt[s], heap) = {rid \in Rid : heap[rid] # Absent}
    BY <1>1, Zenon DEF Seen
  <2> QED BY <2>1, <2>2, Zenon DEF Scanned, UniqueOn, col
<1>15. History'
  <2>1. Writes' = Writes
    BY <1>1, Zenon DEF Writes
  <2>2. CASE overlap = {}
    <3>1. Writes = <<>> /\ committed = heap
      BY <1>4, <2>2, NobodyWrites, Zenon
    <3>2. Watched = Range(indexes) /\ Watched' = Range(indexes) \cup {col}
      BY <1>1, <1>5, <2>2, Zenon DEF Watched
    <3>3. \A c \in Watched' : UniqueOn(heap, c)
      BY <1>14, <2>2, <3>2, UniqueHeap, Zenon
    <3>4. heap \in Heap
      BY <1>2, Zenon DEF SType
    <3>5. LeadsBack(<<>>, heap, heap, Watched')
      BY <3>3, <3>4, NoWritesYet
    <3> QED BY <1>1, <2>1, <3>1, <3>5, Zenon DEF History
  <2>3. CASE overlap # {}
    BY <1>1, <1>2, <2>1, <2>3, Zenon DEF History, Watched
  <2> QED BY <2>2, <2>3
<1>16. Indexed'
  <2>1. ASSUME NEW c \in Watched' \ Unopened' PROVE IndexExact(ihs'[c], c, heap', leaked')
    <3>1. c \in Watched \ Unopened
      BY <1>1, <1>4, <1>5, <1>8, <2>1, Zenon DEF Watched
    <3> QED BY <1>1, <1>2, <3>1, Zenon DEF Indexed
  <2>2. Range(indexes') \ Unopened' = Range(indexes) \ Unopened
    BY <1>4, <1>5, <1>8, Zenon
  <2> QED BY <1>1, <1>2, <2>1, <2>2, Zenon DEF Indexed
<1>17. Builds'
  <2>1. ASSUME overlap = {} PROVE Scanned(what, heap)
    <3>1. Scanned(stmt[s], heap)
      BY <1>4, <2>1, Zenon
    <3>2. what.at = 0 /\ stmt[s].at = 0 /\ what.entries = stmt[s].entries /\ what.col = stmt[s].col
      BY <1>1, <1>18, Zenon DEF col
    <3>3. Seen(what, heap) = Seen(stmt[s], heap)
      BY <3>2, Zenon DEF Seen
    <3> QED BY <3>1, <3>2, <3>3 DEF Scanned
  <2> QED BY <1>1, <1>4, <1>5, <1>7, <1>9, <1>18, <2>1, Zenon DEF Builds
<1> QED BY <1>10, <1>11, <1>12, <1>13, <1>15, <1>16, <1>17, Zenon DEF SBody

\* A step of a session that ends its DDL statement and of no other.
LEMMA DdlEnds ==
    ASSUME SBody, NEW s \in Session, stmt[s].op \in InDdl, NEW what \in Statement,
           \A c \in Session : stmt'[c] = IF c = s THEN what ELSE stmt[c],
           what.op \notin {"publish", "unlist", "insert", "delete", "update"},
           what.op \notin {"failed", "dangling"}, write_set' = write_set
    PROVE  /\ Unopened' = {}
           /\ \A c \in Session : stmt'[c].op \in InDdl => c = s
           /\ \A c \in Session : Active(c)' => Active(c)
           /\ \A c \in Session : stmt'[c].op \notin {"failed", "dangling"}
<1>1. \A c \in Session : stmt'[c].op \in InDdl => c = s
  BY Zenon DEF SBody, Builds
<1>2. \A c \in Session : stmt'[c].op \notin {"publish", "unlist"}
  BY <1>1, Zenon DEF InDdl
<1>3. Unopened' = {}
  BY <1>2, Zenon DEF Unopened
<1>4. \A c \in Session : Active(c)' => Active(c)
  BY Zenon DEF Active, Executing
<1>5. \A c \in Session : stmt'[c].op \notin {"failed", "dangling"}
  BY Zenon DEF SBody, Locked
<1> QED BY <1>1, <1>3, <1>4, <1>5, Zenon

\* CREATE INDEX opens the index it has listed, and its entries are exact.
LEMMA BuildOpenKeeps ==
    ASSUME SBody, NEW s \in Definer, BuildOpen(s)
    PROVE  SBody'
<1> DEFINE col == stmt[s].col
           entries == stmt[s].entries
<1>1. /\ stmt[s].op = "publish" /\ stmt[s].op \in InDdl
      /\ ihs' = [ihs EXCEPT ![col] = entries]
      /\ stmt' = [stmt EXCEPT ![s] = Idle]
      /\ UNCHANGED <<exists, heap, indexes, holder, write_set, committed, leaked, overlap>>
  BY Zenon DEF BuildOpen, InDdl
<1>2. /\ s \in Session /\ SType /\ Locked /\ Opened /\ Statements /\ History /\ Indexed /\ Builds
  BY Zenon DEF Session, SBody
<1>3. stmt[s] \in Build /\ col \in Col /\ entries \in Entries
  BY <1>1, <1>2, Kinds DEF SType, Build
<1>4. /\ col \in Range(indexes) /\ Range(indexes) \subseteq Col /\ stmt[s].at = 0
      /\ Unopened = {col} /\ (overlap = {} => Scanned(stmt[s], heap))
  <2>1. indexes \in Seq(Col) /\ Unopened = {col}
    BY <1>1, <1>2, UnopenedIs, Zenon DEF SType
  <2> QED BY <1>1, <1>2, <2>1, RangeIn, Zenon DEF Builds
<1>6. \A c \in Session : stmt'[c] = IF c = s THEN Idle ELSE stmt[c]
  BY <1>1, <1>2 DEF SType
<1>7. \A c \in Col : ihs'[c] = IF c = col THEN entries ELSE ihs[c]
  BY <1>1, <1>2, Zenon DEF SType
<1>8. entries # NotOpen
  BY <1>3, ConstantsDistinct DEF Entries, Rid
<1>9. /\ Unopened' = {}
      /\ \A c \in Session : stmt'[c].op \in InDdl => c = s
      /\ \A c \in Session : Active(c)' => Active(c)
      /\ \A c \in Session : stmt'[c].op \notin {"failed", "dangling"}
  <2>1. Idle.op \notin {"publish", "unlist", "insert", "delete", "update"}
        /\ Idle.op \notin {"failed", "dangling"}
    BY IdleIs, Zenon
  <2> QED BY <1>1, <1>2, <1>6, <2>1, IdleIs, DdlEnds, Zenon
<1>10. SType'
  <2>1. stmt' \in [Session -> Statement]
    BY <1>1, <1>2, IdleIs DEF SType
  <2>2. ihs' \in [Col -> Entries \cup {NotOpen}]
    BY <1>1, <1>2, <1>3 DEF SType
  <2> QED BY <1>1, <1>2, <2>1, <2>2, Zenon DEF SType
<1>11. Locked'
  BY <1>1, <1>2, <1>9, Zenon DEF Locked
<1> HIDE DEF col, entries
<1>12. Opened'
  BY <1>1, <1>2, <1>3, <1>4, <1>7, <1>8, <1>9, Zenon DEF Opened
<1>13. Statements'
  <2>1. Watched' = Watched /\ Records' = Records /\ indexes' = indexes
    BY <1>1, Zenon DEF Watched, Records
  <2>2. ASSUME NEW c \in Session PROVE Current(stmt'[c], Range(indexes), Watched, Records)
    <3>1. CASE c = s
      BY <1>6, <3>1, IdleIs, Zenon
    <3>2. CASE c # s
      BY <1>2, <1>6, <3>2, Zenon DEF Statements
    <3> QED BY <3>1, <3>2, Zenon
  <2> QED BY <2>1, <2>2, Zenon DEF Statements
<1>14. ASSUME overlap = {} PROVE IndexExact(entries, col, heap, leaked)
  <2>1. Scanned(stmt[s], heap)
    BY <1>4, <1>14, Zenon
  <2>2. Seen(stmt[s], heap) = {rid \in Rid : heap[rid] # Absent}
    BY <1>4, Zenon DEF Seen
  <2> QED BY <2>1, <2>2, Zenon DEF Scanned, IndexExact, EntryExact, col, entries
<1>15. History'
  BY <1>1, <1>2, Zenon DEF History, Writes, Watched
<1>16. Indexed'
  <2>1. ASSUME NEW c \in Watched' PROVE IndexExact(ihs'[c], c, heap', leaked')
    <3>1. c \in Watched /\ c \in Col /\ overlap = {}
      BY <1>1, <1>4, Zenon DEF Watched
    <3>2. CASE c = col
      BY <1>1, <1>7, <1>14, <3>1, <3>2, Zenon
    <3>3. CASE c # col
      BY <1>1, <1>2, <1>4, <1>7, <3>1, <3>3, Zenon DEF Indexed
    <3> QED BY <3>2, <3>3, Zenon
  <2>2. ASSUME overlap = {}, NEW e \in leaked
        PROVE  e[1] \in Range(indexes) /\ ihs'[e[1]][e[2]] # Absent
    BY <1>2, <1>4, <1>7, <2>2, Zenon DEF Indexed
  <2> QED BY <1>1, <1>9, <2>1, <2>2, Zenon DEF Indexed
<1>17. Builds'
  <2>1. \A c \in Session : stmt'[c].op \notin InDdl
    BY <1>2, <1>6, <1>9, IdleIs, Zenon
  <2> QED BY <2>1, Zenon DEF Builds
<1> QED BY <1>10, <1>11, <1>12, <1>13, <1>15, <1>16, <1>17, Zenon DEF SBody

\* The first half of drop_index, beside no writer: the index has no handle
\* until it is unlisted.
LEMMA CloseKeeps ==
    ASSUME SBody, NEW s \in Session, NEW col \in Range(indexes), NEW then \in {"idle", "drop table"},
           CloseIndex(s, col, then), overlap' = overlap,
           stmt[s].op \notin {"publish", "unlist"},
           \A c \in Session : stmt[c].op \in InDdl => c = s,
           \A c \in Session : ~Active(c)
    PROVE  SBody'
<1> DEFINE what == [op |-> "unlist", col |-> col, then |-> then]
<1>1. /\ ihs' = [ihs EXCEPT ![col] = NotOpen] /\ leaked' = StillLeaked(ihs')
      /\ stmt' = [stmt EXCEPT ![s] = what]
      /\ UNCHANGED <<exists, heap, indexes, holder, write_set, committed>>
  BY Zenon DEF CloseIndex
<1>2. SType /\ Locked /\ Opened /\ History /\ Indexed
  BY Zenon DEF SBody
<1>3. Range(indexes) \subseteq Col /\ Watched \subseteq Range(indexes) /\ col \in Col
  BY <1>2, RangeIn DEF SType, Watched
<1>4. what \in Statement /\ what.op = "unlist" /\ what.col = col
  BY <1>3, Zenon DEF Statement, Unlisting
<1> HIDE DEF what
<1>5. \A c \in Session : stmt'[c] = IF c = s THEN what ELSE stmt[c]
  BY <1>1, <1>2 DEF SType
<1>6. \A c \in Session : \A cols, watched, records : Current(stmt[c], cols, watched, records)
  BY NobodyWrites, Zenon
<1>7. /\ Unopened = {} /\ Unopened' = {col}
      /\ \A c \in Session : stmt'[c].op \in InDdl => c = s
  <2>1. \A c \in Session : stmt[c].op \notin {"publish", "unlist"}
    BY Zenon DEF InDdl
  <2>2. \A c \in Session : stmt'[c].op \in {"publish", "unlist"} <=> c = s
    BY <1>4, <1>5, <2>1, Zenon
  <2>3. stmt'[s].col = col
    BY <1>4, <1>5, Zenon
  <2>4. Unopened = {}
    BY <2>1, Zenon DEF Unopened
  <2>5. Unopened' = {col}
    BY <2>2, <2>3, Zenon DEF Unopened
  <2> QED BY <1>5, <2>4, <2>5, Zenon
<1>8. \A c \in Session : ~Active(c)'
  <2>1. ASSUME NEW c \in Session PROVE ~Active(c)'
    <3>1. CASE c = s
      BY <1>1, <1>4, <1>5, <3>1 DEF Active, Executing
    <3>2. CASE c # s
      BY <1>1, <1>5, <3>2, Zenon DEF Active, Executing
    <3> QED BY <3>1, <3>2, Zenon
  <2> QED BY <2>1, Zenon
<1>10. \A c \in Col : ihs'[c] = IF c = col THEN NotOpen ELSE ihs[c]
  BY <1>1, <1>2, Zenon DEF SType
<1>11. SType'
  <2>1. ihs' \in [Col -> Entries \cup {NotOpen}] /\ stmt' \in [Session -> Statement]
    BY <1>1, <1>2, <1>4, Zenon DEF SType
  <2>2. leaked' \subseteq Col \X Key
    BY <1>1, <1>2, Zenon DEF StillLeaked, SType
  <2> QED BY <1>1, <1>2, <2>1, <2>2, Zenon DEF SType
<1>12. Locked'
  <2>1. ASSUME NEW c \in Session PROVE stmt'[c].op \notin {"failed", "dangling"}
    BY <1>2, <1>4, <1>5, Zenon DEF Locked
  <2> QED BY <1>8, <2>1, Zenon DEF Locked
<1>13. Opened'
  BY <1>1, <1>2, <1>7, <1>10, Zenon DEF Opened
<1>14. Statements'
  <2>1. \A cols, watched, records : Current(what, cols, watched, records)
    BY <1>4, Zenon DEF Current
  <2> QED BY <1>5, <1>6, <2>1, Zenon DEF Statements
<1>15. History'
  BY <1>1, <1>2, Zenon DEF History, Writes, Watched
<1>16. Indexed'
  <2>1. ASSUME NEW c \in Watched' \ Unopened' PROVE IndexExact(ihs'[c], c, heap', leaked')
    <3>1. c \in Col /\ c # col /\ c \in Watched /\ ihs'[c] = ihs[c]
      BY <1>1, <1>3, <1>7, <1>10, Zenon DEF Watched
    <3>2. IndexExact(ihs'[c], c, heap, leaked) /\ ihs'[c] # NotOpen
      BY <1>2, <1>3, <1>7, <3>1, Zenon DEF Indexed, Opened
    <3>3. IndexExact(ihs'[c], c, heap, StillLeaked(ihs'))
      BY <3>1, <3>2, LeaksGone
    <3> QED BY <1>1, <3>3, Zenon
  <2>2. ASSUME overlap = {}, NEW e \in leaked'
        PROVE  e[1] \in Range(indexes) \ {col} /\ ihs'[e[1]][e[2]] # Absent
    <3>1. e \in leaked /\ ihs'[e[1]] # NotOpen /\ ihs'[e[1]][e[2]] # Absent
      BY <1>1, <2>2, Zenon DEF StillLeaked
    <3>2. e[1] \in Range(indexes) /\ e[1] \in Col
      BY <1>2, <1>3, <2>2, <3>1, Zenon DEF Indexed
    <3> QED BY <1>10, <3>1, <3>2, Zenon
  <2> QED BY <1>1, <1>7, <2>1, <2>2, Zenon DEF Indexed
<1>17. Builds'
  <2>1. stmt'[s] = what
    BY <1>5, Zenon
  <2> QED BY <1>1, <1>4, <1>7, <1>8, <2>1, Zenon DEF Builds
<1> QED BY <1>11, <1>12, <1>13, <1>14, <1>15, <1>16, <1>17, Zenon DEF SBody

\* A DROP that begins beside no writer leaves no trace in overlap.
LEMMA DropBegins ==
    ASSUME Beside("drop"), Calm'
    PROVE  overlap' = overlap /\ \A c \in Session : ~Active(c)
<1>1. ASSUME NEW c \in Session, Writing(c) PROVE "drop" \in overlap'
  BY <1>1, Zenon DEF Beside
<1>2. "drop" \notin overlap'
  BY Zenon DEF Calm
<1>3. \A c \in Session : ~Writing(c)
  BY <1>1, <1>2, Zenon
<1>4. overlap' = overlap
  BY <1>3, Zenon DEF Beside
<1> QED BY <1>3, <1>4, Zenon DEF Writing, Active

\* The start of DROP INDEX, which nobody's transaction sees.
LEMMA DropIndexKeeps ==
    ASSUME SBody, NEW s \in Definer, NEW col \in Col, drop_index(s, col), Calm'
    PROVE  SBody'
<1>1. s \in Session /\ MayDefine(s) /\ col \in Range(indexes) /\ CloseIndex(s, col, "idle")
      /\ Beside("drop")
  BY Zenon DEF drop_index, Session
<1>2. stmt[s] = Idle /\ \A c \in Session : stmt[c].op \notin InDdl
  BY <1>1, NoDdl, Zenon
<1>3. overlap' = overlap /\ \A c \in Session : ~Active(c)
  BY <1>1, DropBegins, Zenon
<1>4. stmt[s].op \notin {"publish", "unlist"}
  BY <1>2, IdleIs, Zenon
<1> QED BY <1>1, <1>2, <1>3, <1>4, CloseKeeps, Zenon

\* drop_table drops the last index of the table.
LEMMA DropBackIndexKeeps ==
    ASSUME SBody, NEW s \in Definer, DropBackIndex(s)
    PROVE  SBody'
<1>1. /\ s \in Session /\ stmt[s].op = "drop table" /\ stmt[s].op \in InDdl /\ indexes # <<>>
      /\ CloseIndex(s, back(indexes), "drop table") /\ overlap' = overlap
  BY Zenon DEF DropBackIndex, Session, InDdl
<1>2. back(indexes) \in Range(indexes)
  <2>1. indexes \in Seq(Col)
    BY Zenon DEF SBody, SType
  <2>2. indexes # <<>>
    BY <1>1, Zenon
  <2>3. Len(indexes) \in DOMAIN indexes
    BY <2>1, <2>2
  <2> QED BY <2>3, Zenon DEF back, Range
<1>3. /\ \A c \in Session : stmt[c].op \in InDdl => c = s
      /\ \A c \in Session : ~Active(c)
  BY <1>1, Zenon DEF SBody, Builds
<1>4. stmt[s].op \notin {"publish", "unlist"}
  BY <1>1, Zenon
<1> QED BY <1>1, <1>2, <1>3, <1>4, CloseKeeps, Zenon

\* The second half of drop_index: the index that was closed is unlisted.
LEMMA UnlistKeeps ==
    ASSUME SBody, NEW s \in Definer, Unlist(s)
    PROVE  SBody'
<1> DEFINE col == stmt[s].col
           what == [op |-> stmt[s].then]
<1>1. PICK i \in DOMAIN indexes : indexes[i] = col /\ indexes' = erase(indexes, i)
  BY Zenon DEF Unlist
<1>2. /\ s \in Session /\ stmt[s].op = "unlist" /\ stmt[s].op \in InDdl
      /\ stmt' = [stmt EXCEPT ![s] = what]
      /\ UNCHANGED <<exists, heap, ihs, holder, write_set, committed, leaked, overlap>>
  BY Zenon DEF Unlist, InDdl, Session
<1>3. SType /\ Locked /\ Opened /\ History /\ Indexed /\ Builds
  BY Zenon DEF SBody
<1>4. stmt[s] \in Unlisting
  BY <1>2, <1>3, Kinds, Zenon DEF SType
<1>5. what \in Statement /\ what.op \in {"idle", "drop table"} /\ col \in Col
  BY <1>4, Zenon DEF Unlisting, Statement, Plain
<1> HIDE DEF what
<1>6. /\ Unopened = {col} /\ \A c \in Session : ~Active(c)
  BY <1>2, <1>3, UnopenedIs, Zenon DEF Builds
<1>7. \A c \in Session : stmt'[c] = IF c = s THEN what ELSE stmt[c]
  BY <1>2, <1>3 DEF SType
<1>8. /\ Unopened' = {}
      /\ \A c \in Session : stmt'[c].op \in InDdl => c = s
      /\ \A c \in Session : ~Active(c)'
      /\ \A c \in Session : stmt'[c].op \notin {"failed", "dangling"}
  <2>1. what.op \notin {"publish", "unlist", "insert", "delete", "update"}
        /\ what.op \notin {"failed", "dangling"}
    BY <1>5, Zenon
  <2> QED BY <1>2, <1>5, <1>6, <1>7, <2>1, DdlEnds, Zenon
<1>9. /\ \A c \in Session : \A cols, watched, records : Current(stmt[c], cols, watched, records)
      /\ \A cols, watched, records : Current(what, cols, watched, records)
  BY <1>5, <1>6, NobodyWrites DEF Current
<1>10. /\ indexes' \in Seq(Col) /\ IsInjective(indexes')
       /\ Range(indexes') = Range(indexes) \ {col}
  BY <1>1, <1>3, EraseColumn DEF SType, Opened
<1>11. Watched' = Watched \ {col}
  BY <1>2, <1>10 DEF Watched
<1>12. SType'
  <2>1. stmt' \in [Session -> Statement]
    BY <1>2, <1>3, <1>5, Zenon DEF SType
  <2> QED BY <1>2, <1>3, <1>10, <2>1, Zenon DEF SType
<1>13. Locked'
  BY <1>8, Zenon DEF Locked
<1> HIDE DEF col
<1>14. Opened'
  BY <1>2, <1>3, <1>6, <1>8, <1>10, Zenon DEF Opened
<1>15. Statements'
  BY <1>7, <1>9, Zenon DEF Statements
<1>16. History'
  <2>1. LeadsBack(Writes, committed, heap, Watched')
    BY <1>3, <1>11, FewerColumns DEF History
  <2>2. Writes' = Writes
    BY <1>2, Zenon DEF Writes
  <2> QED BY <1>2, <2>1, <2>2, Zenon DEF History
<1>17. Indexed'
  BY <1>2, <1>3, <1>6, <1>8, <1>10, <1>11, Zenon DEF Indexed
<1>18. Builds'
  <2>1. ASSUME NEW c \in Session, stmt'[c].op \in InDdl PROVE stmt'[c].op = "drop table"
    BY <1>5, <1>7, <1>8, <2>1, Zenon DEF InDdl
  <2> QED BY <1>8, <2>1, Zenon DEF Builds
<1> QED BY <1>12, <1>13, <1>14, <1>15, <1>16, <1>17, <1>18, Zenon DEF SBody

\* The start of DROP TABLE, which nobody's transaction sees.
LEMMA DropTableKeeps ==
    ASSUME SBody, NEW s \in Definer, drop_table(s), Calm'
    PROVE  SBody'
<1> DEFINE what == [op |-> "drop table"]
<1>1. /\ s \in Session /\ MayDefine(s) /\ Beside("drop") /\ stmt' = [stmt EXCEPT ![s] = what]
      /\ UNCHANGED <<exists, heap, indexes, ihs, holder, write_set, committed, leaked>>
  BY Zenon DEF drop_table, Session, tableVars
<1>2. stmt[s] = Idle /\ \A c \in Session : stmt[c].op \notin InDdl
  BY <1>1, NoDdl, Zenon
<1>3. overlap' = overlap /\ \A c \in Session : ~Active(c)
  BY <1>1, DropBegins, Zenon
<1>4. what \in Statement /\ what.op = "drop table" /\ Current(what, Range(indexes), Watched, Records)
  BY Zenon DEF Statement, Plain, Current
<1> HIDE DEF what
<1>5. SType
  BY Zenon DEF SBody
<1>6. \A c \in Session : stmt'[c] = IF c = s THEN what ELSE stmt[c]
  BY <1>1, <1>5, Zenon DEF SType
<1>7. ASSUME NEW c \in Session, Active(c)' PROVE FALSE
  <2>1. CASE c = s
    BY <1>1, <1>3, <1>4, <1>6, <1>7, <2>1 DEF Active, Executing
  <2>2. CASE c # s
    BY <1>1, <1>3, <1>6, <1>7, <2>2, Zenon DEF Active, Executing
  <2> QED BY <2>1, <2>2, Zenon
<1>8. History'
  BY <1>1, <1>3, Zenon DEF SBody, History, Writes, Watched
<1>9. Builds'
  <2>1. ASSUME NEW c \in Session, stmt'[c].op \in InDdl PROVE c = s /\ stmt'[c].op = "drop table"
    BY <1>2, <1>4, <1>6, <2>1, Zenon
  <2> QED BY <1>7, <2>1, Zenon DEF Builds
<1>10. /\ committed' \in Heap /\ holder' \in Writer \cup {None} /\ overlap \subseteq overlap'
       /\ write_set' \in [Session -> Seq(WriteRecord)]
       /\ what.op \notin {"failed", "dangling", "publish", "unlist"}
       /\ stmt[s].op \notin {"publish", "unlist"}
  BY <1>1, <1>2, <1>3, <1>4, <1>5, IdleIs, Zenon DEF SType
<1> QED BY <1>1, <1>4, <1>7, <1>8, <1>9, <1>10, QuietStep, Zenon

\* The end of DROP TABLE, when the table has no index left.
LEMMA DropFileKeeps ==
    ASSUME SBody, NEW s \in Definer, DropFile(s)
    PROVE  SBody'
<1>1. /\ s \in Session /\ stmt[s].op = "drop table" /\ stmt[s].op \in InDdl /\ indexes = <<>>
      /\ exists' = FALSE /\ heap' = [rid \in Rid |-> Absent] /\ committed' = heap'
      /\ stmt' = [c \in Session |-> IF c = s THEN Idle
                                    ELSE IF Executing(c) THEN [op |-> "dangling"] ELSE stmt[c]]
      /\ UNCHANGED <<indexes, ihs, holder, write_set, leaked, overlap>>
  BY Zenon DEF DropFile, InDdl, Session
<1>2. SType /\ Locked /\ Opened /\ Indexed /\ Builds
  BY Zenon DEF SBody
<1>3. \A c \in Session : ~Active(c)
  BY <1>1, <1>2, Zenon DEF Builds
<1>4. /\ Writes = <<>> /\ \A c \in Session : ~Executing(c)
      /\ \A c \in Session : \A cols, watched, records : Current(stmt[c], cols, watched, records)
  BY <1>3, NobodyWrites, Zenon
<1>5. \A c \in Session : stmt'[c] = IF c = s THEN Idle ELSE stmt[c]
  BY <1>1, <1>4, Zenon
<1>6. /\ Unopened' = {}
      /\ \A c \in Session : stmt'[c].op \in InDdl => c = s
      /\ \A c \in Session : ~Active(c)'
      /\ \A c \in Session : stmt'[c].op \notin {"failed", "dangling"}
  <2>1. Idle.op \notin {"publish", "unlist", "insert", "delete", "update"}
        /\ Idle.op \notin {"failed", "dangling"}
    BY IdleIs, Zenon
  <2> QED BY <1>1, <1>3, <1>5, <2>1, IdleIs, DdlEnds, Zenon
<1>7. Unopened = {}
  BY <1>1, <1>2, UnopenedIs, Zenon
<1>8. Range(indexes) = {} /\ Watched' = {}
  <2>1. DOMAIN indexes = {}
    <3>1. Len(indexes) = 0 /\ indexes \in Seq(Col)
      BY <1>1, <1>2 DEF SType
    <3>2. DOMAIN indexes = 1 .. 0
      BY <3>1
    <3> QED BY <3>2
  <2>2. Range(indexes) = {}
    BY <2>1, Zenon DEF Range
  <2> QED BY <1>1, <2>2, Zenon DEF Watched
<1>9. heap' \in Heap
  BY <1>1, Zenon DEF Heap, Content
<1>10. SType'
  <2>1. stmt' \in [Session -> Statement]
    <3>1. \A c \in Session : stmt'[c] \in Statement
      BY <1>2, <1>5, IdleIs, Zenon DEF SType
    <3>2. stmt' = [c \in Session |-> stmt'[c]]
      BY <1>1, Zenon
    <3> QED BY <3>1, <3>2, Zenon
  <2> QED BY <1>1, <1>2, <1>9, <2>1, Zenon DEF SType
<1>11. Locked'
  BY <1>6, Zenon DEF Locked
<1>12. Opened'
  BY <1>1, <1>2, <1>6, <1>7, Zenon DEF Opened
<1>13. Statements'
  BY <1>4, <1>5, IdleIs, Zenon DEF Statements
<1>14. History'
  <2>1. LeadsBack(<<>>, heap', heap', {})
    BY <1>9, NoWritesYet
  <2>2. Writes' = <<>>
    BY <1>1, <1>4, Zenon DEF Writes
  <2> QED BY <1>1, <1>8, <2>1, <2>2, Zenon DEF History
<1>15. Indexed'
  BY <1>1, <1>2, <1>8, Zenon DEF Indexed
<1>16. Builds'
  <2>1. \A c \in Session : stmt'[c].op \notin InDdl
    BY <1>1, <1>5, <1>6, IdleIs, Zenon
  <2> QED BY <2>1, Zenon DEF Builds
<1> QED BY <1>10, <1>11, <1>12, <1>13, <1>14, <1>15, <1>16, Zenon DEF SBody

\* CREATE TABLE after a DROP TABLE.
LEMMA CreateTableKeeps ==
    ASSUME SBody, NEW s \in Definer, create_table(s)
    PROVE  SBody'
<1>1. /\ \A c \in Session : stmt[c].op \notin InDdl
      /\ ~exists /\ exists' = TRUE /\ holder' \in {holder, None}
      /\ UNCHANGED <<heap, indexes, ihs, write_set, stmt, committed, leaked, overlap>>
  BY NoDdl, Zenon DEF create_table, Session
<1>2. SType /\ Locked /\ Opened /\ Statements /\ History /\ Indexed
  BY Zenon DEF SBody
<1>3. \A c \in Session : ~Active(c)
  BY <1>1, <1>2, Zenon DEF Locked
<1>4. Writes = <<>> /\ \A c \in Session : write_set[c] = <<>>
  BY <1>3, NobodyWrites, Zenon
<1>5. SType'
  BY <1>1, <1>2, Zenon DEF SType
<1>6. Locked'
  BY <1>1, <1>2, <1>3, Zenon DEF Locked, Active, Executing
<1>7. Opened' /\ Indexed'
  BY <1>1, <1>2, Zenon DEF Opened, Indexed, Watched, Unopened
<1>8. Statements'
  BY <1>1, <1>2, Zenon DEF Statements, Watched, Records
<1>9. History'
  <2>1. Writes' = <<>>
    BY <1>1, <1>4, Zenon DEF Writes, Session
  <2> QED BY <1>1, <1>2, <1>4, <2>1, Zenon DEF History, Watched
<1>10. Builds'
  BY <1>1, Zenon DEF Builds
<1> QED BY <1>5, <1>6, <1>7, <1>8, <1>9, <1>10, Zenon DEF SBody

\* The entries of an exact index.
LEMMA EntriesOfIs ==
    ASSUME NEW table \in Heap, NEW col \in Col
    PROVE  /\ EntriesOf(table, col) \in Entries
           /\ IndexExact(EntriesOf(table, col), col, table, {})
<1> DEFINE rids(key) == {rid \in Rid : table[rid] # Absent /\ table[rid][col] = key}
           entries == EntriesOf(table, col)
<1>1. \A key \in Key : entries[key] = IF rids(key) = {} THEN Absent ELSE CHOOSE rid \in rids(key) : TRUE
  BY Zenon DEF EntriesOf
<1>2. ASSUME NEW key \in Key
      PROVE  /\ rids(key) = {} => entries[key] = Absent
             /\ rids(key) # {} => entries[key] \in rids(key)
  BY <1>1, Zenon
<1>3. entries \in Entries
  <2>1. entries = [key \in Key |-> entries[key]]
    BY DEF EntriesOf
  <2>2. \A key \in Key : entries[key] \in Rid \cup {Absent}
    BY <1>2, Zenon
  <2> HIDE DEF entries
  <2> QED BY <2>1, <2>2, Zenon DEF Entries
<1>4. Absent \notin Rid
  BY ConstantsDistinct, Zenon DEF Rid
<1> HIDE DEF entries
<1>5. ASSUME NEW key \in Key PROVE EntryExact(entries, col, key, table, {})
  BY <1>2, <1>4, Zenon DEF EntryExact
<1> QED BY <1>3, <1>5, Zenon DEF IndexExact, entries

\* The table a server starts with.
LEMMA InitBody == Init => SBody
<1> SUFFICES ASSUME Init PROVE SBody
  OBVIOUS
<1>1. /\ exists = TRUE /\ heap \in [Rid -> Row \cup {Absent}]
      /\ IsInjective(indexes)
      /\ \A i \in DOMAIN indexes : UniqueOn(heap, indexes[i])
      /\ ihs = [col \in Col |-> IF col \in Range(indexes) THEN EntriesOf(heap, col) ELSE NotOpen]
      /\ holder = None /\ write_set = [s \in Session |-> <<>>] /\ stmt = [s \in Session |-> Idle]
      /\ committed = heap /\ leaked = {} /\ overlap = {}
  BY Zenon DEF Init
<1>2. indexes \in Seq(Col)
  BY DEF Init
<1>3. heap \in Heap
  BY <1>1, Zenon DEF Heap, Content
<1>4. \A col \in Col : EntriesOf(heap, col) \in Entries /\ EntriesOf(heap, col) # NotOpen
                       /\ IndexExact(EntriesOf(heap, col), col, heap, {})
  <2> TAKE col \in Col
  <2>1. EntriesOf(heap, col) \in Entries /\ IndexExact(EntriesOf(heap, col), col, heap, {})
    BY <1>3, EntriesOfIs, Zenon
  <2> QED BY <2>1, ConstantsDistinct, Zenon DEF Entries, Rid
<1>5. \A col \in Col : ihs[col] = IF col \in Range(indexes) THEN EntriesOf(heap, col) ELSE NotOpen
  BY <1>1, Zenon
<1>6. ihs \in [Col -> Entries \cup {NotOpen}]
  <2>1. \A col \in Col : ihs[col] \in Entries \cup {NotOpen}
    BY <1>4, <1>5, Zenon
  <2>2. ihs = [col \in Col |-> ihs[col]]
    BY <1>1, Zenon
  <2> QED BY <2>1, <2>2, Zenon
<1>7. \A s \in Session : stmt[s] = Idle /\ write_set[s] = <<>>
  BY <1>1, Zenon
<1>8. SType
  <2>1. stmt \in [Session -> Statement] /\ write_set \in [Session -> Seq(WriteRecord)]
    BY <1>1, IdleIs
  <2> QED BY <1>1, <1>2, <1>3, <1>6, <2>1, Zenon DEF SType
<1>9. Locked /\ Builds
  BY <1>7, IdleIs DEF Locked, Builds, Active, Executing
<1>15. Unopened = {}
  BY <1>7, IdleIs, Zenon DEF Unopened
<1>10. Opened
  BY <1>1, <1>4, <1>5, <1>15, Zenon DEF Opened
<1>11. Statements
  BY <1>7, IdleIs, Zenon DEF Statements
<1>12. Watched = Range(indexes) /\ Range(indexes) \subseteq Col
  BY <1>1, <1>2, RangeIn, Zenon DEF Watched
<1>13. History
  <2>1. \A col \in Range(indexes) : UniqueOn(heap, col)
    BY <1>1, Zenon DEF Range
  <2>2. LeadsBack(<<>>, heap, heap, Range(indexes))
    BY <1>3, <2>1, NoWritesYet, Zenon
  <2>3. Writes = <<>>
    BY <1>1, ConstantsDistinct, Zenon DEF Writes
  <2> QED BY <1>1, <1>12, <2>2, <2>3, Zenon DEF History
<1>14. Indexed
  <2>1. \A col \in Watched : IndexExact(ihs[col], col, heap, leaked)
    BY <1>1, <1>4, <1>5, <1>12, Zenon
  <2> QED BY <1>1, <2>1, Zenon DEF Indexed
<1> QED BY <1>8, <1>9, <1>10, <1>11, <1>13, <1>14, Zenon DEF SBody

\* Every step keeps the invariant.
LEMMA NextKeeps == SInv /\ [Next]_vars => SInv'
<1> SUFFICES ASSUME SInv, [Next]_vars, Calm' PROVE SBody'
  BY Zenon DEF SInv
<1>1. Calm /\ SBody
  <2>1. overlap \subseteq overlap'
    BY OverlapGrows, Zenon
  <2>2. Calm
    BY <2>1, Zenon DEF Calm
  <2> QED BY <2>2, Zenon DEF SInv
<1>2. CASE UNCHANGED vars
  <2>1. /\ exists' = exists /\ heap' = heap /\ indexes' = indexes /\ ihs' = ihs
        /\ holder' = holder /\ write_set' = write_set /\ stmt' = stmt
        /\ committed' = committed /\ leaked' = leaked /\ overlap' = overlap
    BY <1>2, Zenon DEF vars, tableVars
  <2>2. /\ Watched' = Watched /\ Writes' = Writes /\ Records' = Records /\ Unopened' = Unopened
        /\ \A s \in Session : Active(s)' <=> Active(s)
    BY <2>1, Zenon DEF Watched, Writes, Records, Unopened, Active, Executing
  <2>3. SType' /\ Locked' /\ Opened'
    BY <1>1, <2>1, <2>2, Zenon DEF SBody, SType, Locked, Opened
  <2>4. Statements' /\ History' /\ Indexed'
    BY <1>1, <2>1, <2>2, Zenon DEF SBody, Statements, History, Indexed
  <2>5. Builds'
    BY <1>1, <2>1, <2>2, Zenon DEF SBody, Builds
  <2> QED BY <2>3, <2>4, <2>5, Zenon DEF SBody
<1>3. ASSUME NEW s \in Writer,
             \/ ConstructInsert(s) \/ ConstructDelete(s) \/ ConstructUpdate(s)
             \/ InsertNext(s) \/ DeleteNext(s) \/ UpdateNext(s) \/ NextOnDropped(s)
             \/ commit(s) \/ abort(s) \/ Undo(s) \/ EndUndo(s)
      PROVE  SBody'
  <2>1. indexes \in Seq(Col) /\ Records \subseteq Rid
    BY <1>1, Zenon DEF SBody, SType, Records
  <2>2. CASE ConstructInsert(s)
    <3>1. PICK row \in Row : Construct(s, [op |-> "insert", cols |-> indexes, row |-> row])
      BY <2>2, Zenon DEF ConstructInsert
    <3> DEFINE what == [op |-> "insert", cols |-> indexes, row |-> row]
    <3>2. what \in Statement /\ what.op = "insert" /\ what.cols = indexes
      BY <2>1, Zenon DEF Statement, Inserting
    <3> HIDE DEF what
    <3>3. Construct(s, what)
      BY <3>1, Zenon DEF what
    <3> QED BY <1>1, <3>2, <3>3, ConstructKeeps
  <2>3. CASE ConstructDelete(s)
    <3>1. PICK rids \in (SUBSET Records) \ {{}} :
             Construct(s, [op |-> "delete", cols |-> indexes, rids |-> rids])
      BY <2>3, Zenon DEF ConstructDelete
    <3> DEFINE what == [op |-> "delete", cols |-> indexes, rids |-> rids]
    <3>2. what \in Statement /\ what.op = "delete" /\ what.cols = indexes /\ what.rids = rids
      BY <2>1, Zenon DEF Statement, Deleting
    <3> HIDE DEF what
    <3>3. Construct(s, what)
      BY <3>1, Zenon DEF what
    <3>4. what.rids # {} /\ what.rids \subseteq Records
      BY <3>2, Zenon
    <3> QED BY <1>1, <3>2, <3>3, <3>4, ConstructKeeps
  <2>4. CASE ConstructUpdate(s)
    <3>1. PICK rids \in (SUBSET Records) \ {{}}, col \in Col, key \in Key :
             Construct(s, [op |-> "update", cols |-> indexes, rids |-> rids,
                           col |-> col, key |-> key])
      BY <2>4, Zenon DEF ConstructUpdate
    <3> DEFINE what == [op |-> "update", cols |-> indexes, rids |-> rids,
                        col |-> col, key |-> key]
    <3>2. what \in Statement /\ what.op = "update" /\ what.cols = indexes /\ what.rids = rids
      BY <2>1, Zenon DEF Statement, Updating
    <3> HIDE DEF what
    <3>3. Construct(s, what)
      BY <3>1, Zenon DEF what
    <3>4. what.rids # {} /\ what.rids \subseteq Records
      BY <3>2, Zenon
    <3> QED BY <1>1, <3>2, <3>3, <3>4, ConstructKeeps
  <2>5. CASE NextOnDropped(s)
    BY <1>1, <2>5, Zenon DEF NextOnDropped, SBody, Locked, Session
  <2>6. CASE InsertNext(s) \/ DeleteNext(s) \/ UpdateNext(s)
    BY <1>1, <2>6, InsertNextKeeps, DeleteNextKeeps, UpdateNextKeeps
  <2>7. CASE commit(s) \/ abort(s) \/ Undo(s) \/ EndUndo(s)
    BY <1>1, <2>7, CommitKeeps, AbortKeeps, UndoKeeps, EndUndoKeeps
  <2> QED BY <1>3, <2>2, <2>3, <2>4, <2>5, <2>6, <2>7
<1>4. ASSUME NEW s \in Definer, NEW col \in Col, create_index(s, col) \/ drop_index(s, col)
      PROVE  SBody'
  BY <1>1, <1>4, CreateIndexKeeps, DropIndexKeeps
<1>5. ASSUME NEW s \in Definer,
             \/ BuildRecord(s) \/ BuildPublish(s) \/ BuildOpen(s)
             \/ Unlist(s) \/ drop_table(s) \/ DropBackIndex(s) \/ DropFile(s)
             \/ create_table(s)
      PROVE  SBody'
  <2>1. CASE BuildRecord(s) \/ BuildPublish(s) \/ BuildOpen(s)
    BY <1>1, <2>1, BuildRecordKeeps, BuildPublishKeeps, BuildOpenKeeps
  <2>2. CASE Unlist(s) \/ drop_table(s) \/ DropBackIndex(s) \/ DropFile(s) \/ create_table(s)
    BY <1>1, <2>2, UnlistKeeps, DropTableKeeps, DropBackIndexKeeps, DropFileKeeps, CreateTableKeeps
  <2> QED BY <1>5, <2>1, <2>2
<1> QED BY <1>2, <1>3, <1>4, <1>5, Zenon DEF Next


\* Until the first write record of a record, the record is as it was committed.
LEMMA TrailSame ==
    ASSUME NEW writes \in Seq(WriteRecord), NEW trail \in Seq(Heap), NEW from, NEW to,
           Trail(writes, trail, from, to), NEW rid \in Rid, NEW n \in 1 .. Len(writes) + 1,
           \A i \in 1 .. n - 1 : writes[i].rid # rid
    PROVE  trail[n][rid] = from[rid]
<1> DEFINE S == {k \in 1 .. n : trail[k][rid] # from[rid]}
<1> SUFFICES ASSUME S # {} PROVE FALSE
  BY DEF S
<1>1. Len(writes) \in Nat /\ S \in SUBSET Nat
  OBVIOUS
<1> DEFINE m == FirstOf(S)
<1>2. m \in S /\ \A k \in S : m <= k
  <2> HIDE DEF S
  <2> QED BY <1>1, FirstOfLeast
<1> HIDE DEF m
<1>3. m \in 1 .. n /\ m # 1
  BY <1>2 DEF Trail
<1>4. m - 1 \in 1 .. n - 1 /\ m - 1 \in 1 .. Len(writes) /\ (m - 1) + 1 = m /\ m - 1 \notin S
  <2>1. m - 1 \notin S
    <3> HIDE DEF S
    <3> QED BY <1>2, <1>3
  <2>2. m - 1 \in 1 .. n - 1 /\ m - 1 \in 1 .. Len(writes) /\ (m - 1) + 1 = m
    <3> HIDE DEF S
    <3> QED BY <1>1, <1>3
  <2> QED BY <2>1, <2>2
<1>5. Undoes(writes[m - 1], trail[m - 1], trail[m]) /\ writes[m - 1].rid # rid
  BY <1>4 DEF Trail
<1>6. trail[m] \in Heap /\ writes[m - 1] \in WriteRecord
  BY <1>1, <1>2, <1>4 DEF Trail
<1>7. trail[m - 1][rid] = trail[m][rid]
  BY <1>5, <1>6 DEF Undoes, Heap
<1> QED BY <1>2, <1>4, <1>7

\* The write records of one record.
WritesOf(writes, rid) == {i \in DOMAIN writes : writes[i].rid = rid}

\* What the write records say of one record.
LEMMA FirstWriteIsCommitted ==
    ASSUME NEW writes \in Seq(WriteRecord), NEW from, NEW to, NEW cols,
           LeadsBack(writes, from, to, cols), NEW rid \in Rid
    PROVE  /\ WritesOf(writes, rid) = {} => to[rid] = from[rid]
           /\ WritesOf(writes, rid) # {} =>
                 writes[FirstOf(WritesOf(writes, rid))].old = from[rid]
<1> DEFINE first == {i \in DOMAIN writes : writes[i].rid = rid}
           n == Len(writes)
<1>1. PICK trail \in Seq(Heap) : Trail(writes, trail, from, to)
  BY Zenon DEF LeadsBack
<1>2. n \in Nat /\ DOMAIN writes = 1 .. n /\ first \in SUBSET Nat /\ Len(trail) = n + 1
      /\ trail[n + 1] = to
  BY <1>1 DEF Trail
<1>3. ASSUME first = {} PROVE to[rid] = from[rid]
  <2>1. n + 1 \in 1 .. Len(writes) + 1 /\ \A i \in 1 .. (n + 1) - 1 : writes[i].rid # rid
    BY <1>2, <1>3
  <2>2. trail[n + 1][rid] = from[rid]
    BY <1>1, <2>1, TrailSame
  <2> QED BY <1>2, <2>2
<1>4. ASSUME first # {} PROVE writes[FirstOf(first)].old = from[rid]
  <2> DEFINE m == FirstOf(first)
  <2>1. m \in first /\ \A k \in first : m <= k
    <3> HIDE DEF first
    <3> QED BY <1>2, <1>4, FirstOfLeast
  <2> HIDE DEF m
  <2>2. m \in 1 .. n /\ writes[m].rid = rid
    BY <1>2, <2>1
  <2>3. \A i \in 1 .. m - 1 : writes[i].rid # rid
    <3> SUFFICES ASSUME NEW i \in 1 .. m - 1, writes[i].rid = rid PROVE FALSE
      OBVIOUS
    <3>1. i \in first /\ i < m
      BY <1>2, <2>2
    <3> HIDE DEF first
    <3> QED BY <1>2, <2>1, <2>2, <3>1
  <2>4. m \in 1 .. Len(writes) + 1
    BY <1>2, <2>2
  <2>5. trail[m][rid] = from[rid]
    BY <1>1, <2>3, <2>4, TrailSame
  <2>6. Undoes(writes[m], trail[m], trail[m + 1]) /\ trail[m + 1] \in Heap
    BY <1>1, <1>2, <2>2 DEF Trail
  <2>7. trail[m][rid] = writes[m].old
    BY <2>2, <2>6, Zenon DEF Undoes, Heap
  <2> QED BY <2>5, <2>7 DEF m
<1> QED BY <1>3, <1>4 DEF WritesOf

-----------------------------------------------------------------------------
(* Theorems.                                                               *)

\* The inductive invariant of executors, rollback and DDL on one table.
THEOREM SInvariance == Spec => []SInv
<1>1. Init => SInv
  BY InitBody, Zenon DEF SInv
<1> QED BY <1>1, NextKeeps, PTL DEF Spec

\* InsertExecutor and UpdateExecutor with the undo of abort never leave two
\* records with one key of an index, and CREATE INDEX refuses such a table.
THEOREM KeysUniqueHold == Spec => []KeysUnique
<1>1. SInv => KeysUnique
  BY UniqueHeap, Zenon DEF SInv, Calm, KeysUnique, Watched
<1> QED BY <1>1, SInvariance, PTL

\* Every index in ihs_ and the record file agree through every executor,
\* rollback and index build, but for the entries a refused INSERT leaves.
THEOREM IndexExactHolds == Spec => []IndexExactUnlessLeaked
<1>1. SInv => IndexExactUnlessLeaked
  <2> SUFFICES ASSUME SInv, overlap = {}, NEW col \in Range(indexes) \ Unopened, NEW key \in Key,
                      <<col, key>> \notin leaked
               PROVE  ihs[col][key] = EntriesOf(heap, col)[key]
    BY Zenon DEF IndexExactUnlessLeaked
  <2>1. SBody
    BY Zenon DEF SInv, Calm
  <2>2. col \in Watched /\ col \in Col /\ heap \in Heap
    BY <2>1, RangeIn DEF Watched, SBody, SType
  <2>3. UniqueOn(heap, col) /\ EntryExact(ihs[col], col, key, heap, leaked)
    BY <2>1, <2>2, UniqueHeap, Zenon DEF SBody, Indexed, IndexExact
  <2>4. EntryExact(EntriesOf(heap, col), col, key, heap, {})
    BY <2>2, EntriesOfIs, Zenon DEF IndexExact
  <2>5. EntriesOf(heap, col)[key] \in Rid \cup {Absent}
    BY <2>2, EntriesOfIs DEF Entries
  <2>6. ihs[col][key] \in Rid \cup {Absent}
    BY <2>1, <2>2 DEF SBody, SType, Opened, Entries
  <2> DEFINE e == ihs[col][key]
             f == EntriesOf(heap, col)[key]
  <2>7. e # Absent => e \in Rid /\ heap[e] # Absent /\ heap[e][col] = key
    BY <2>3, <2>6, Zenon DEF EntryExact
  <2>8. f # Absent => f \in Rid /\ heap[f] # Absent /\ heap[f][col] = key
    BY <2>4, <2>5, Zenon DEF EntryExact
  <2>9. e = Absent => f = Absent
    BY <2>3, <2>8, Zenon DEF EntryExact
  <2>10. f = Absent => e = Absent
    BY <2>4, <2>7, Zenon DEF EntryExact
  <2> HIDE DEF e, f
  <2>11. e = f
    BY <2>3, <2>7, <2>8, <2>9, <2>10, Zenon DEF UniqueOn
  <2> QED BY <2>11, Zenon DEF e, f
<1> QED BY <1>1, SInvariance, PTL

\* A CREATE INDEX beside a transaction disturbs neither its write set nor its
\* rollback, unless a loop over the indexes runs between tab.indexes.push_back
\* and ihs_.emplace.
THEOREM RollbackSurvivesHolds == Spec => []RollbackSurvivesUnlessUnopened
<1>1. SInv => RollbackSurvivesUnlessUnopened
  <2> SUFFICES ASSUME SBody
               PROVE  /\ \A s \in Session : stmt[s].op # "failed"
                      /\ \A rid \in Rid :
                            LET writers == {s \in Session : FirstWrites(s, rid) # {}}
                            IN  /\ writers = {} => heap[rid] = committed[rid]
                                /\ \A s \in writers :
                                      write_set[s][FirstOf(FirstWrites(s, rid))].old = committed[rid]
    BY Zenon DEF SInv, Calm, RollbackSurvivesUnlessUnopened
  <2>1. \A s \in Session : stmt[s].op # "failed"
    BY Zenon DEF SBody, Locked
  <2>2. ASSUME NEW rid \in Rid, \A s \in Session : FirstWrites(s, rid) = {}
        PROVE  heap[rid] = committed[rid]
    <3>1. Writes \in Seq(WriteRecord)
      <4>1. CASE holder \in Writer
        BY <4>1, Zenon DEF SBody, SType, Writes, Session
      <4>2. CASE holder \notin Writer
        BY <4>2 DEF Writes
      <4> QED BY <4>1, <4>2
    <3>2. LeadsBack(Writes, committed, heap, Watched)
      BY Zenon DEF SBody, History
    <3>3. WritesOf(Writes, rid) = {}
      <4>1. CASE holder \in Writer
        BY <2>2, <4>1, Zenon DEF Writes, FirstWrites, WritesOf, Session
      <4>2. CASE holder \notin Writer
        <5>1. Writes = <<>>
          BY <4>2, Zenon DEF Writes
        <5>2. Len(Writes) = 0
          BY <5>1, Zenon
        <5>3. DOMAIN Writes = 1 .. 0
          BY <3>1, <5>2
        <5> QED BY <5>3 DEF WritesOf
      <4> QED BY <4>1, <4>2
    <3> QED BY <3>1, <3>2, <3>3, FirstWriteIsCommitted
  <2>3. ASSUME NEW rid \in Rid, NEW s \in Session, FirstWrites(s, rid) # {}
        PROVE  write_set[s][FirstOf(FirstWrites(s, rid))].old = committed[rid]
    <3>1. write_set[s] \in Seq(WriteRecord)
      BY Zenon DEF SBody, SType
    <3>2. write_set[s] # <<>>
      BY <2>3 DEF FirstWrites
    <3>3. s \in Writer /\ Active(s)
      BY <3>2, Zenon DEF Active, SBody, Locked
    <3>4. LeadsBack(write_set[s], committed, heap, Watched)
      BY <3>3, WriterKnows, Zenon
    <3> QED BY <2>3, <3>1, <3>4, FirstWriteIsCommitted DEF FirstWrites, WritesOf
  <2> QED BY <2>1, <2>2, <2>3, Zenon
<1> QED BY <1>1, SInvariance, PTL

=============================================================================
