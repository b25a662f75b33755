------------------------------- MODULE Schema -------------------------------
(***************************************************************************)
(* A table with unique indexes, changed by executors that run inside       *)
(* transactions and by DDL statements that take no lock: insert, delete    *)
(* and update of executor_*.h, abort of transaction_manager.cpp and the    *)
(* create and drop operations of sm_manager.cpp.                           *)
(*                                                                         *)
(* The X lock of the table is one variable: LockManager and                *)
(* TransactionManager model how it is granted and released.  An executor   *)
(* copies the table's metadata when it is built and works with that copy   *)
(* in Next; another session's statement may run in between.  An index is   *)
(* named by its column and maps a key to a rid, which BTree establishes.   *)
(* CREATE INDEX lists the index in tab.indexes before it is in ihs_, and   *)
(* DROP INDEX takes it out of ihs_ first: in between, a loop over          *)
(* tab.indexes finds an index that ihs_.at does not.                       *)
(* One DDL statement runs at a time: two would race on the maps fhs_,      *)
(* ihs_ and tabs_ themselves.  The maps and vectors are atomic here: what  *)
(* a reader finds while another thread is inside push_back or erase is     *)
(* left out.                                                               *)
(***************************************************************************)
EXTENDS Naturals, Sequences, FiniteSets, Functions

CONSTANTS
    Writer,     \* client threads that change records
    Definer,    \* client threads that send DDL
    None,       \* no session
    MaxRid,     \* slots of the record file
    Col,        \* columns
    Key,        \* contents of a column
    Absent,     \* a free slot, a key without an entry
    NotOpen,    \* an index that is not in ihs_
    MaxWrites,  \* bound: write records of one transaction
    MaxDdl      \* bound: DDL statements

ASSUME BoundsAssumption == MaxRid \in Nat /\ MaxWrites \in Nat /\ MaxDdl \in Nat
ASSUME ConstantsDistinct ==
    /\ None \notin Writer
    /\ Absent \notin [Col -> Key] /\ Absent \notin 1 .. MaxRid
    /\ NotOpen \notin [Key -> 1 .. MaxRid \cup {Absent}]

VARIABLES
    exists,     \* the table is in tabs_ and fhs_
    heap,       \* its records
    indexes,    \* tab.indexes: indexed columns, in the order of creation
    ihs,        \* ihs_: the entries of each open index
    holder,     \* the session with the X lock on the table's fd
    write_set,  \* write_set_ of the session's transaction, oldest first
    stmt,       \* the statement each session executes
    ddl,        \* DDL statements so far (bounds the model)
    committed,  \* history: the changes of committed transactions only
    leaked,     \* history: entries a refused INSERT left in an index
    overlap     \* history: DDL that ran beside an unfinished writer, and
                \*   "unopened" once a writer met an index that is in between

tableVars == <<exists, heap, indexes, ihs>>
vars == <<tableVars, holder, write_set, stmt, ddl, committed, leaked, overlap>>

Session == Writer \cup Definer
Rid == 1 .. MaxRid
Row == [Col -> Key]
Empty == [key \in Key |-> Absent]
Records == {rid \in Rid : heap[rid] # Absent}
Idle == [op |-> "idle"]
back(writes) == writes[Len(writes)]
pop_back(writes) == SubSeq(writes, 1, Len(writes) - 1)
erase(cols, i) == SubSeq(cols, 1, i - 1) \o SubSeq(cols, i + 1, Len(cols))

\* The entries of an index that is exact.
EntriesOf(table, col) ==
    [key \in Key |->
        LET rids == {rid \in Rid : table[rid] # Absent /\ table[rid][col] = key}
        IN  IF rids = {} THEN Absent ELSE CHOOSE rid \in rids : TRUE]

UniqueOn(table, col) ==
    \A r1, r2 \in Rid :
        table[r1] # Absent /\ table[r2] # Absent /\ r1 # r2 => table[r1][col] # table[r2][col]

\* Some session has an executor or changes that are not committed.
Executing(s) == stmt[s].op \in {"insert", "delete", "update"}
Writing(s) == Executing(s) \/ stmt[s].op = "undo" \/ write_set[s] # <<>>

\* Sessions inside a DDL statement that creates, or that drops.
Creating == {s \in Session : stmt[s].op \in {"build", "publish"}}
Dropping == {s \in Session : stmt[s].op \in {"unlist", "drop table"}}

\* Indexes that are in tab.indexes and not, or no more, in ihs_.
Unopened == {stmt[s].col : s \in {s \in Session : stmt[s].op \in {"publish", "unlist"}}}

\* Leaked entries that are still there.
StillLeaked(open) == {e \in leaked : open[e[1]] # NotOpen /\ open[e[1]][e[2]] # Absent}

-----------------------------------------------------------------------------
(* IxIndexHandle: an entry is inserted if the key has none, and deleted by *)
(* key alone.  A loop over the indexes of a table visits each of them      *)
(* once, so what it does to them is one function of the column.            *)

insert_entry(entries, key, rid) == [entries EXCEPT ![key] = IF @ = Absent THEN rid ELSE @]

delete_entry(entries, key) == [entries EXCEPT ![key] = Absent]

Entered(open, cols, row, rid) ==
    [col \in Col |-> IF col \in cols THEN insert_entry(open[col], row[col], rid) ELSE open[col]]

Removed(open, cols, row) ==
    [col \in Col |-> IF col \in cols THEN delete_entry(open[col], row[col]) ELSE open[col]]

\* Move a record's entry in every index whose key changes.
Rekey(open, cols, rid, old, new) ==
    [col \in Col |-> IF col \in cols /\ old[col] # new[col]
                     THEN insert_entry(delete_entry(open[col], old[col]), new[col], rid)
                     ELSE open[col]]

\* The indexes that a loop over cols has done when it ends at the first stop.
Passed(cols, stops) == {cols[i] : i \in {i \in DOMAIN cols : \A j \in stops : i < j}}

\* The index for which ihs_.at throws there, if that is why the loop ends.
Missed(cols, stops) ==
    {cols[i] : i \in {i \in stops : (\A j \in stops : i <= j) /\ ihs[cols[i]] = NotOpen}}

Met(missed) == overlap' = overlap \cup {"unopened" : col \in missed \cap Unopened}

-----------------------------------------------------------------------------
(* Executors.                                                              *)

\* The constructor: metadata copied, then the X lock.  A request that another
\* session's lock refuses aborts the transaction: TransactionManager.  A
\* DELETE or UPDATE has collected its rids under the S lock.
Construct(s, what) ==
    /\ stmt[s] = Idle
    /\ exists
    /\ Len(write_set[s]) < MaxWrites
    /\ holder \in {None, s}
    /\ holder' = s
    /\ stmt' = [stmt EXCEPT ![s] = what]
    /\ overlap' = overlap \cup {"create" : c \in Creating} \cup {"drop" : c \in Dropping}
    /\ UNCHANGED <<tableVars, write_set, ddl, committed, leaked>>

ConstructInsert(s) ==
    \E row \in Row : Construct(s, [op |-> "insert", cols |-> indexes, row |-> row])

ConstructDelete(s) ==
    \E rids \in (SUBSET Records) \ {{}} :
        Construct(s, [op |-> "delete", cols |-> indexes, rids |-> rids])

ConstructUpdate(s) ==
    \E rids \in (SUBSET Records) \ {{}}, col \in Col, key \in Key :
        Construct(s, [op |-> "update", cols |-> indexes, rids |-> rids,
                      col |-> col, key |-> key])

\* Where the loop of InsertExecutor::Next over its copy of tab_.indexes ends
\* early: ihs_.at throws for an index that was dropped meanwhile or is not
\* open yet, and a key for which get_value finds an entry is refused.
Refusals(cols, row) ==
    {i \in DOMAIN cols : ihs[cols[i]] = NotOpen \/ ihs[cols[i]][row[cols[i]]] # Absent}

FirstOf(rids) == CHOOSE rid \in rids : \A other \in rids : rid <= other

Outcome(cols, stops) ==
    IF stops = {} THEN "ok"
    ELSE IF ihs[cols[FirstOf(stops)]] = NotOpen THEN "missing" ELSE "taken"

Write(s, wtype, rid, old) ==
    write_set' = [write_set EXCEPT ![s] = Append(@, [wtype |-> wtype, rid |-> rid, old |-> old])]

\* InsertExecutor::Next.  A key that is taken: the record is removed, the
\* entries made so far are not.  A missing index: the record stays too, and
\* no write record tells of it.
InsertNext(s) ==
    LET what == stmt[s]
    IN  /\ what.op = "insert"
        /\ Records # Rid
        /\ \E rid \in {FirstOf(Rid \ Records)} :
           \E stops \in {Refusals(what.cols, what.row)} :
           \E out \in {Outcome(what.cols, stops)} :
              /\ ihs' = Entered(ihs, Passed(what.cols, stops), what.row, rid)
              /\ heap' = IF out = "taken" THEN heap ELSE [heap EXCEPT ![rid] = what.row]
              /\ IF out = "ok" THEN Write(s, "INSERT_TUPLE", rid, Absent)
                 ELSE UNCHANGED write_set
              /\ leaked' = IF out = "ok" THEN leaked
                           ELSE leaked \cup {<<col, what.row[col]>> :
                                             col \in {c \in Col : ihs'[c] # ihs[c]}}
              /\ Met(Missed(what.cols, stops))
        /\ stmt' = [stmt EXCEPT ![s] = Idle]
        /\ UNCHANGED <<exists, indexes, holder, ddl, committed>>

\* The statement after one turn of its loop over rids_.
Turned(s, rid) == IF stmt[s].rids = {rid} THEN Idle ELSE [stmt[s] EXCEPT !.rids = @ \ {rid}]

\* One turn of DeleteExecutor::Next.  The write record precedes the entries,
\* whose loop throws at a missing index.
DeleteNext(s) ==
    /\ stmt[s].op = "delete"
    /\ \E rid \in {FirstOf(stmt[s].rids)} :
       \E stops \in {{i \in DOMAIN stmt[s].cols : ihs[stmt[s].cols[i]] = NotOpen}} :
          /\ Write(s, "DELETE_TUPLE", rid, heap[rid])
          /\ ihs' = Removed(ihs, Passed(stmt[s].cols, stops), heap[rid])
          /\ heap' = IF stops = {} THEN [heap EXCEPT ![rid] = Absent] ELSE heap
          /\ stmt' = [stmt EXCEPT ![s] = IF stops = {} THEN Turned(s, rid) ELSE Idle]
          /\ Met(Missed(stmt[s].cols, stops))
    /\ leaked' = StillLeaked(ihs')
    /\ UNCHANGED <<exists, indexes, holder, ddl, committed>>

\* Faulty variant: an UPDATE does not ask whether the new key is taken.
AcceptsAny(cols, old, new) == \A i \in DOMAIN cols : ihs[cols[i]] # NotOpen

\* The first loop of UpdateExecutor::Next: every index is there and none has
\* the new key.
Accepts(cols, old, new) ==
    \A i \in DOMAIN cols :
        /\ ihs[cols[i]] # NotOpen
        /\ old[cols[i]] # new[cols[i]] => ihs[cols[i]][new[cols[i]]] = Absent

\* One turn of UpdateExecutor::Next.
UpdateNext(s) ==
    LET what == stmt[s]
    IN  /\ what.op = "update"
        /\ \E rid \in {FirstOf(what.rids)} :
           \E new \in {[heap[rid] EXCEPT ![what.col] = what.key]} :
              IF Accepts(what.cols, heap[rid], new)
              THEN /\ Write(s, "UPDATE_TUPLE", rid, heap[rid])
                   /\ ihs' = Rekey(ihs, Range(what.cols), rid, heap[rid], new)
                   /\ heap' = [heap EXCEPT ![rid] = new]
                   /\ stmt' = [stmt EXCEPT ![s] = Turned(s, rid)]
              ELSE /\ stmt' = [stmt EXCEPT ![s] = Idle]
                   /\ UNCHANGED <<heap, ihs, write_set>>
        /\ leaked' = StillLeaked(ihs')
        /\ UNCHANGED <<exists, indexes, holder, ddl, committed, overlap>>

\* Next of an executor whose table was dropped reads a deleted fh_.
NextOnDropped(s) ==
    /\ stmt[s].op = "dangling"
    /\ stmt' = [stmt EXCEPT ![s] = [op |-> "failed"]]
    /\ UNCHANGED <<tableVars, holder, write_set, ddl, committed, leaked, overlap>>

-----------------------------------------------------------------------------
(* The end of a transaction.                                               *)

commit(s) ==
    /\ stmt[s] = Idle
    /\ holder = s
    /\ committed' = heap
    /\ write_set' = [write_set EXCEPT ![s] = <<>>]
    /\ holder' = None
    /\ UNCHANGED <<tableVars, stmt, ddl, leaked, overlap>>

abort(s) ==
    /\ stmt[s] = Idle
    /\ holder = s
    /\ stmt' = [stmt EXCEPT ![s] = [op |-> "undo"]]
    /\ UNCHANGED <<tableVars, holder, write_set, ddl, committed, leaked, overlap>>

\* Where the loop of abort over the indexes the table has now throws.  The
\* undo of an UPDATE asks only for indexes whose key it changes.
Throws(write) ==
    {i \in DOMAIN indexes :
        /\ ihs[indexes[i]] = NotOpen
        /\ write.wtype = "UPDATE_TUPLE" => heap[write.rid][indexes[i]] # write.old[indexes[i]]}

\* What one write record makes of the entries of the indexes the loop passes.
UndoneEntries(write, cols) ==
    CASE write.wtype = "INSERT_TUPLE" -> Removed(ihs, cols, heap[write.rid])
      [] write.wtype = "DELETE_TUPLE" -> Entered(ihs, cols, write.old, write.rid)
      [] write.wtype = "UPDATE_TUPLE" -> Rekey(ihs, cols, write.rid, heap[write.rid], write.old)

\* Faulty variant: rollback forgets the indexes.
UndoHeapOnly(s) ==
    /\ stmt[s].op = "undo" /\ write_set[s] # <<>>
    /\ heap' = [heap EXCEPT ![back(write_set[s]).rid] = back(write_set[s]).old]
    /\ write_set' = [write_set EXCEPT ![s] = pop_back(@)]
    /\ UNCHANGED <<exists, indexes, ihs, holder, stmt, ddl, committed, leaked, overlap>>

\* Faulty variant: the write set is undone from its front.
UndoOldestFirst(s) ==
    /\ stmt[s].op = "undo" /\ write_set[s] # <<>>
    /\ heap' = [heap EXCEPT ![Head(write_set[s]).rid] = Head(write_set[s]).old]
    /\ write_set' = [write_set EXCEPT ![s] = Tail(@)]
    /\ UNCHANGED <<exists, indexes, ihs, holder, stmt, ddl, committed, leaked, overlap>>

\* One turn of the loop of abort.  get_table throws if the table is gone,
\* get_record if the record is, ihs_.at if an index of the table has no
\* handle, by then with a deleted record back in its place: nothing catches
\* it before the locks are released, and the session is left with them.
Undo(s) ==
    /\ stmt[s].op = "undo" /\ write_set[s] # <<>>
    /\ \E write \in {back(write_set[s])} :
          IF ~exists \/ (write.wtype # "DELETE_TUPLE" /\ heap[write.rid] = Absent)
          THEN /\ stmt' = [stmt EXCEPT ![s] = [op |-> "failed"]]
               /\ UNCHANGED <<heap, ihs, overlap>>
          ELSE \E stops \in {Throws(write)} :
               /\ ihs' = UndoneEntries(write, Passed(indexes, stops))
               /\ heap' = IF stops # {} /\ write.wtype # "DELETE_TUPLE" THEN heap
                          ELSE [heap EXCEPT ![write.rid] =
                             IF write.wtype = "DELETE_TUPLE" /\ @ # Absent THEN @ ELSE write.old]
               /\ stmt' = IF stops = {} THEN stmt ELSE [stmt EXCEPT ![s] = [op |-> "failed"]]
               /\ Met(Missed(indexes, stops))
    /\ write_set' = [write_set EXCEPT ![s] = pop_back(@)]
    /\ leaked' = StillLeaked(ihs')
    /\ UNCHANGED <<exists, indexes, holder, ddl, committed>>

EndUndo(s) ==
    /\ stmt[s].op = "undo" /\ write_set[s] = <<>>
    /\ holder' = IF holder = s THEN None ELSE holder
    /\ stmt' = [stmt EXCEPT ![s] = Idle]
    /\ UNCHANGED <<tableVars, write_set, ddl, committed, leaked, overlap>>

-----------------------------------------------------------------------------
(* DDL.                                                                    *)

MayDefine(s) ==
    /\ stmt[s] = Idle
    /\ ddl < MaxDdl
    /\ Creating = {} /\ Dropping = {}
    /\ ddl' = ddl + 1

Beside(kind) == overlap' = overlap \cup {kind : s \in {s \in Session : Writing(s)}}

\* RmScan: the first record after a position, 0 at the end.
NextRecord(rid) ==
    IF \E r \in Records : r > rid THEN FirstOf({r \in Records : r > rid}) ELSE 0

\* create_index up to the start of its scan.
create_index(s, col) ==
    /\ MayDefine(s)
    /\ exists
    /\ col \notin Range(indexes)
    /\ stmt' = [stmt EXCEPT ![s] = [op |-> "build", col |-> col, at |-> NextRecord(0),
                                    entries |-> Empty]]
    /\ Beside("create")
    /\ UNCHANGED <<tableVars, holder, write_set, committed, leaked>>

\* One record of the scan.  A key met twice, or a record that is gone when it
\* is read, ends the statement: the file is closed and destroyed.
BuildRecord(s) ==
    LET what == stmt[s]
    IN  /\ what.op = "build" /\ what.at # 0
        /\ stmt' = [stmt EXCEPT ![s] =
               IF heap[what.at] = Absent \/ what.entries[heap[what.at][what.col]] # Absent
               THEN Idle
               ELSE [what EXCEPT !.entries[heap[what.at][what.col]] = what.at,
                                 !.at = NextRecord(what.at)]]
        /\ UNCHANGED <<tableVars, holder, write_set, ddl, committed, leaked, overlap>>

\* tab.indexes.push_back: statements and rollbacks find the index from now on.
BuildPublish(s) ==
    /\ stmt[s].op = "build" /\ stmt[s].at = 0
    /\ indexes' = Append(indexes, stmt[s].col)
    /\ stmt' = [stmt EXCEPT ![s].op = "publish"]
    /\ UNCHANGED <<exists, heap, ihs, holder, write_set, ddl, committed, leaked, overlap>>

\* ihs_.emplace: its entries are those of the scan.
BuildOpen(s) ==
    /\ stmt[s].op = "publish"
    /\ ihs' = [ihs EXCEPT ![stmt[s].col] = stmt[s].entries]
    /\ stmt' = [stmt EXCEPT ![s] = Idle]
    /\ UNCHANGED <<exists, heap, indexes, holder, write_set, ddl, committed, leaked, overlap>>

\* The first half of drop_index: the index is closed and erased from ihs_.
\* The statement goes on as then says.
CloseIndex(s, col, then) ==
    /\ ihs' = [ihs EXCEPT ![col] = NotOpen]
    /\ leaked' = StillLeaked(ihs')
    /\ stmt' = [stmt EXCEPT ![s] = [op |-> "unlist", col |-> col, then |-> then]]
    /\ UNCHANGED <<exists, heap, indexes, holder, write_set, committed>>

drop_index(s, col) ==
    /\ MayDefine(s)
    /\ exists
    /\ col \in Range(indexes)
    /\ CloseIndex(s, col, "idle")
    /\ Beside("drop")

\* The second half: tab.indexes.erase.
Unlist(s) ==
    /\ stmt[s].op = "unlist"
    /\ \E i \in DOMAIN indexes : indexes[i] = stmt[s].col /\ indexes' = erase(indexes, i)
    /\ stmt' = [stmt EXCEPT ![s] = [op |-> stmt[s].then]]
    /\ UNCHANGED <<exists, heap, ihs, holder, write_set, ddl, committed, leaked, overlap>>

drop_table(s) ==
    /\ MayDefine(s)
    /\ exists
    /\ stmt' = [stmt EXCEPT ![s] = [op |-> "drop table"]]
    /\ Beside("drop")
    /\ UNCHANGED <<tableVars, holder, write_set, committed, leaked>>

\* drop_table drops every index first, the last one before the others.
DropBackIndex(s) ==
    /\ stmt[s].op = "drop table" /\ indexes # <<>>
    /\ CloseIndex(s, back(indexes), "drop table")
    /\ UNCHANGED <<ddl, overlap>>

\* Then the table.  Between fhs_.erase and tabs_.erase a statement or a
\* rollback fails as it does after them.
DropFile(s) ==
    /\ stmt[s].op = "drop table" /\ indexes = <<>>
    /\ exists' = FALSE
    /\ heap' = [rid \in Rid |-> Absent]
    /\ committed' = heap'
    /\ stmt' = [c \in Session |-> IF c = s THEN Idle
                                  ELSE IF Executing(c) THEN [op |-> "dangling"] ELSE stmt[c]]
    /\ UNCHANGED <<indexes, ihs, holder, write_set, ddl, leaked, overlap>>

\* A new table of the same name.  If its file gets the descriptor of the old
\* one, the locks held on that descriptor are locks on the new table.
create_table(s) ==
    /\ MayDefine(s)
    /\ ~exists
    /\ exists' = TRUE
    /\ holder' \in {holder, None}
    /\ UNCHANGED <<heap, indexes, ihs, write_set, stmt, committed, leaked, overlap>>

-----------------------------------------------------------------------------
Init ==
    /\ exists = TRUE
    /\ heap \in [Rid -> Row \cup {Absent}]
    /\ indexes \in {cols \in UNION {[1 .. n -> Col] : n \in 0 .. Cardinality(Col)} :
                      IsInjective(cols)}
    /\ \A i \in DOMAIN indexes : UniqueOn(heap, indexes[i])
    /\ ihs = [col \in Col |-> IF col \in Range(indexes) THEN EntriesOf(heap, col) ELSE NotOpen]
    /\ holder = None
    /\ write_set = [s \in Session |-> <<>>]
    /\ stmt = [s \in Session |-> Idle]
    /\ ddl = 0
    /\ committed = heap
    /\ leaked = {}
    /\ overlap = {}

Next ==
    \/ \E s \in Writer :
          \/ ConstructInsert(s) \/ ConstructDelete(s) \/ ConstructUpdate(s)
          \/ InsertNext(s) \/ DeleteNext(s) \/ UpdateNext(s) \/ NextOnDropped(s)
          \/ commit(s) \/ abort(s) \/ Undo(s) \/ EndUndo(s)
    \/ \E s \in Definer :
          \/ \E col \in Col : create_index(s, col) \/ drop_index(s, col)
          \/ BuildRecord(s) \/ BuildPublish(s) \/ BuildOpen(s) \/ Unlist(s)
          \/ drop_table(s) \/ DropBackIndex(s) \/ DropFile(s) \/ create_table(s)

Spec == Init /\ [][Next]_vars

-----------------------------------------------------------------------------
(* Properties.                                                             *)

\* Every open index leads from each key to the record that has it, and to
\* nothing else, through refused statements, rollbacks and index builds.  Two
\* things break this in the code and are excepted: the keys a refused INSERT
\* left in the indexes before the one that refused it, and DDL beside an
\* unfinished writer.
IndexExactUnlessLeaked ==
    overlap = {} => \A col \in Range(indexes) \ Unopened, key \in Key :
        <<col, key>> \notin leaked => ihs[col][key] = EntriesOf(heap, col)[key]

\* No two records share a key of an index, not even after refused INSERTs and
\* the rollback of deletes, unless DDL ran beside an unfinished writer.
KeysUnique == overlap = {} => \A col \in Range(indexes) : UniqueOn(heap, col)

FirstWrites(s, rid) == {i \in DOMAIN write_set[s] : write_set[s][i].rid = rid}

\* The write sets lead from the records back to the committed ones, and a
\* rollback that has begun completes and releases its lock.  A CREATE INDEX
\* beside a transaction does not disturb this, whenever it scans, publishes
\* and opens its index, but for one window, which is excepted: a statement or
\* rollback whose loop comes to an index that create_index has put into
\* tab.indexes and not yet into ihs_.  The other exception is a DROP beside
\* the transaction.
RollbackSurvivesUnlessUnopened ==
    overlap \subseteq {"create"} =>
        /\ \A s \in Session : stmt[s].op # "failed"
        /\ \A rid \in Rid :
              LET writers == {s \in Session : FirstWrites(s, rid) # {}}
              IN  /\ writers = {} => heap[rid] = committed[rid]
                  /\ \A s \in writers :
                        write_set[s][FirstOf(FirstWrites(s, rid))].old = committed[rid]

=============================================================================
