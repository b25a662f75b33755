# RMDB in TLA+

RMDB (`src/rmdb/src`) is a small relational DBMS in C++: a server with one
thread per client, transactions under no-wait two-phase locking, a write-ahead
log with redo/undo recovery, a buffer pool over plain files, heap files for
records and a unique B+ tree for indexes. This directory models it in TLA+,
checks the models with TLC and proves with TLAPS the invariants of seven of them (lock manager,
transactions, recovery, buffer pool, record file, schema, server) for all values of the constants.

## Inventory of the system

| Part | Code | Model |
| --- | --- | --- |
| Lock manager | `transaction/concurrency/lock_manager.*`, `transaction/txn_defs.h` | `LockManager` |
| Sessions and transaction manager | `rmdb.cpp` (`client_handler`, `SetTransaction`), `transaction/transaction_manager.*`, `portal.h` | `TransactionManager` |
| DML executors: locks, record changes, write sets, index entries | `execution/executor_{insert,delete,update,seq_scan}.h` | `TransactionManager` (locks, data), `WalRecovery` (logging order), `Schema` (several indexes) |
| Log and recovery | `recovery/log_manager.*`, `recovery/log_recovery.*` | `WalRecovery` |
| Buffer pool, LRU replacer, page I/O | `storage/buffer_pool_manager.*`, `replacer/lru_replacer.*`, `storage/disk_manager.cpp` | `BufferPool`, abstract: `PageStore` |
| Record file and scan | `record/rm_file_handle.*`, `record/rm_manager.h`, `record/rm_scan.cpp`, `record/bitmap.h` | `RmFile` |
| B+ tree index and index scan | `index/*`, `execution/executor_index_scan.h` | `BTree` |
| Query operators (scan, join, sort, limit, aggregate, projection) | `execution/*`, `portal.h` | `Query` |
| Analysis and planning of SELECT | `analyze/*`, `optimizer/*` | `Planner` (INT columns) |
| DDL, catalogue and files | `system/*`, `storage/disk_manager.cpp`, `index/ix_manager.h`, `record/rm_manager.h` | `Schema` (beside transactions), `Catalog` (crashes) |
| Server: accept loop, client threads, signals; client program | `rmdb.cpp`, `rmdb_client/main.cpp` | `Server` |
| SQL parser | `parser/*` (generated code included) | `Parser`, `ParserTables`, `Ast` |
| Values, conversion, dates | `common/common.h`, `analyze/analyze.cpp` | `Analyze` (INSERT, UPDATE, DELETE) |
| Result printing | `record_printer.h`, `common/context.h` | `RecordPrinter` |

The parts meet as follows. `client_handler` starts or continues a transaction
for each request, runs the statement, aborts on a `TransactionAbortException`
of the lock manager, reports any other error, and commits afterwards if the
transaction is not explicit. A statement locks its table in the constructor of
its executor (S for a scan, X for a change; UPDATE and DELETE scan first and
upgrade), changes records through `RmFileHandle`, which pins pages in the buffer
pool, and appends a log record and a write-set entry for each change. `commit`
writes COMMIT, then releases locks; `abort` undoes the write set, releases
locks, then writes ABORT. At the next start recovery reads the log and repairs
the record files, rebuilds indexes and free lists, flushes and empties the log.

## Modules

**`LockManager`.** `lock_table[id][t]` is the mode of `t`'s granted request in
the queue of `id`; a conflicting request throws at once, so queues hold nothing
else. `group_lock_mode`, `lock_set` and `state` are the C++ members. Each
`request_lock` and `unlock` runs under `latch_` and is one step. A record lock is
two requests; `pending` holds the second one, so other threads run in between.

**`TransactionManager`** (extends `LockManager`). One process per client thread;
`pc` is its place in `client_handler`, `stmt` the request with the rids its scan
has collected. `heap` is what the record files hold, `write_set` the undo
information. Each record visited by a scan, changed by a statement or restored
by a rollback, and each lock released, is a step of its own. `Disconnect` may
come whenever the thread reads or writes its socket. A unique-index violation
(`IndexExists`) may strike at any row of an INSERT or UPDATE. `committed` (changes
of committed transactions only) and `view` (what the open transaction first read)
are history variables. A statement on no record (`other`) stands for everything
that changes nothing here.

**`WalRecovery`.** One table under its X lock. `buf` is the table as the pool
serves it, `disk` the file, `log` the log file (`add_log_to_buffer` writes through
before it returns). INSERT changes the page and then logs, DELETE and UPDATE log
first, as in the executors; `Evict` may write a dirty page at any point; `Crash`
may come at any point, recovery included; `close_db` flushes all pages and keeps
the log. `Redone` and `Undone` are the bodies of the two loops of
`log_recovery.cpp`; they look at `has_record` and at the sets built by `analyze`,
nothing else. `committed`, `stolen` and `exposed` are history variables.

**`BufferPool`** and **`PageStore`.** Frames, page table, free list and LRU list as
in the code; every operation is one step under `latch_`, except that
`delete_all_pages` holds `latch` over the turns of its loop, during which clients
may still write through their pointers. Reads and write-backs may fail
(`MaxFaults`). `PageStore` is the promise to callers: a page's content changes only
through a client that has it pinned. `QuiescentClose` says whether files are closed
only while unused, which the callers of `delete_all_pages` do not ensure.

**`RmFile`.** One record file: headers, bitmaps, the free-page list threaded through
page headers, and the file header that reaches the disk only on close and at the
end of recovery. Records are present or not; contents belong to `WalRecovery`.
The X lock admits one transaction at a time, so there is one session. `log` holds
the changes that `redo` and `undo` do not skip (an ABORT record removes the changes
of its transaction from it), `base` the part that is committed. `next` is `RmScan::next`: the loop over the pages
(`next_slot` is one turn) around the loop of `Bitmap::next_bit` over the bits, both as recursive functions.

**`BTree`.** The pages of one unique index: keys, child and parent pointers and leaf
links as in `IxPageHdr`, with the root and the last leaf of `IxFileHdr`. An insert, a
delete and a scan are each one step, since the table lock (X or S) is held around them.
`Inserted` and `Deleted` are the functions of the code on the file: search, split,
`insert_into_parent` and `maintain_parent`, recursive where the code loops or recurses.
`delete_entry` merges nothing. `ScanFrom` runs an `IxScan` between two positions
and tells which keys it delivers and whether it throws. `content`, the set of keys,
is the reference. The rid of an entry always moves with its key and is left out.

**`Planner`** and **`Query`.** `Planner` holds pure operators: name resolution, index choice,
`pop_conds`, `push_conds`, the join tree of `make_one_rel` and the unary operators on top.
`Query` runs one SELECT: `start` analyses, plans and builds the executor tree, `beginTuple`,
`output` and `finish` are the loop of `select_from`. An executor is a record with the fields
of the C++ object, and a row a function from columns to values. The tables do not change
under the statement's S locks. A join buffers `BlockCapacity` left rows. `std::sort` may
order equal rows in any way, so `Begun` and `Nexts` are sets of executors. Exceptions set
`thrown`; a failed assertion of the index scan ends the server (`aborted`).
Ints have the width `INT_MAX`. A sum is a double, taken to be exact (it is for fewer than 2^22 ints), and cast to int at the
end: what the cast makes of a value that no int equals is undefined, and `StaticCastInt` gives the result of either kind of
machine. FROM may name a table twice; the scans are told apart by their place, as by `scantbl`, and the columns by name only,
as by `get_col`.
The reference (`Answer`) is a set comprehension over one row per table.

`RecordPrinter` is the client's buffer: a record is copied to it piece by piece while there is
room, and `ellipsis` is set when a piece is left out. `Query` prints header, rows and count with it.

**`Schema`.** One table with unique indexes on its columns. An executor copies the metadata when
it is built (`Construct*`) and works with the copy in `Next`; the X lock is `holder`. `InsertNext`,
`DeleteNext` and `UpdateNext` change record and entries in the order of the code, with the refusals
in the middle; `Undo` is one turn of the loop of `abort`. DDL takes no lock, so `create_index`,
`drop_index`, `drop_table` and `create_table` may run at any point of another session's transaction. `create_index` takes a
step per scanned record, one to list the index in `tab.indexes` (`BuildPublish`, `sm_manager.cpp:297`) and one to enter its handle in
`ihs_` (`BuildOpen`, line 301); `drop_index` takes the two out in the opposite order (`CloseIndex`, line 318, and `Unlist`, line 321).
In between the index is `Unopened`: a loop over `tab.indexes` comes to it and `ihs_.at` throws, in a statement or, half-way, in a
rollback. `leaked` and `overlap` are history variables: entries that a refused
INSERT leaves in the indexes before the one that refused it, and DDL beside an unfinished writer, with a mark of its own
(`"unopened"`) when a writer met such an index.

**`Catalog`.** Memory and files of a database. A statement is a script of file and catalogue
operations; `Step` performs the first, `Crash` may come before any of them. `flush_meta` is two
operations, since the `ofstream` empties `db.meta` when it is opened and writes when it is closed.
`Start` reads `db.meta` (`Readings`: an empty one leaves the number of tables uninitialised, which
may be zero or not), opens the files and runs recovery: redo by table *name*, rebuilding of every
index file, emptying of the log.

**`Server`.** The main thread in `start_server`, one thread per connection in `client_handler`,
the clients, and the connections as streams of segments. `sockfd_mutex` is locked by the main
thread and unlocked by the new one, `buffer_mutex` guards the parser's globals. `accept`,
`pthread_create` and `write` may fail, SIGINT and `safe_exit` end the loop.

**`Parser`**, **`ParserTables`**, **`Ast`**, **`Analyze`.** A request is a sequence of lexemes. `Parser` takes
the steps of `yyparse`: a lexeme scanned, a token shifted, a rule reduced, with bison's tables from
`yacc.tab.cpp` in `ParserTables` and the semantic actions as operators on `SemValue`s. What outlives
a request is kept: the start condition of the scanner, the values above the top of the value stack
within a parse, the globals of `ast.cpp`. `Ast` has the nodes and, as the reference, `Unparse`,
the text of a tree. `Analyze` is `do_analyze` on INSERT, UPDATE and DELETE: name lookup, conversion of
each literal to its column's type with the widths of the integers and the spacing of the floats,
dates, and the bytes that are stored. Numbers of FLOAT columns are counted in small units: `FloatOne` of them make 1,
`Decimal` is the last decimal that is printed, and beyond `FloatExact` units not every number is a float. A literal becomes the nearest float in the scanner
and is rounded again to the decimals when it is printed. (`atof` gives a double first; it is taken to be exact.)

`MC*` modules give the constants values for TLC; `*Proofs` and `*Inv` modules hold theorems and their lemmas.

Definitions named "Faulty variant" are never used by a specification. Each is a
plausible mistake in the definition after it; with that definition replaced by it,
TLC finds the named property violated, which shows that the property is sensitive
to the code it is about.

## Runs

| Run | Instance | Result |
| --- | --- | --- |
| `locks` | 3 threads, 1 table, 2 records | all properties hold |
| `transactions` | 2 sessions, 1 table, 2 records, 2 contents, 2 statements per transaction | all hold |
| `failed_statement` | as `transactions` | **violated**: partial UPDATE survives its error |
| `recovery` | 2 transactions, 1 record, 2 contents, up to 3 changes between two recoveries, 2 stops, pages written at any time | all hold |
| `buffer_pool` | 2 clients, 2 frames, 1 file of 3 pages, 1 fault, files closed while unused | invariants and refinement of `PageStore` hold |
| `record_file` | 2 pages of 2 slots, 3 changes per start, 2 stops | all hold |
| `btree` | 8 keys, order 3, up to 7 pages | all hold |
| `queries` | 1205 statements over 4 tables, 4 databases, ints of 4 bits, blocks of 2 rows, a buffer that fills up | all hold |
| `schema` | 1 writer, 1 definer, 2 columns, 2 keys, 2 records, 2 changes per transaction, 2 DDL statements | all hold |
| `catalog` | 2 tables, 2 indexes on one of them, 4 DDL statements, 2 crashes or shutdowns | all hold |
| `server` | 2 clients with 2 and 1 commands, 1 fault, fairness | invariants and liveness hold |
| `parser` | every statement form with lists of up to 2, damaged texts, comments, literals at the widths | all hold |

What the passing runs show:

- *Locks.* Granted modes are pairwise compatible; lock sets and queues agree, so
  the release loops are complete; table and record locks together exclude conflicting
  access although a record lock is two requests.
- *Transactions.* A record with an uncommitted change is X-locked by its writer
  (`DirtyIsLocked`); undoing the remaining write set youngest first gives back the
  committed content and always meets the record it expects (`RollbackExact`); everything an open transaction has read is still current
  (`ReadsStillCurrent`), which is repeatable read and, with the table locks, absence
  of phantoms.
- *Recovery.* After recovery the table is exactly the committed content unless the
  last stop met one of three situations (`Exposure`): a rollback that has released its locks and not logged ABORT
  while another transaction's change of the record is logged; a page on disk with
  the change of a transaction whose ABORT is logged; a page on disk with an INSERT
  that is not logged. TLC reaches all three.
- *Buffer pool.* No frame is lost or given out twice, pins protect pointers, a clean
  frame equals its page on disk, and nothing but a client's own change ever alters
  what a page holds, also when I/O fails.
- *Record file.* The free-page list is exact although `insert_record(rid)` only
  unlinks the head: a rollback is last-in first-out, so the page it fills is the head
  whenever it becomes full. After a crash that finds the header older than the pages
  redo creates the missing pages and the set of records is exact.
- *B+ tree.* `get_value` finds exactly the keys in the index, although separators are
  refreshed neither by an insert that splits nor by a delete that empties a leaf; parent
  and child pointers are inverse, so `find_child` never fails; a scan delivers its range exactly unless it meets an emptied leaf.
- *Queries.* A statement that ends has sent exactly the rows asked for (`AnswerExactUnlessTwice`), in order and
  with the least rows first under LIMIT (`AnswerOrdered`), and exact aggregates, whatever the order of the rows, unless the
  right value is no int (`AggregateExactUnlessWide`). When FROM names a table twice only the number of rows is right: a condition on it goes to one of its
  scans, and a column name finds that of one of them in the joined row. A statement whose columns exist fails only for a
  comparison of two columns of one table other than the first of FROM, or for a range whose
  bounds are crossed on an indexed column (`FailsOnlyIf`); TLC reaches both. The client gets the
  whole answer, or its beginning, the dots and the true number of rows, and the buffer is never
  exceeded (`SentWholeOrMarked`), although a row's last piece may be dropped without setting the flag.
- *Schema.* Index and records agree through refusals, rollbacks and index builds, except for entries
  leaked by a refused INSERT and for DDL beside a writer (`IndexExactUnlessLeaked`); keys stay unique
  (`KeysUnique`); a rollback completes and restores the committed records whatever indexes are created meanwhile, and
  two things can stop it: a DROP, and an index that it finds in `tab.indexes` while `create_index` has not yet entered it in
  `ihs_` (`RollbackSurvivesUnlessUnopened`). TLC reaches both: `ihs_.at` throws in `abort`, and the session keeps its locks.
- *Catalog.* Between statements catalogue, `db.meta`, files and handles agree (`CatalogExact`). A start
  fails only after a crash at one of three places: `db.meta` emptied and not yet written, a file unlinked and
  still in `db.meta`, an index destroyed and not yet rebuilt (`RestartOpensUnlessSplit`). A free name stays
  usable unless a crash hit a CREATE or a key was too long (`NameIsFreeUnlessOrphaned`). A table holds
  what was committed into it unless the log has records of a dropped table of its name
  (`RecordsExactUnlessReused`).
- *Server.* A thread gets its own connection (`HandOffExact`) and analyses its own tree
  (`AnalysesOwnTree`); a client sees its own answers as long as reads take whole messages
  (`AnswersMatchUnlessSplit`); only explicit transactions, or the end of a connection on write, leave
  a transaction open (`OpenOnlyIfExplicit`); commands are answered and the process ends when told to,
  unless `accept` has failed (`AllServedUnlessAcceptFailed`).
- *Parser.* An accepted tree says what the text says, with no value left over from another clause,
  except a LIMIT or length taken modulo (`ParsedAsWrittenUnlessNarrowed`); a well-formed text gives its tree whatever came
  before, unless a comment was left open (`WrittenIsParsed`); only blank requests, and what a comment swallowed, stay silent
  (`SilentOnlyIfBlank`); what INSERT and UPDATE store prints as it was written, or they are refused for a
  reason (`StoredAsWrittenUnlessRounded`).

**Bounds.** Three threads on the lock table let a third one meet the group mode left
by two others. Two sessions are enough for conflicts, for two readers that both
upgrade, and for a change made while another session rolls back.
Up to three changes in the log distinguish the orders of redo and undo; two contents distinguish
an old image from a new one; two stops cover a crash during recovery followed by
another recovery. Two frames for three pages force eviction with one page pinned.
Two pages of two slots give full, partly filled and empty pages and lists of length
zero to two; after each start another three changes are possible.
Order 3 is the least that `create_index` accepts; seven pages are four leaves under two
inner nodes and a root, so that an inner node has been split.
Four tables are the least for which two pairs are joined apart and meet later; three left
rows with blocks of two give a full and a partial block; the conditions come in every order.
A buffer of 290 characters holds header and some rows of small answers, so that it fills up in
rows, in separators and at the border of the count line. Two indexes are the least for an INSERT
that the second one refuses; two DDL statements give a drop and a new creation around a writer. Four DDL
statements drop and recreate a table with its index; two crashes hit a statement and the recovery after
it. Two clients let a thread be overtaken between any two locks; one with two commands can receive
the answer to the first for the second. The integers of the parser are of 4 and 6 bits, a float literal is
counted in sixths and printed in halves, and from 32 sixths on the floats are further apart: an int does not fit a float and an int64_t not
an int, as in the code. Ints of 4 bits in `queries` have both extremes in an index, sums that leave the range, and sums that leave it and come back. Two requests in
a row meet what the first one left.
`MaxStmts`, `MaxWrites`, `MaxCrashes`, `MaxLog`, `MaxPages`, `MaxNodes`, `MaxDdl`, `MaxCommands` and
`MaxFaults` are the bounds, all in guards. `schema` also has a constraint: after a DROP beside a writer, or a writer that met an
index in between, nothing is claimed, and such behaviours are followed only until that writer is done. Deadlock is
checked for locks, the buffer pool and the tree; the other
models end when all clients have gone or the bounds are used up.

**Fairness.** `server` assumes weak fairness of the main thread and of each client thread, which the
operating system's scheduler gives a runnable thread, and that a client takes an answer that
has arrived. Sending and quitting are never forced, and no fault is. No other run assumes fairness.

## Findings

`failed_statement`: UPDATE checks uniqueness row by row between changes (`executor_update.h:62`), against
`docs/stage6_guide.md:283`; the rows before the duplicate stay changed.

The named exceptions of the passing properties are departures that TLC reaches:

- `abort` releases locks before it logs ABORT (`transaction_manager.cpp:130`), against
  the rule in `docs/stage9_10_11_guide.md:228`; the first case of `Exposure`.
- Recovery skips aborted transactions altogether (`log_recovery.cpp:71`, `:108`), and
  rollbacks are not logged, so a stolen page keeps a rolled back change; the second case.
- INSERT changes the page before it logs (`executor_insert.h:56`, against
  `docs/stage9_10_11_guide.md:168`); the third case.
- `IxScan::next` steps into a leaf that deletes have emptied (`ix_scan.cpp:24`), and `get_rid`
  throws there although the range goes on; `docs/stage6_guide.md:116` expects
  `delete_entry` to merge. The functions that would merge are never called.
- `pop_conds` gives a comparison of two columns of one table to the first scan built
  (`planner.cpp:78`), although `docs/stage6_guide.md:212` expects each table's own conditions.
- A refused INSERT leaves entries in the indexes before the one that refused it (`executor_insert.h:69`).
- `create_index` lists an index before it has a handle (`sm_manager.cpp:297`, `:301`): a rollback of another session that runs
  in between throws half-way and keeps its locks.
- A table named twice in FROM is answered with the columns of one of its scans (`executor_abstract.h:47`).
- A SUM beyond the range of int is cast to int all the same (`executor_aggregate.h:105`).
- DDL neither locks nor logs, and orders its file operations so that a crash can split them
  (`sm_manager.cpp:109`, `:249`, `log_recovery.cpp:150`).
- After a failed `accept` the main thread waits for the mutex it holds (`rmdb.cpp:298`).

An implicit transaction is committed after it was aborted (`rmdb.cpp:235`, against
`docs/stage9_10_11_guide.md:42`), without harm as its write set is empty by then.

## Proofs

`LockManagerProofs` proves, for any sets of transactions, files and records, from the
one assumption that `NoRid` is no record position:

- `TypeCorrect`: the type invariant is inductive.
- `Invariance`: `IInv` is inductive. It joins the type invariant, the agreement of lock
  sets and queues, pairwise compatibility, the shape of record locks and the intention
  locks, for locks held *and* for the record request still pending. The last part is
  what makes it inductive: between the two requests of a record lock only the pending
  entry remembers why the table lock may not be weakened.
- From `IInv`: `GrantedCompatibleAlways`, `LockSetAgreesAlways`, `IntentionHeldAlways`,
  `NoImplicitConflictAlways`, `CoveredRequestGrantedAlways`, and the action properties
  `TwoPhaseLocking` and `UpgradeKeepsExclusionAlways`.

The proofs split a step into one request or one release (`NextCases`), describe the
effect of each on one cell of the lock table (`GrantEffect`, `ReleaseEffect`), and use
lemmas on the mode algebra (`combine` covers both operands, compatibility is symmetric).

`BufferPoolProofs` proves, for any number of frames, pages, files and clients, any number
of failing reads and writes, and for both values of `QuiescentClose`: `PoolTypeCorrect`,
`PageTableExactAlways` and `FramePartitionAlways`. The inductive invariant adds to these
that every mapped page has been allocated (`Allocated`); without it `new_page` could map a
page that a frame already holds. The lemmas on the lists (`TailEffect`, `AppendEffect`,
`PinEffect`, `UnpinEffect`) say what each list operation does to the set of its elements;
`RoomForAnother` is the pigeonhole argument that the length test of `LRUReplacer::unpin`
never drops a frame. `delete_all_pages` under users of the file keeps these two invariants
too; what it can break is `PinProtects`, which is stated for files closed while unused.

Its second half proves, with `QuiescentClose = TRUE` and finitely many clients, `PinProtectsAlways`,
`CleanIsOnDiskAlways` and `ImplementsStoreAlways`: the pool implements `PageStore`, initial states
to initial states and each step to a `Pin`, `Create`, `Change` or `Unpin` or to a stutter. The invariant `SInv`
adds to the one above that a pointer of a client is the frame the page is in, that `pin_count_` is the number
of clients that use the page, that the file has what the frame has unless the frame is dirty or a user has still to
unpin a change, that nobody uses a file that is being closed, and that a page not yet given out is zero in the file.

`TransactionManagerProofs` proves `DirtyIsLockedAlways`, `RollbackExactAlways`
and `ReadsStillCurrentAlways` for any number of sessions, tables, records and statements, on top of the
lemmas on the lock manager. `TMInv` says of each record: nobody's write set has it and it is committed, or one
transaction with X on the table has it and its write set leads back to the committed content
(`History`: the oldest change found the committed content, each younger one found a record where the one before it
left one); and whoever has read it holds at least S on its table and has read what is committed.
Compatibility of granted modes then excludes a second writer and a reader beside a writer. `History` is
needed because undo of a change is right only if what it meets is what that change left.

`WalRecoveryProofs` proves `RecoveryExactAlways` and `UndoMeetsItsChangeAlways` for any
number of transactions, records, pages, changes and crashes, of recovery itself included, with and without
stolen pages. `WInv` has two halves. While the server is up (`Running`), each record had some content
`base` when the log was emptied; each change in the log found what the earlier changes of transactions that are not rolled
back had left (`Linked`); the changes of committed transactions lead to the committed content, all that are not rolled back to the
present content (`Current`); the write set leads back (`Undoable`); and the page in the file has the
base, a committed content or one known to be stolen (`OnDiskFrom`). A change half done, in the page
or in the log only, is accounted for by `Now`. During recovery (`Recovering`) all of this is read from the log
alone. Redo may meet a page that is younger than the change it repeats; `Repeated` lists the ways in which
`has_record` can then skip changes, and `RedoEnd` shows that none of them survives to the end of the log.
Undo has the invariant that what is left is the changes up to the cursor and the committed ones.
`StopRecord` is where the three cases of `Exposure` are used: without them the first half implies the second.

`ServerProofs` proves `HandOffExactAlways`, `AnalysesOwnTreeAlways`, `OpenOnlyIfExplicitAlways` and
`AnswersMatchAlways` for any number of clients, commands and faults. Four invariants build on each other: a thread that
has not copied `sockfd` is the one it was set for and keeps the mutex locked (`HInv`); a thread between
lock and unlock of the parser owns the mutex, and the tree if it has just parsed (`AInv`); a thread that waits for a
request has an explicit transaction or none (`OInv`); and, for a connection on which every read took one whole message, at most one command or
answer is under way, and it is the client's latest (`Exchange` of `EInv`).

`RmFileInv` and `RmFileProofs` prove `RecordsExactHolds`, `FreeListExactHolds` and `ScanCompleteHolds` for any
number of pages, slots, changes and crashes, of recovery itself included. The free list is a function from positions
to pages, read from `top` to `bot` (`List`, `Chain`), so that `Push` and `Pop` at its head leave
every other position alone. A moment is a set of records together with such a list, and `RInv` says that the file went
through one moment per change in the log (`History`): `Between` tells what a change does to the records, and that
undoing it gives back a list that begins with the list of the moment before; pages created meanwhile come after it. This is the
reason why `insert_record` at a given position, which unlinks a page only if it is the head, keeps the list exact during a rollback:
the page filled by the undo is the one that the youngest change put there. `Link` ties the present file to a moment: the last one while
clients are served, the one at the cursor during rollback and undo. During redo the pages on disk may be of different
ages; `Redone` says that a record whose change has been passed is as after the last change passed, and that a record the log
never names is as it was at the start. The list is not claimed there: `rebuild_free_page_list` makes it anew.
The first module has the pages, the lists, the invariant and the steps of the session, the second write-backs, stops, recovery and the
theorems. `FreeListExact` follows pointers by a recursive function, whose values are established for every position. The loops of the
scan are recursive functions too. Such a function is one that satisfies its equation, so it is first shown that there is one (`LoopExists`) and then what
any of them returns (`LoopFinds`): the first position at which the loop stops. `NextBit` and `NextPage` apply this to `Bitmap::next_bit` and to the pages, `NextRecord` joins them, and
`ScanComplete` counts the calls.

`SchemaProofs` proves `KeysUniqueHold`, `IndexExactHolds` and `RollbackSurvivesHolds` for any number of sessions,
columns, keys, records and statements. `SInv` holds while no DROP has run beside an unfinished writer and no writer has met an unopened index (`Calm`). A session
with changes holds the lock of the table (`Locked`), the copy of the metadata in an executor is still that of the table unless
an index was created meanwhile (`Statements`), and the write set of the holder leads back: there is a trail of tables from the committed one to the present one,
each undone to the one before by its write record, and on *every* table of the trail each index has unique keys (`History`).
The last part is what makes the invariant inductive. An undo enters a key into an index and `insert_entry` does nothing when the key is taken, so that
an index stays exact in a rollback only if the older table had no duplicate either. An index being built
has the entries of the records the scan has passed, and keeps them until it is opened (`Builds`); exactly the indexes of the table that are not `Unopened` have a handle (`Opened`). Entries that a refused INSERT left are followed
in `leaked` and excepted key by key (`EntryExact`).

In these two developments induction over data is by the least number that would be a counterexample
(`MinLeast`, `FirstOfLeast`, from the well-foundedness of the natural numbers in `WellFoundedInduction`), as the induction theorems that take a predicate
cannot be instantiated.

The assumptions are the named ones of the modules: the stand-ins for "nothing" (`NoRid`, `None`, `NoFd`,
`Absent`, `Unseen`) are no values, the bounds are natural numbers, the zero page is a content, a pool has at least one frame and finitely
many clients. The parts of the inductive invariants that TLC can evaluate were checked with it on small instances before they were proved.
Many leaves name `Zenon`: the step is first-order, and the SMT translation of its context takes longer
than the proof.

The type invariants, `IntentionHeld`, `CoveredRequestGranted`, `TwoPhase` and `UpgradeKeepsExclusion`
are proved and have no run of their own.

Only model-checked:

- `AllServedUnlessAcceptFailed`: liveness under fairness is out of the prover's reach;
- `BTree`, `Planner` and `Query`: recursive operators, and what they compute is an induction over trees and plans;
- `Parser`: the reference `Unparse` is an induction over syntax trees;
- `Catalog`: scripts of file operations are folded over sequences of tables and indexes; its invariants are not proved.

## Not modelled

- The plans of DML and DDL statements in `do_planner`: they copy the query into a plan node.
- Column types other than INT in `Planner` and `Query`.
- SHOW TABLES, SHOW INDEX and DESC: they change nothing. They print no count line, so
  the promise of `SentWholeOrMarked` does not extend to them. The shortening of a cell to its column's width and
  `output.txt` are left out too.
- The scanner's automaton on characters (a text is a sequence of lexemes) and the growth of bison's stacks.
- Record encoding in the log (a record is written whole or counts as absent, as `analyze` ignores a torn
  tail), LSNs (`redo` and `undo` do not look at them), timestamps (unused), page-level torn writes.
- The merging functions of the B+ tree, which are never called, and the reuse of file descriptors.
- Two DDL statements at once, `close_db` beside running statements, and a reader of `tab.indexes` or `ihs_` while another thread is inside `push_back`,
  `emplace` or `erase`: they race on C++ containers, which is undefined behaviour without a bound on its outcomes. The steps
  of `Schema` are those between such calls.
