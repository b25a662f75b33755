------------------------------ MODULE Catalog ------------------------------
(***************************************************************************)
(* The catalogue and the files of a database: create_db, open_db,          *)
(* close_db, flush_meta and the DDL of sm_manager.cpp, with the file       *)
(* operations of disk_manager.cpp, rm_manager.h and ix_manager.h that they *)
(* are made of, a crash between any two of them, and what recovery does to *)
(* files at the next start (log_recovery.cpp).                             *)
(*                                                                         *)
(* A statement is a script, the sequence of file and catalogue operations  *)
(* it performs in order; Step takes the first.  flush_meta is two of them: *)
(* the ofstream empties db.meta when it opens it and writes when it is     *)
(* destroyed.  A table file has room for one record, and the record tells  *)
(* which table of that name it was inserted into: born counts them.        *)
(***************************************************************************)
EXTENDS Naturals, Sequences, SequencesExt, FiniteSets

CONSTANTS
    Tab,         \* table names, each also the name of the table's file
    TabSeq,      \* the table names in the order of the map tabs_
    Index,       \* indexes, each also the name of its file
    TabOf,       \* the table of each index
    Log,         \* the name of the log file
    NoTab,       \* a name that is not in tabs_
    Torn,        \* db.meta while it is empty
    Absent,      \* a free slot
    MaxDdl,      \* bound: DDL statements
    MaxCrashes   \* bound: crashes and shutdowns

ASSUME TabSeqAssumption == ToSet(TabSeq) = Tab /\ Len(TabSeq) = Cardinality(Tab)
ASSUME FilesDistinct == Log \notin Tab \cup Index /\ Tab \cap Index = {}
ASSUME BoundsAssumption == MaxDdl \in Nat /\ MaxCrashes \in Nat

VARIABLES
    files,     \* the files of the directory, db.meta apart
    meta,      \* what db.meta says
    disk,      \* the record in each table file
    log,       \* the INSERT records of the log file, all of them committed
    db_,       \* the catalogue: the indexes of each table
    named,     \* db_.name_ is not empty
    handles,   \* fhs_ and ihs_
    path2fd_,  \* the files that are open
    buf,       \* the record of each table, as the buffer pool serves it
    mode,      \* "absent" before create_db, "dead" if a start failed
    doing,     \* the statement that runs
    done,      \* the operation it performed last
    todo,      \* the operations it has still to perform
    born,      \* history: how often a file of each table name was created
    committed, \* history: the record committed into the table of each name
    ddl,       \* DDL statements so far (bounds the model)
    crashes,   \* crashes and shutdowns so far (bounds the model)
    hits,      \* history: the statements crashes hit, and where
    reused     \* history: tables that recovery gave records of a dropped one

fileVars == <<files, meta, disk, log>>
memVars == <<db_, named, handles, path2fd_, buf>>
runVars == <<mode, doing, done, todo>>
history == <<born, committed>>
boundVars == <<ddl, crashes>>
vars == <<fileVars, memVars, runVars, history, boundVars, hits, reused>>

NoTables == [t \in Tab |-> NoTab]
Tables(cat) == {t \in Tab : cat[t] # NoTab}
FilesOf(cat) == Tables(cat) \cup UNION {ToSet(cat[t]) : t \in Tables(cat)}
Idle == mode = "up" /\ todo = <<>>

-----------------------------------------------------------------------------
(* Scripts.                                                                *)

Op(name, arg) == [do |-> name, arg |-> arg]

flush_meta == <<Op("truncate", Log), Op("write", Log)>>

CreateTable(t) ==
    <<Op("create", t), Op("tab+", t), Op("open", t), Op("handle+", t)>> \o flush_meta

\* The handle is published with the metadata, after the whole table has been
\* scanned.
CreateIndex(i) ==
    <<Op("create", i), Op("open", i), Op("idx+", i), Op("handle+", i)>> \o flush_meta

\* Faulty variant: the catch block closes the file and leaves it.
DuplicateKept(i) == <<Op("create", i), Op("open", i), Op("close", i)>>

\* A key occurs twice: the catch block closes and destroys the new file.
CreateIndexDuplicate(i) ==
    <<Op("create", i), Op("open", i), Op("close", i), Op("destroy", i)>>

DropIndex(i) ==
    <<Op("close", i), Op("handle-", i), Op("destroy", i), Op("idx-", i)>> \o flush_meta

\* Faulty variant: the indexes of the table are left behind.
DropTableOnly(t) ==
    <<Op("close", t), Op("handle-", t), Op("destroy", t), Op("tab-", t)>> \o flush_meta

\* Each index in turn from the back, with a flush_meta of its own, then the
\* table.
DropTable(t) ==
    FoldRight(LAMBDA i, acc : acc \o DropIndex(i), db_[t], <<>>)
        \o <<Op("close", t), Op("handle-", t), Op("destroy", t), Op("tab-", t)>> \o flush_meta

\* The ofstream is destroyed, and writes, when the function returns.
create_db == <<Op("truncate", Log), Op("create", Log), Op("write", Log)>>

\* Every table and its indexes, in the order of tabs_.
PerTable(cat, Script(_)) ==
    FoldLeft(LAMBDA acc, t : IF cat[t] = NoTab THEN acc ELSE acc \o Script(t), <<>>, TabSeq)

PerIndex(cat, Script(_)) ==
    PerTable(cat, LAMBDA t : FoldLeft(LAMBDA acc, i : acc \o Script(i), <<>>, cat[t]))

open_db(cat) ==
    PerTable(cat, LAMBDA t :
        FoldLeft(LAMBDA acc, f : acc \o <<Op("open", f), Op("handle+", f)>>, <<>>,
                 <<t>> \o cat[t]))

close_db(cat) ==
    PerIndex(cat, LAMBDA i : <<Op("close", i)>>) \o PerTable(cat, LAMBDA t : <<Op("close", t)>>)
        \o flush_meta

\* Faulty variant: the index is destroyed without being closed.
RebuildOpen(cat) ==
    PerIndex(cat, LAMBDA i :
        <<Op("destroy", i), Op("create", i), Op("open", i), Op("handle+", i)>>)

\* An index is destroyed, made anew, filled, closed and opened again.
rebuild_indexes(cat) ==
    PerIndex(cat, LAMBDA i :
        <<Op("close", i), Op("handle-", i), Op("destroy", i), Op("create", i),
          Op("open", i), Op("handle+", i), Op("close", i), Op("handle-", i),
          Op("open", i), Op("handle+", i)>>)

-----------------------------------------------------------------------------
(* Operations.                                                             *)

\* DiskManager throws: FileExistsError, FileNotClosedError, FileNotFoundError,
\* FileNotOpenError.
Throws(op) ==
    CASE op.do = "create" -> op.arg \in files
      [] op.do = "open" -> op.arg \in path2fd_ \/ op.arg \notin files
      [] op.do = "destroy" -> op.arg \in path2fd_ \/ op.arg \notin files
      [] op.do = "close" -> op.arg \notin path2fd_
      [] OTHER -> FALSE

Catalogued(op) ==
    CASE op.do = "tab+" -> [db_ EXCEPT ![op.arg] = <<>>]
      [] op.do = "tab-" -> [db_ EXCEPT ![op.arg] = NoTab]
      [] op.do = "idx+" -> [db_ EXCEPT ![TabOf[op.arg]] = Append(@, op.arg)]
      [] op.do = "idx-" -> [db_ EXCEPT ![TabOf[op.arg]] = SelectSeq(@, LAMBDA i : i # op.arg)]
      [] OTHER -> db_

With(set, cond, elem) == IF cond THEN set \cup {elem} ELSE set
Without(set, cond, elem) == IF cond THEN set \ {elem} ELSE set

Written == [named |-> named, cat |-> db_]

\* A table file is created empty; closing one writes its pages back.
Perform(op) ==
    /\ files' = With(Without(files, op.do = "destroy", op.arg), op.do = "create", op.arg)
    /\ path2fd_' = With(Without(path2fd_, op.do = "close", op.arg), op.do = "open", op.arg)
    /\ handles' = With(Without(handles, op.do = "handle-", op.arg), op.do = "handle+", op.arg)
    /\ db_' = Catalogued(op)
    /\ named' = named
    /\ meta' = CASE op.do = "truncate" -> Torn [] op.do = "write" -> Written [] OTHER -> meta
    /\ disk' = [t \in Tab |-> IF t # op.arg THEN disk[t]
                              ELSE CASE op.do = "close" -> buf[t]
                                     [] op.do = "create" -> Absent
                                     [] OTHER -> disk[t]]
    /\ buf' = [t \in Tab |-> IF t = op.arg /\ op.do = "open" THEN disk[t] ELSE buf[t]]
    /\ born' = [t \in Tab |-> IF t = op.arg /\ op.do = "create" THEN born[t] + 1 ELSE born[t]]
    /\ committed' = [t \in Tab |-> IF t = op.arg /\ op.do = "create" THEN Absent ELSE committed[t]]

\* The next operation of the statement.  If it throws, a DDL statement ends
\* where it is, and a start ends in exit(1).
Step ==
    /\ todo # <<>>
    /\ IF Throws(Head(todo))
       THEN /\ mode' = IF mode = "up" THEN "up" ELSE "dead"
            /\ todo' = <<>>
            /\ done' = "thrown"
            /\ UNCHANGED <<fileVars, memVars, history>>
       ELSE /\ Perform(Head(todo))
            /\ todo' = Tail(todo)
            /\ done' = Head(todo).do
            /\ UNCHANGED <<log, mode>>
    /\ UNCHANGED <<doing, boundVars, hits, reused>>

-----------------------------------------------------------------------------
(* Statements.                                                             *)

Run(name, script) ==
    /\ doing' = name
    /\ done' = "nothing"
    /\ todo' = script

Define(name, script) ==
    /\ Idle
    /\ ddl < MaxDdl
    /\ ddl' = ddl + 1
    /\ Run(name, script)
    /\ hits' = IF name = "too long" THEN hits \cup {<<name, "open">>} ELSE hits
    /\ UNCHANGED <<fileVars, memVars, mode, history, crashes, reused>>

\* The statements that is_table, get_table, is_index or get_index_meta refuse
\* change nothing.
create_table(t) == db_[t] = NoTab /\ Define("create_table", CreateTable(t))
drop_table(t) == db_[t] # NoTab /\ Define("drop_table", DropTable(t))
MayIndex(i) == db_[TabOf[i]] # NoTab /\ i \notin ToSet(db_[TabOf[i]])
create_index(i) == MayIndex(i) /\ Define("create_index", CreateIndex(i))
create_index_duplicate(i) == MayIndex(i) /\ Define("create_index", CreateIndexDuplicate(i))

\* The key is longer than IX_MAX_COL_LEN: found out when the file has been
\* created and opened, which nothing takes back.
create_index_too_long(i) ==
    MayIndex(i) /\ Define("too long", <<Op("create", i), Op("open", i)>>)

drop_index(i) ==
    /\ db_[TabOf[i]] # NoTab /\ i \in ToSet(db_[TabOf[i]])
    /\ Define("drop_index", DropIndex(i))

\* A transaction inserts a record and commits.
Insert(t) ==
    /\ mode = "up"
    /\ db_[t] # NoTab /\ t \in handles
    /\ buf[t] = Absent
    /\ buf' = [buf EXCEPT ![t] = born[t]]
    /\ log' = Append(log, [tab |-> t, val |-> born[t]])
    /\ committed' = [committed EXCEPT ![t] = born[t]]
    /\ UNCHANGED <<files, meta, disk, db_, named, handles, path2fd_, runVars, born, boundVars,
                   hits, reused>>

-----------------------------------------------------------------------------
(* Stop and start.                                                         *)

\* What is lost with the process.
Forget ==
    /\ db_' = NoTables
    /\ named' = FALSE
    /\ handles' = {}
    /\ path2fd_' = {}
    /\ buf' = [t \in Tab |-> Absent]
    /\ mode' = "down"
    /\ Run("none", <<>>)
    /\ crashes < MaxCrashes /\ crashes' = crashes + 1

\* Any page may or may not have been written back.
Crash ==
    /\ mode \notin {"absent", "down", "dead"}
    /\ Forget
    /\ disk' \in {d \in [Tab -> {disk[t] : t \in Tab} \cup {buf[t] : t \in Tab}] :
                    \A t \in Tab : d[t] \in {disk[t], IF t \in path2fd_ THEN buf[t] ELSE disk[t]}}
    /\ hits' = IF todo = <<>> THEN hits ELSE hits \cup {<<doing, done>>}
    /\ UNCHANGED <<files, meta, log, history, ddl, reused>>

\* safe_exit or SIGINT: close_db, then the process ends.
Shutdown ==
    /\ Idle
    /\ crashes < MaxCrashes
    /\ mode' = "closing"
    /\ Run("close_db", close_db(db_))
    /\ UNCHANGED <<fileVars, memVars, history, boundVars, hits, reused>>

Exit ==
    /\ mode = "closing" /\ todo = <<>>
    /\ Forget
    /\ UNCHANGED <<fileVars, history, ddl, hits, reused>>

\* main finds no directory: create_db.
FirstStart ==
    /\ mode = "absent"
    /\ mode' = "creating"
    /\ Run("create_db", create_db)
    /\ UNCHANGED <<fileVars, memVars, history, boundVars, hits, reused>>

\* What operator>> can make of db.meta.  It is separated by blanks: of an
\* empty file it reads nothing and takes the number of tables out of an
\* uninitialized variable, which is zero or makes it read tables without a
\* name; of a file without a database name it takes the number for the name,
\* and then finds a table name, or the end, in place of the number.
Readings ==
    LET none(isNamed) == [named |-> isNamed, cat |-> NoTables] IN
    IF meta = Torn THEN {none(FALSE), Torn}
    ELSE IF meta.named THEN {meta}
    ELSE IF Tables(meta.cat) = {} THEN {none(TRUE), Torn}
    ELSE {none(TRUE)}

\* open_db reads db.meta, and opens what it names.
Start ==
    /\ \/ mode = "creating" /\ todo = <<>>
       \/ mode = "down"
    /\ \E reading \in Readings :
          IF reading = Torn
          THEN /\ mode' = "dead"
               /\ Run("open_db", <<>>)
               /\ UNCHANGED <<db_, named>>
          ELSE /\ mode' = "opening"
               /\ db_' = reading.cat
               /\ named' = reading.named
               /\ Run("open_db", open_db(reading.cat))
    /\ UNCHANGED <<fileVars, handles, path2fd_, buf, history, boundVars, hits, reused>>

\* redo looks a table up by its name and skips a slot that is taken.
Redone(table, record) ==
    IF db_[record.tab] = NoTab \/ table[record.tab] # Absent THEN table
    ELSE [table EXCEPT ![record.tab] = record.val]

\* redo and undo, then rebuild_indexes.
Recover ==
    /\ mode = "opening" /\ todo = <<>>
    /\ buf' = FoldLeft(Redone, buf, log)
    /\ reused' = {t \in Tables(db_) :
                     \/ t \in reused
                     \/ \E k \in DOMAIN log : log[k].tab = t /\ log[k].val # born[t]}
    /\ mode' = "recovering"
    /\ Run("rebuild", rebuild_indexes(db_))
    /\ UNCHANGED <<fileVars, db_, named, handles, path2fd_, history, boundVars, hits>>

\* Faulty variant: the log is emptied and the pages are left in the pool.
ResetUnflushed ==
    /\ mode = "recovering" /\ todo = <<>>
    /\ log' = <<>>
    /\ mode' = "up"
    /\ Run("none", <<>>)
    /\ UNCHANGED <<files, meta, disk, memVars, history, boundVars, hits, reused>>

\* The end of undo: pages flushed, log emptied.
reset_log ==
    /\ mode = "recovering" /\ todo = <<>>
    /\ IF Log \in files
       THEN /\ disk' = [t \in Tab |-> IF t \in path2fd_ THEN buf[t] ELSE disk[t]]
            /\ log' = <<>>
            /\ mode' = "up"
       ELSE /\ mode' = "dead"
            /\ UNCHANGED <<disk, log>>
    /\ Run("none", <<>>)
    /\ UNCHANGED <<files, meta, memVars, history, boundVars, hits, reused>>

-----------------------------------------------------------------------------
Init ==
    /\ files = {}
    /\ meta = Torn
    /\ disk = [t \in Tab |-> Absent]
    /\ log = <<>>
    /\ db_ = NoTables
    /\ named = TRUE
    /\ handles = {}
    /\ path2fd_ = {}
    /\ buf = disk
    /\ mode = "absent"
    /\ doing = "none" /\ done = "nothing" /\ todo = <<>>
    /\ born = [t \in Tab |-> 0] /\ committed = disk
    /\ ddl = 0 /\ crashes = 0
    /\ hits = {}
    /\ reused = {}

Next ==
    \/ FirstStart \/ Start \/ Recover \/ reset_log
    \/ Step
    \/ \E t \in Tab : create_table(t) \/ drop_table(t) \/ Insert(t)
    \/ \E i \in Index : \/ create_index(i) \/ create_index_duplicate(i)
                        \/ create_index_too_long(i) \/ drop_index(i)
    \/ Crash \/ Shutdown \/ Exit

Spec == Init /\ [][Next]_vars

-----------------------------------------------------------------------------
(* Properties.                                                             *)

\* Crashes that hit a statement in one of the given places.
Hit(names, places) == \E h \in hits : h[1] \in names /\ h[2] \in places

\* A crash left db.meta empty.
MetaLost ==
    \/ Hit({"create_table", "create_index", "drop_index", "drop_table", "close_db"}, {"truncate"})
    \/ Hit({"create_db"}, {"nothing", "truncate", "create"})

\* Between two statements, failed ones included, every file the catalogue
\* names is there, open, and has its handle, no handle is left of what was
\* dropped, and db.meta says what memory does unless a crash left it empty.
CatalogExact ==
    Idle =>
        /\ FilesOf(db_) \subseteq files
        /\ handles = FilesOf(db_)
        /\ handles \subseteq path2fd_
        /\ MetaLost \/ meta = Written

\* A start succeeds whatever the process was doing when it stopped, except at
\* places where the code puts two file operations that belong together in an
\* order a crash can split: db.meta emptied and not yet written, a file
\* unlinked and still in db.meta, an index of rebuild_indexes destroyed and
\* not yet made anew.
RestartOpensUnlessSplit ==
    mode = "dead" =>
        \/ MetaLost
        \/ Hit({"drop_index", "drop_table"}, {"destroy", "idx-", "tab-"})
        \/ Hit({"rebuild"}, {"destroy"})

\* A name that is not in the catalogue has no file that would make its CREATE
\* fail, unless a crash hit a CREATE before its flush_meta or left db.meta
\* empty, or an index key was too long.
NameIsFreeUnlessOrphaned ==
    Idle /\ files # FilesOf(db_) \cup {Log} =>
        \/ MetaLost
        \/ Hit({"create_table", "create_index", "too long"},
               {"create", "tab+", "open", "idx+", "handle+", "close"})

\* After any number of restarts a table holds the record that was committed
\* into it, and none of a dropped table, unless the log still had records of
\* a dropped table of the same name when redo read it.
RecordsExactUnlessReused ==
    mode = "up" => \A t \in Tables(db_) \cap handles :
        t \notin reused => buf[t] = committed[t]

=============================================================================
