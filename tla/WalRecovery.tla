---------------------------- MODULE WalRecovery ----------------------------
(***************************************************************************)
(* Write-ahead logging and crash recovery: the log records written by      *)
(* begin, commit, abort and the executors, the buffer pool stealing dirty  *)
(* pages, a crash or an orderly shutdown at any point, and the analyze,    *)
(* redo and undo of recovery/log_recovery.cpp at the next start.           *)
(*                                                                         *)
(* One table.  Its X lock (holder) lets one writer in at a time, which is  *)
(* what TransactionManager establishes for the locks the executors take.   *)
(* add_log_to_buffer writes the record through to the log file before it   *)
(* returns, so log is the file; a torn last record is one that is not      *)
(* there.  A transaction identifier is used once between two starts.       *)
(***************************************************************************)
EXTENDS Naturals, Sequences, FiniteSets

CONSTANTS
    Txn,        \* transaction identifiers
    None,       \* no transaction
    Rid,        \* record positions
    PageOf,     \* the page of each record
    Val,        \* contents of a record
    Absent,     \* content of a free slot
    Steal,      \* whether the pool is so small that dirty pages are evicted
    MaxWrites,  \* bound: changes logged between two recoveries
    MaxCrashes  \* bound: crashes and shutdowns

ASSUME NoneAssumption == None \notin Txn
ASSUME AbsentAssumption == Absent \notin Val
ASSUME BoundAssumption == MaxWrites \in Nat /\ MaxCrashes \in Nat /\ Steal \in BOOLEAN

VARIABLES
    buf,        \* the table as the buffer pool serves it
    disk,       \* the table file
    log,        \* the log file
    phase,      \* where each transaction is
    op,         \* the half-done change of the lock holder
    write_set,  \* write_set_ of each transaction, oldest change first
    holder,     \* the transaction with the X lock on the table
    mode,       \* "up", or the stage of recovery
    cursor,     \* the log record redo or undo looks at next
    crashes,    \* crashes so far (bounds the model)
    committed,  \* history: the changes of committed transactions only
    stolen,     \* history: records whose disk content an open transaction wrote
    exposed     \* history: what the last crash met of the cases of Exposure

memVars == <<phase, op, write_set, holder>>
vars == <<buf, disk, log, memVars, mode, cursor, crashes, committed, stolen, exposed>>

Slot == Val \cup {Absent}
Page == {PageOf[rid] : rid \in Rid}
ChangeType == {"INSERT", "DELETE", "UPDATE"}
NoOp == <<>>

\* The content of a record file's change, with both images.
Change(type, rid, old, new) == [type |-> type, rid |-> rid, old |-> old, new |-> new]
Mark(type, t) == [type |-> type, txn |-> t]
Record(t, change) == [type |-> change.type, txn |-> t, rid |-> change.rid,
                      old |-> change.old, new |-> change.new]
add_log_to_buffer(record) == log' = Append(log, record)

IsChange(record) == record.type \in ChangeType

\* The records an unfinished transaction has changed: with their log record
\* written, or about to be.
Touched(t) ==
    {write_set[t][i].rid : i \in DOMAIN write_set[t]}
        \cup (IF holder = t /\ op # NoOp THEN {op.change.rid} ELSE {})

\* Records of a page with content that an unfinished transaction put there.
Uncommitted(pages) ==
    {s \in [rid : Rid, txn : Txn, val : Slot] :
        /\ PageOf[s.rid] \in pages
        /\ s.rid \in Touched(s.txn)
        /\ s.val = buf[s.rid] /\ s.val # committed[s.rid]}

\* The log has the change that put the content there.
Logged(s) ==
    \E i \in DOMAIN log :
        /\ IsChange(log[i])
        /\ log[i].txn = s.txn /\ log[i].rid = s.rid /\ log[i].new = s.val

-----------------------------------------------------------------------------
(* Transactions.                                                           *)

begin(t) ==
    /\ mode = "up" /\ phase[t] = "none"
    /\ phase' = [phase EXCEPT ![t] = "active"]
    /\ add_log_to_buffer(Mark("begin", t))
    /\ UNCHANGED <<buf, disk, op, write_set, holder, mode, cursor, crashes, committed,
                   stolen, exposed>>

Lock(t) ==
    /\ mode = "up" /\ phase[t] = "active"
    /\ holder = None
    /\ holder' = t
    /\ UNCHANGED <<buf, disk, log, phase, op, write_set, mode, cursor, crashes, committed,
                   stolen, exposed>>

MayWrite(t) ==
    /\ mode = "up" /\ phase[t] = "active"
    /\ holder = t /\ op = NoOp
    /\ Cardinality({i \in 1 .. Len(log) : IsChange(log[i])}) < MaxWrites

\* InsertExecutor::Next changes the page first and logs afterwards.
InsertPage(t, rid, val) ==
    /\ MayWrite(t)
    /\ buf[rid] = Absent
    /\ buf' = [buf EXCEPT ![rid] = val]
    /\ op' = [stage |-> "log",
              change |-> Change("INSERT", rid, Absent, val)]
    /\ UNCHANGED <<disk, log, phase, write_set, holder, mode, cursor, crashes, committed,
                   stolen, exposed>>

InsertLog(t) ==
    /\ mode = "up" /\ holder = t
    /\ op # NoOp /\ op.stage = "log"
    /\ add_log_to_buffer(Record(t, op.change))
    /\ write_set' = [write_set EXCEPT ![t] = Append(@, op.change)]
    /\ op' = NoOp
    /\ UNCHANGED <<buf, disk, phase, holder, mode, cursor, crashes, committed, stolen, exposed>>

\* A unique index has the key: the record is taken out again, nothing is
\* logged.
InsertRefused(t) ==
    /\ mode = "up" /\ holder = t
    /\ op # NoOp /\ op.stage = "log"
    /\ buf' = [buf EXCEPT ![op.change.rid] = Absent]
    /\ op' = NoOp
    /\ UNCHANGED <<disk, log, phase, write_set, holder, mode, cursor, crashes, committed,
                   stolen, exposed>>

\* DeleteExecutor::Next and UpdateExecutor::Next log first.
ChangeLog(t, rid, new) ==
    LET type == IF new = Absent THEN "DELETE" ELSE "UPDATE"
        change == Change(type, rid, buf[rid], new)
    IN  /\ MayWrite(t)
        /\ buf[rid] # Absent
        /\ add_log_to_buffer(Record(t, change))
        /\ write_set' = [write_set EXCEPT ![t] = Append(@, change)]
        /\ op' = [stage |-> "page", change |-> change]
        /\ UNCHANGED <<buf, disk, phase, holder, mode, cursor, crashes, committed,
                       stolen, exposed>>

ChangePage(t) ==
    /\ mode = "up" /\ holder = t
    /\ op # NoOp /\ op.stage = "page"
    /\ buf' = [buf EXCEPT ![op.change.rid] = op.change.new]
    /\ op' = NoOp
    /\ UNCHANGED <<disk, log, phase, write_set, holder, mode, cursor, crashes, committed,
                   stolen, exposed>>

\* commit: the COMMIT record, then the locks.
commit(t) ==
    /\ mode = "up" /\ phase[t] = "active"
    /\ holder = t => op = NoOp
    /\ add_log_to_buffer(Mark("commit", t))
    /\ committed' = [rid \in Rid |-> IF rid \in Touched(t) THEN buf[rid] ELSE committed[rid]]
    /\ stolen' = {s \in stolen : s.txn # t \/ ~Logged(s)}
    /\ write_set' = [write_set EXCEPT ![t] = <<>>]
    /\ phase' = [phase EXCEPT ![t] = "unlock"]
    /\ UNCHANGED <<buf, disk, op, holder, mode, cursor, crashes, exposed>>

\* abort: undo the write set, release the locks, then the ABORT record.
abort(t) ==
    /\ mode = "up" /\ phase[t] = "active"
    /\ holder = t => op = NoOp
    /\ phase' = [phase EXCEPT ![t] = "undo"]
    /\ UNCHANGED <<buf, disk, log, op, write_set, holder, mode, cursor, crashes, committed,
                   stolen, exposed>>

AbortUndo(t) ==
    LET change == write_set[t][Len(write_set[t])]
    IN  /\ mode = "up" /\ phase[t] = "undo"
        /\ write_set[t] # <<>>
        /\ buf' = [buf EXCEPT ![change.rid] = change.old]
        /\ write_set' = [write_set EXCEPT ![t] = SubSeq(@, 1, Len(@) - 1)]
        /\ UNCHANGED <<disk, log, phase, op, holder, mode, cursor, crashes, committed,
                       stolen, exposed>>

EndUndo(t) ==
    /\ mode = "up" /\ phase[t] = "undo"
    /\ write_set[t] = <<>>
    /\ phase' = [phase EXCEPT ![t] = "release"]
    /\ UNCHANGED <<buf, disk, log, op, write_set, holder, mode, cursor, crashes, committed,
                   stolen, exposed>>

AfterUnlock(p) == IF p = "unlock" THEN "committed" ELSE "abort_log"

\* The release loops of commit and abort.
Unlock(t) ==
    /\ mode = "up" /\ phase[t] \in {"unlock", "release"}
    /\ holder' = IF holder = t THEN None ELSE holder
    /\ phase' = [phase EXCEPT ![t] = AfterUnlock(@)]
    /\ UNCHANGED <<buf, disk, log, op, write_set, mode, cursor, crashes, committed,
                   stolen, exposed>>

AbortLog(t) ==
    /\ mode = "up" /\ phase[t] = "abort_log"
    /\ add_log_to_buffer(Mark("ABORT", t))
    /\ phase' = [phase EXCEPT ![t] = "aborted"]
    /\ UNCHANGED <<buf, disk, op, write_set, holder, mode, cursor, crashes, committed,
                   stolen, exposed>>

-----------------------------------------------------------------------------
(* Pages reach the disk, the server stops.                                 *)

OnDisk(pages) ==
    disk' = [rid \in Rid |-> IF PageOf[rid] \in pages THEN buf[rid] ELSE disk[rid]]

\* update_page writes a dirty victim back, whoever dirtied it.
Evict(page) ==
    /\ Steal
    /\ \E rid \in Rid : PageOf[rid] = page /\ buf[rid] # disk[rid]
    /\ OnDisk({page})
    /\ stolen' = {s \in stolen : PageOf[s.rid] # page} \cup Uncommitted({page})
    /\ UNCHANGED <<buf, log, memVars, mode, cursor, crashes, committed, exposed>>

\* The three situations in which the log does not tell recovery enough:
\* an abort that has released its locks and not yet logged ABORT, with
\* another transaction's change to the same record already in the log;
UnloggedAbort ==
    \E t \in Txn : \E i, j \in DOMAIN log :
        /\ phase[t] = "abort_log"
        /\ i < j /\ IsChange(log[i]) /\ IsChange(log[j])
        /\ log[i].txn = t /\ log[j].txn # t /\ log[i].rid = log[j].rid
\* a record on disk with the content of a transaction whose ABORT is logged;
StolenAborted == \E s \in stolen : phase[s.txn] = "aborted"
\* a record on disk whose INSERT is not in the log, and perhaps never will be.
StolenUnlogged == \E s \in stolen : ~Logged(s)

Exposure ==
    {e \in {"unlogged abort", "stolen aborted", "stolen unlogged"} :
        \/ e = "unlogged abort" /\ UnloggedAbort
        \/ e = "stolen aborted" /\ StolenAborted
        \/ e = "stolen unlogged" /\ StolenUnlogged}

\* Everything in memory is lost; the next start begins with analyze.
Stop ==
    /\ crashes < MaxCrashes
    /\ crashes' = crashes + 1
    /\ phase' = [t \in Txn |-> "none"]
    /\ write_set' = [t \in Txn |-> <<>>]
    /\ op' = NoOp
    /\ holder' = None
    /\ mode' = "redo"
    /\ cursor' = 1
    /\ UNCHANGED <<log, committed>>

Crash ==
    /\ Stop
    /\ buf' = disk
    /\ exposed' = IF mode = "up" THEN Exposure ELSE exposed
    /\ UNCHANGED <<disk, stolen>>

\* close_db flushes every page and keeps the log.
close_db ==
    /\ mode = "up"
    /\ Stop
    /\ OnDisk(Page)
    /\ stolen' = Uncommitted(Page)
    /\ exposed' = (Exposure \cap {"unlogged abort"})
                     \cup {e \in {"stolen unlogged"} : StolenUnlogged'}
    /\ UNCHANGED buf

-----------------------------------------------------------------------------
(* RecoveryManager.                                                        *)

\* The sets that analyze builds from the log.
committed_txns == {log[i].txn : i \in {k \in DOMAIN log : log[k].type = "commit"}}
aborted_txns == {log[i].txn : i \in {k \in DOMAIN log : log[k].type = "ABORT"}}

\* Faulty variant: redo repeats the committed transactions only.
RedoneIfCommitted(table, record) ==
    IF record.txn \notin committed_txns \/ ~IsChange(record) THEN table
    ELSE IF (record.type = "INSERT") = (table[record.rid] = Absent)
         THEN [table EXCEPT ![record.rid] = record.new]
         ELSE table

\* What redo makes of the table with one log record.
Redone(table, record) ==
    IF record.txn \in aborted_txns \/ ~IsChange(record) THEN table
    ELSE IF (record.type = "INSERT") = (table[record.rid] = Absent)
         THEN [table EXCEPT ![record.rid] = record.new]
         ELSE table

\* Faulty variant: undo does not look at the COMMIT records.
UndoneAll(table, record) ==
    IF record.txn \in aborted_txns \/ ~IsChange(record) THEN table
    ELSE IF (record.type = "DELETE") = (table[record.rid] = Absent)
         THEN [table EXCEPT ![record.rid] = record.old]
         ELSE table

\* What undo makes of the table with one log record.
Undone(table, record) ==
    IF record.txn \in committed_txns \cup aborted_txns \/ ~IsChange(record) THEN table
    ELSE IF (record.type = "DELETE") = (table[record.rid] = Absent)
         THEN [table EXCEPT ![record.rid] = record.old]
         ELSE table

redo ==
    /\ mode = "redo"
    /\ IF cursor <= Len(log)
       THEN /\ buf' = Redone(buf, log[cursor])
            /\ cursor' = cursor + 1
            /\ UNCHANGED mode
       ELSE /\ mode' = "undo"
            /\ cursor' = Len(log)
            /\ UNCHANGED buf
    /\ UNCHANGED <<disk, log, memVars, crashes, committed, stolen, exposed>>

undo ==
    /\ mode = "undo"
    /\ IF cursor > 0
       THEN /\ buf' = Undone(buf, log[cursor])
            /\ cursor' = cursor - 1
            /\ UNCHANGED mode
       ELSE /\ mode' = "flush"
            /\ UNCHANGED <<buf, cursor>>
    /\ UNCHANGED <<disk, log, memVars, crashes, committed, stolen, exposed>>

flush_all_pages ==
    /\ mode = "flush"
    /\ OnDisk(Page)
    /\ mode' = "reset"
    /\ UNCHANGED <<buf, log, memVars, cursor, crashes, committed, stolen, exposed>>

\* What recovery found becomes the reference if the crash was exposed.
reset_log ==
    /\ mode = "reset"
    /\ log' = <<>>
    /\ mode' = "up"
    /\ committed' = IF exposed = {} THEN committed ELSE buf
    /\ stolen' = {}
    /\ exposed' = {}
    /\ UNCHANGED <<buf, disk, memVars, cursor, crashes>>

-----------------------------------------------------------------------------
Init ==
    /\ buf \in [Rid -> Slot]
    /\ disk = buf
    /\ committed = buf
    /\ log = <<>>
    /\ phase = [t \in Txn |-> "none"]
    /\ op = NoOp
    /\ write_set = [t \in Txn |-> <<>>]
    /\ holder = None
    /\ mode = "up"
    /\ cursor = 0
    /\ crashes = 0
    /\ stolen = {}
    /\ exposed = {}

Transaction(t) ==
    \/ begin(t) \/ Lock(t)
    \/ \E rid \in Rid, val \in Val : InsertPage(t, rid, val)
    \/ InsertLog(t) \/ InsertRefused(t)
    \/ \E rid \in Rid, new \in Slot : ChangeLog(t, rid, new)
    \/ ChangePage(t)
    \/ commit(t) \/ abort(t) \/ AbortUndo(t) \/ EndUndo(t) \/ Unlock(t) \/ AbortLog(t)

Recovery == redo \/ undo \/ flush_all_pages \/ reset_log

Next ==
    \/ \E t \in Txn : Transaction(t)
    \/ \E page \in Page : Evict(page)
    \/ Crash \/ close_db
    \/ Recovery

Spec == Init /\ [][Next]_vars

-----------------------------------------------------------------------------
(* Properties.                                                             *)

\* When recovery is about to empty the log, the table file holds the changes
\* of committed transactions and nothing else, whatever was in memory, on
\* disk or half-done at the crash, and however often recovery itself was
\* interrupted, unless the crash met one of the cases of Exposure.
RecoveryExactUnlessExposed == mode = "reset" /\ exposed = {} => disk = committed

\* The has_record tests of undo never hide anything: outside the cases of
\* Exposure each change that undo takes back is in place when it gets there,
\* so redo has repeated history up to the crash.
UndoMeetsItsChange ==
    mode = "undo" /\ cursor > 0 /\ exposed = {} =>
        LET record == log[cursor]
        IN  IsChange(record) /\ record.txn \notin committed_txns \cup aborted_txns
                => buf[record.rid] = record.new

=============================================================================
