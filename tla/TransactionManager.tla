------------------------- MODULE TransactionManager -------------------------
(***************************************************************************)
(* Transactions over the lock manager: the request loop of client_handler  *)
(* (rmdb.cpp), begin, commit and abort of transaction_manager.cpp, and the *)
(* locks and record changes of the executors that run inside them.         *)
(*                                                                         *)
(* A client thread runs one transaction at a time.  Txn names the current  *)
(* transaction of a thread; SetTransaction replaces a finished one by a    *)
(* fresh one.  A DELETE or an UPDATE first scans the table under its S     *)
(* lock for the rids it wants (portal.h), then takes the X lock and        *)
(* changes the records one by one.  The content of a record is an element  *)
(* of Val; slots, indexes and the log belong to other modules.             *)
(***************************************************************************)
EXTENDS LockManager, Naturals, Sequences

CONSTANTS
    Val,       \* contents of a record
    Absent,    \* content of a free slot
    Unseen,    \* a record the transaction has not read
    MaxStmts   \* bound: record statements of one transaction

ASSUME AbsentAssumption == Absent \notin Val
ASSUME UnseenAssumption == Unseen \notin Val \cup {Absent}
ASSUME MaxStmtsAssumption == MaxStmts \in Nat

VARIABLES
    heap,       \* the record files, as the buffer pool serves them
    write_set,  \* write_set_ of each transaction, oldest change first
    txn_mode,   \* txn_mode_: TRUE for an explicit transaction
    pc,         \* where the thread is in client_handler
    stmt,       \* the request it executes
    stmts,      \* record statements run so far (bounds the model)
    committed,  \* history: the changes of committed transactions only
    view        \* history: the first value the open transaction read of a record

dataVars == <<heap, write_set, committed, view>>
threadVars == <<txn_mode, pc, stmt, stmts>>
vars == <<lockVars, dataVars, threadVars>>

RecordOp == {"select", "insert", "delete", "update"}
Op == RecordOp \cup {"begin", "commit", "abort", "other"}

\* rids: collected by the scan, still to be changed; left: not yet visited by
\* the scan; ret: where commit and abort return to; base: length of the write
\* set when the statement began; failed: it ended with an RMDBError.
Done(fd) == [op |-> "other", fd |-> fd, rids |-> {}, left |-> {}, ret |-> "read",
             base |-> 0, failed |-> FALSE]
Nothing == [fd \in Fd |-> [rid \in Rid |-> Unseen]]

\* The record was changed by the transaction itself.
OwnWrite(t, fd, rid) ==
    \E i \in DOMAIN write_set[t] : write_set[t][i].fd = fd /\ write_set[t][i].rid = rid

Goto(t, label) == pc' = [pc EXCEPT ![t] = label]

-----------------------------------------------------------------------------
(* The request loop.                                                       *)

\* SetTransaction finds no transaction to continue.
NeedsBegin(t) == state[t] \in {"DEFAULT", "COMMITTED", "ABORTED"}

EntryPoint(op) ==
    CASE op = "insert" -> "lock_x"
      [] op \in {"select", "delete", "update"} -> "lock_s"
      [] op \in {"commit", "abort"} -> op
      [] op \in {"begin", "other"} -> "reply"

\* A request arrives: SetTransaction, then the statement is dispatched.
\* "other" is any request that touches no record and no transaction, and any
\* that is refused before it is executed.
Receive(t, op, fd) ==
    /\ pc[t] = "read"
    /\ op \in RecordOp => stmts[t] < MaxStmts
    /\ IF NeedsBegin(t)
       THEN /\ state' = [state EXCEPT ![t] = "GROWING"]
            /\ write_set' = [write_set EXCEPT ![t] = <<>>]
       ELSE UNCHANGED <<state, write_set>>
    /\ txn_mode' = [txn_mode EXCEPT ![t] = op = "begin" \/ (@ /\ ~NeedsBegin(t))]
    /\ stmts' = [stmts EXCEPT ![t] = IF op \in RecordOp THEN @ + 1 ELSE @]
    /\ stmt' = [stmt EXCEPT ![t] = [op |-> op, fd |-> fd, rids |-> {}, left |-> Rid,
                                    ret |-> "reply", base |-> Len(write_set'[t]),
                                    failed |-> FALSE]]
    /\ Goto(t, EntryPoint(op))
    /\ UNCHANGED <<lock_table, group_lock_mode, lock_set, pending, heap, committed, view>>

\* The reply is sent; a transaction that is not explicit is then committed,
\* even if it was aborted or its statement failed.
Reply(t) ==
    /\ pc[t] = "reply"
    /\ Goto(t, IF txn_mode[t] THEN "read" ELSE "commit")
    /\ stmt' = [stmt EXCEPT ![t] = Done(@.fd)]
    /\ UNCHANGED <<lockVars, dataVars, txn_mode, stmts>>

\* The client closes, sends exit, or the reply cannot be written: the thread
\* ends and leaves its transaction as it is.
Disconnect(t) ==
    /\ pc[t] \in {"read", "reply"}
    /\ Goto(t, "gone")
    /\ UNCHANGED <<lockVars, dataVars, txn_mode, stmt, stmts>>

-----------------------------------------------------------------------------
(* Statements.                                                             *)

\* Faulty variant: the scan takes no lock.
ScanUnlocked(t) ==
    /\ pc[t] = "lock_s"
    /\ Goto(t, "scan")
    /\ UNCHANGED <<lockVars, dataVars, txn_mode, stmt, stmts>>

\* The constructor of the scan executor locks the table in S; an exception
\* of the lock manager reaches client_handler, which aborts.
LockForScan(t) ==
    /\ pc[t] = "lock_s"
    /\ lock_shared_on_table(t, stmt[t].fd)
    /\ Goto(t, IF Throws(t, TableId(stmt[t].fd), "S") THEN "abort" ELSE "scan")
    /\ UNCHANGED <<dataVars, txn_mode, stmt, stmts>>

\* The scan visits one record; a DELETE or UPDATE collects it if it exists
\* and satisfies the condition.
Scan(t, rid) ==
    LET fd == stmt[t].fd
    IN  /\ pc[t] = "scan"
        /\ rid \in stmt[t].left
        /\ \E matches \in BOOLEAN :
             stmt' = [stmt EXCEPT
                 ![t].left = @ \ {rid},
                 ![t].rids = IF matches /\ heap[fd][rid] # Absent THEN @ \cup {rid} ELSE @]
        /\ view' = [view EXCEPT ![t][fd][rid] =
                       IF @ = Unseen /\ ~OwnWrite(t, fd, rid) THEN heap[fd][rid] ELSE @]
        /\ UNCHANGED <<lockVars, heap, write_set, committed, txn_mode, pc, stmts>>

EndScan(t) ==
    /\ pc[t] = "scan"
    /\ stmt[t].left = {}
    /\ Goto(t, IF stmt[t].op = "select" THEN "reply" ELSE "lock_x")
    /\ UNCHANGED <<lockVars, dataVars, txn_mode, stmt, stmts>>

\* The constructor of the Insert, Delete or Update executor locks in X.
LockForWrite(t) ==
    /\ pc[t] = "lock_x"
    /\ lock_exclusive_on_table(t, stmt[t].fd)
    /\ Goto(t, IF Throws(t, TableId(stmt[t].fd), "X") THEN "abort" ELSE "apply")
    /\ UNCHANGED <<dataVars, txn_mode, stmt, stmts>>

Write(t, wtype, rid, new) ==
    LET fd == stmt[t].fd
    IN  /\ heap' = [heap EXCEPT ![fd][rid] = new]
        /\ write_set' = [write_set EXCEPT ![t] =
               Append(@, [wtype |-> wtype, fd |-> fd, rid |-> rid, record |-> heap[fd][rid]])]
        /\ UNCHANGED <<lockVars, committed, view, txn_mode, stmts>>

\* InsertExecutor::Next puts the record in a free slot.
Insert(t, rid, val) ==
    /\ pc[t] = "apply" /\ stmt[t].op = "insert"
    /\ heap[stmt[t].fd][rid] = Absent
    /\ Write(t, "INSERT_TUPLE", rid, val)
    /\ Goto(t, "reply")
    /\ UNCHANGED stmt

\* One turn of the loop of DeleteExecutor::Next.
Delete(t, rid) ==
    /\ pc[t] = "apply" /\ stmt[t].op = "delete"
    /\ rid \in stmt[t].rids
    /\ Write(t, "DELETE_TUPLE", rid, Absent)
    /\ stmt' = [stmt EXCEPT ![t].rids = @ \ {rid}]
    /\ UNCHANGED pc

\* One turn of the loop of UpdateExecutor::Next.
Update(t, rid, val) ==
    /\ pc[t] = "apply" /\ stmt[t].op = "update"
    /\ rid \in stmt[t].rids
    /\ Write(t, "UPDATE_TUPLE", rid, val)
    /\ stmt' = [stmt EXCEPT ![t].rids = @ \ {rid}]
    /\ UNCHANGED pc

EndWrite(t) ==
    /\ pc[t] = "apply" /\ stmt[t].op # "insert"
    /\ stmt[t].rids = {}
    /\ Goto(t, "reply")
    /\ UNCHANGED <<lockVars, dataVars, txn_mode, stmt, stmts>>

\* A unique index refuses the new key (IndexExistsError): the statement stops
\* where it is, an INSERT having taken its record out again, and
\* client_handler only reports the error.
IndexExists(t) ==
    /\ pc[t] = "apply"
    /\ stmt[t].op = "insert" \/ (stmt[t].op = "update" /\ stmt[t].rids # {})
    /\ stmt' = [stmt EXCEPT ![t].failed = TRUE]
    /\ Goto(t, "reply")
    /\ UNCHANGED <<lockVars, dataVars, txn_mode, stmts>>

-----------------------------------------------------------------------------
(* commit and abort.                                                       *)

\* The COMMIT record is durable when add_log_to_buffer returns.
commit(t) ==
    /\ pc[t] = "commit"
    /\ committed' = [fd \in Fd |-> [rid \in Rid |->
           IF OwnWrite(t, fd, rid) THEN heap[fd][rid] ELSE committed[fd][rid]]]
    /\ write_set' = [write_set EXCEPT ![t] = <<>>]
    /\ Goto(t, "unlock_commit")
    /\ view' = [view EXCEPT ![t] = Nothing]
    /\ stmts' = [stmts EXCEPT ![t] = 0]
    /\ UNCHANGED <<lockVars, heap, txn_mode, stmt>>

\* A user's ABORT, or client_handler's on a TransactionAbortException.
abort(t) ==
    /\ pc[t] = "abort"
    /\ state' = [state EXCEPT ![t] = "ABORTED"]
    /\ Goto(t, "undo")
    /\ view' = [view EXCEPT ![t] = Nothing]
    /\ stmts' = [stmts EXCEPT ![t] = 0]
    /\ UNCHANGED <<lock_table, group_lock_mode, lock_set, pending, heap, write_set,
                   committed, txn_mode, stmt>>

\* Faulty variant: the write set is undone from the front.
UndoOldestFirst(t) ==
    LET write == write_set[t][1]
    IN  /\ pc[t] = "undo"
        /\ write_set[t] # <<>>
        /\ heap' = [heap EXCEPT ![write.fd][write.rid] =
               IF write.wtype = "INSERT_TUPLE" THEN Absent ELSE write.record]
        /\ write_set' = [write_set EXCEPT ![t] = Tail(@)]
        /\ UNCHANGED <<lockVars, committed, view, threadVars>>

\* One turn of the loop over the write set, youngest change first.
Undo(t) ==
    LET write == write_set[t][Len(write_set[t])]
    IN  /\ pc[t] = "undo"
        /\ write_set[t] # <<>>
        /\ heap' = [heap EXCEPT ![write.fd][write.rid] =
               IF write.wtype = "INSERT_TUPLE" THEN Absent ELSE write.record]
        /\ write_set' = [write_set EXCEPT ![t] = SubSeq(@, 1, Len(@) - 1)]
        /\ UNCHANGED <<lockVars, committed, view, threadVars>>

EndUndo(t) ==
    /\ pc[t] = "undo"
    /\ write_set[t] = <<>>
    /\ Goto(t, "unlock_abort")
    /\ UNCHANGED <<lockVars, dataVars, txn_mode, stmt, stmts>>

\* Faulty variant: abort releases its locks before it has undone everything.
UnlockDuringUndo(t, id) ==
    /\ pc[t] \in {"unlock_commit", "undo", "unlock_abort"}
    /\ id \in lock_set[t]
    /\ unlock(t, id)
    /\ UNCHANGED <<dataVars, threadVars>>

\* One turn of the release loops of commit and abort.
Unlock(t, id) ==
    /\ pc[t] \in {"unlock_commit", "unlock_abort"}
    /\ id \in lock_set[t]
    /\ unlock(t, id)
    /\ UNCHANGED <<dataVars, threadVars>>

\* commit sets COMMITTED; abort only writes the ABORT record.
Finish(t) ==
    /\ pc[t] \in {"unlock_commit", "unlock_abort"}
    /\ lock_set[t] = {}
    /\ state' = [state EXCEPT ![t] = IF pc[t] = "unlock_commit" THEN "COMMITTED" ELSE @]
    /\ Goto(t, stmt[t].ret)
    /\ UNCHANGED <<lock_table, group_lock_mode, lock_set, pending, dataVars,
                   txn_mode, stmt, stmts>>

-----------------------------------------------------------------------------
TMInit ==
    /\ lock_table = [id \in DataId |-> [t \in Txn |-> "NON_LOCK"]]
    /\ group_lock_mode = [id \in DataId |-> "NON_LOCK"]
    /\ lock_set = [t \in Txn |-> {}]
    /\ state = [t \in Txn |-> "DEFAULT"]
    /\ pending = [t \in Txn |-> NoRequest]
    /\ heap = [fd \in Fd |-> [rid \in Rid |-> Absent]]
    /\ committed = heap
    /\ write_set = [t \in Txn |-> <<>>]
    /\ view = [t \in Txn |-> Nothing]
    /\ txn_mode = [t \in Txn |-> FALSE]
    /\ pc = [t \in Txn |-> "read"]
    /\ stmt \in [Txn -> {Done(fd) : fd \in Fd}]
    /\ stmts = [t \in Txn |-> 0]

\* What the client decides.
Client(t) == Disconnect(t) \/ \E op \in Op, fd \in Fd : Receive(t, op, fd)

\* What the thread does once a request has arrived.
Server(t) ==
    \/ Reply(t)
    \/ LockForScan(t) \/ EndScan(t) \/ LockForWrite(t) \/ EndWrite(t) \/ IndexExists(t)
    \/ \E rid \in Rid : Scan(t, rid) \/ Delete(t, rid)
    \/ \E rid \in Rid, val \in Val : Insert(t, rid, val) \/ Update(t, rid, val)
    \/ commit(t) \/ abort(t) \/ Undo(t) \/ EndUndo(t) \/ Finish(t)
    \/ \E id \in DataId : Unlock(t, id)

TMNext == \E t \in Txn : Client(t) \/ Server(t)

TMSpec == TMInit /\ [][TMNext]_vars

-----------------------------------------------------------------------------
(* Properties.                                                             *)

\* A record with an unfinished change is locked in X by the transaction that
\* changed it, from the change to the COMMIT record or the end of the undo:
\* no interleaving of requests, upgrades and releases uncovers it.
DirtyIsLocked ==
    \A t \in Txn : \A fd \in Fd, rid \in Rid :
        OwnWrite(t, fd, rid) => lock_table[TableId(fd)][t] = "X"

\* The oldest change a transaction made to a record.
FirstWrite(t, fd, rid) ==
    LET mine == {i \in DOMAIN write_set[t] :
                   write_set[t][i].fd = fd /\ write_set[t][i].rid = rid}
    IN  write_set[t][CHOOSE i \in mine : \A j \in mine : i <= j]

\* Whatever is in the table files is committed, or can be taken back to what
\* is committed by the write sets: abort restores exactly the committed
\* contents, at every point where a lock conflict or a client can force one.
\* The undo loop never meets a record in a state its get_record, insert_record
\* or update_record would refuse: the youngest change is still in place.
RollbackExact ==
    /\ \A fd \in Fd, rid \in Rid :
          LET writers == {t \in Txn : OwnWrite(t, fd, rid)}
          IN  /\ writers = {} => heap[fd][rid] = committed[fd][rid]
              /\ \A t \in writers : FirstWrite(t, fd, rid).record = committed[fd][rid]
    /\ \A t \in Txn : write_set[t] # <<>> =>
          LET write == write_set[t][Len(write_set[t])]
          IN  (heap[write.fd][write.rid] = Absent) <=> (write.wtype = "DELETE_TUPLE")

\* Serializability in commit order: everything an unfinished transaction has
\* read, absent records included, is still what is committed.  So at its
\* COMMIT record every read has the value it would have in a serial run.
ReadsStillCurrent ==
    \A t \in Txn :
        \A fd \in Fd, rid \in Rid :
            view[t][fd][rid] \in {Unseen, committed[fd][rid]}

\* A statement that ends with an error has changed nothing.
FailedStatementUndone ==
    \A t \in Txn : pc[t] = "reply" /\ stmt[t].failed => Len(write_set[t]) = stmt[t].base

=============================================================================
