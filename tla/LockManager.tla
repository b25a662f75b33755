---------------------------- MODULE LockManager ----------------------------
(***************************************************************************)
(* The multi-granularity lock manager of RMDB                              *)
(* (transaction/concurrency/lock_manager.cpp), with the no-wait policy: a  *)
(* request that conflicts with a granted lock throws at once, so the queue *)
(* of a data item only ever holds granted requests.  The queue is          *)
(* therefore a function from transactions to the mode they hold.           *)
(*                                                                         *)
(* Every request_lock and unlock runs under latch_, so each is one step.   *)
(* A record lock is two requests (the intention lock on the table, then    *)
(* the lock on the record) and other threads run between them.             *)
(***************************************************************************)
CONSTANTS
    Txn,    \* transactions, each driven by one client thread
    Fd,     \* file descriptors of the open table files
    Rid,    \* record positions in a table file
    NoRid   \* rid_ of a table lock (page_no = slot_no = -1)

ASSUME NoRidAssumption == NoRid \notin Rid

VARIABLES
    lock_table,       \* granted mode of each transaction on each data item
    group_lock_mode,  \* group_lock_mode_ cached in the queue of the item
    lock_set,         \* lock_set_ of each transaction
    state,            \* state_ of each transaction
    pending           \* second request of a record lock being acquired

lockVars == <<lock_table, group_lock_mode, lock_set, state, pending>>

LockMode == {"IS", "IX", "S", "SIX", "X"}
GroupLockMode == LockMode \cup {"NON_LOCK"}
TransactionState == {"DEFAULT", "GROWING", "SHRINKING", "COMMITTED", "ABORTED"}

\* LockDataId: a table (fd) or a record of it (fd, rid).
DataId == [fd : Fd, rid : Rid \cup {NoRid}]
TableId(fd) == [fd |-> fd, rid |-> NoRid]
RecordId(fd, rid) == [fd |-> fd, rid |-> rid]

Request == [id : DataId, mode : LockMode]
NoRequest == [id |-> NoRid, mode |-> "NON_LOCK"]
Req(id, mode) == [id |-> id, mode |-> mode]

-----------------------------------------------------------------------------
(* The mode algebra.                                                       *)

compatible(requested, granted) ==
    \/ requested = "IS"  /\ granted # "X"
    \/ requested = "IX"  /\ granted \in {"IS", "IX"}
    \/ requested = "S"   /\ granted \in {"IS", "S"}
    \/ requested = "SIX" /\ granted = "IS"

subsumes(held, requested) ==
    \/ held = requested
    \/ held = "X"
    \/ held = "SIX" /\ requested # "X"

combine(held, requested) ==
    IF subsumes(held, requested) THEN held
    ELSE IF subsumes(requested, held) THEN requested
    ELSE IF {held, requested} = {"S", "IX"} THEN "SIX"
    ELSE IF held = "IS" THEN requested
    ELSE IF requested = "IS" THEN held
    ELSE "X"

\* The cascade of group_mode over the modes granted in a queue.
group_mode(queue) ==
    LET has == {queue[t] : t \in Txn}
    IN  IF "X" \in has THEN "X"
        ELSE IF "SIX" \in has \/ {"S", "IX"} \subseteq has THEN "SIX"
        ELSE IF "S" \in has THEN "S"
        ELSE IF "IX" \in has THEN "IX"
        ELSE IF "IS" \in has THEN "IS"
        ELSE "NON_LOCK"

-----------------------------------------------------------------------------
(* request_lock                                                            *)

Holds(t, id) == lock_table[id][t] # "NON_LOCK"

Target(t, id, mode) ==
    IF Holds(t, id) THEN combine(lock_table[id][t], mode) ELSE mode

Subsumed(t, id, mode) == Holds(t, id) /\ subsumes(lock_table[id][t], mode)

\* Faulty variant: an upgrade is not checked against the other holders.
ConflictsIfNew(t, id, mode) ==
    ~Holds(t, id) /\ \E u \in Txn \ {t} :
        Holds(u, id) /\ ~compatible(mode, lock_table[id][u])

Conflicts(t, id, mode) ==
    \E u \in Txn \ {t} :
        Holds(u, id) /\ ~compatible(Target(t, id, mode), lock_table[id][u])

\* The two exceptions: LOCK_ON_SHIRINKING and DEADLOCK_PREVENTION.
Throws(t, id, mode) ==
    \/ state[t] # "GROWING"
    \/ ~Subsumed(t, id, mode) /\ Conflicts(t, id, mode)

Grant(t, id, mode) ==
    LET queue == [lock_table[id] EXCEPT ![t] = Target(t, id, mode)]
    IN  /\ lock_table' = [lock_table EXCEPT ![id] = queue]
        /\ group_lock_mode' = [group_lock_mode EXCEPT ![id] = group_mode(queue)]
        /\ lock_set' = [lock_set EXCEPT ![t] = @ \cup {id}]

\* next is the request the caller makes after this one returns.
request_lock(t, id, mode, next) ==
    /\ UNCHANGED state
    /\ \/ /\ Throws(t, id, mode)
          /\ pending' = [pending EXCEPT ![t] = NoRequest]
          /\ UNCHANGED <<lock_table, group_lock_mode, lock_set>>
       \/ /\ ~Throws(t, id, mode)
          /\ pending' = [pending EXCEPT ![t] = next]
          /\ IF Subsumed(t, id, mode)
             THEN UNCHANGED <<lock_table, group_lock_mode, lock_set>>
             ELSE Grant(t, id, mode)

-----------------------------------------------------------------------------
(* The public operations.                                                  *)

lock_shared_on_table(t, fd) ==
    pending[t] = NoRequest /\ request_lock(t, TableId(fd), "S", NoRequest)

lock_exclusive_on_table(t, fd) ==
    pending[t] = NoRequest /\ request_lock(t, TableId(fd), "X", NoRequest)

lock_IS_on_table(t, fd) ==
    pending[t] = NoRequest /\ request_lock(t, TableId(fd), "IS", NoRequest)

lock_IX_on_table(t, fd) ==
    pending[t] = NoRequest /\ request_lock(t, TableId(fd), "IX", NoRequest)

lock_shared_on_record(t, fd, rid) ==
    /\ pending[t] = NoRequest
    /\ request_lock(t, TableId(fd), "IS", Req(RecordId(fd, rid), "S"))

\* Faulty variant: the intention lock of a record X lock is IS.
LockRecordUnderIS(t, fd, rid) ==
    /\ pending[t] = NoRequest
    /\ request_lock(t, TableId(fd), "IS", Req(RecordId(fd, rid), "X"))

lock_exclusive_on_record(t, fd, rid) ==
    /\ pending[t] = NoRequest
    /\ request_lock(t, TableId(fd), "IX", Req(RecordId(fd, rid), "X"))

\* The record half of the two operations above.
lock_record(t) ==
    /\ pending[t] # NoRequest
    /\ request_lock(t, pending[t].id, pending[t].mode, NoRequest)

\* Faulty variant: the item stays in the lock set of the transaction.
ReleaseKeepingSet(t, id) ==
    LET queue == [lock_table[id] EXCEPT ![t] = "NON_LOCK"]
    IN  /\ lock_table' = [lock_table EXCEPT ![id] = queue]
        /\ group_lock_mode' = [group_lock_mode EXCEPT ![id] = group_mode(queue)]
        /\ state' = [state EXCEPT ![t] = IF @ = "GROWING" THEN "SHRINKING" ELSE @]
        /\ UNCHANGED lock_set

\* The effect of unlock on the lock table, the lock set and the state.
Release(t, id) ==
    LET queue == [lock_table[id] EXCEPT ![t] = "NON_LOCK"]
    IN  /\ lock_table' = [lock_table EXCEPT ![id] = queue]
        /\ group_lock_mode' = [group_lock_mode EXCEPT ![id] = group_mode(queue)]
        /\ lock_set' = [lock_set EXCEPT ![t] = @ \ {id}]
        /\ state' = [state EXCEPT ![t] = IF @ = "GROWING" THEN "SHRINKING" ELSE @]

unlock(t, id) ==
    /\ pending[t] = NoRequest
    /\ Holds(t, id)
    /\ Release(t, id)
    /\ UNCHANGED pending

-----------------------------------------------------------------------------
(* The lock manager under arbitrary callers: each thread may lock and      *)
(* unlock in any order once its transaction has begun.                     *)

Init ==
    /\ lock_table = [id \in DataId |-> [t \in Txn |-> "NON_LOCK"]]
    /\ group_lock_mode = [id \in DataId |-> "NON_LOCK"]
    /\ lock_set = [t \in Txn |-> {}]
    /\ state = [t \in Txn |-> "GROWING"]
    /\ pending = [t \in Txn |-> NoRequest]

TableCall(t) ==
    \E fd \in Fd :
        \/ lock_shared_on_table(t, fd)
        \/ lock_exclusive_on_table(t, fd)
        \/ lock_IS_on_table(t, fd)
        \/ lock_IX_on_table(t, fd)

RecordCall(t) ==
    \E fd \in Fd, rid \in Rid :
        \/ lock_shared_on_record(t, fd, rid)
        \/ lock_exclusive_on_record(t, fd, rid)

Next ==
    \E t \in Txn :
        \/ TableCall(t)
        \/ RecordCall(t)
        \/ lock_record(t)
        \/ \E id \in DataId : unlock(t, id)

Spec == Init /\ [][Next]_lockVars

-----------------------------------------------------------------------------
(* Properties.                                                             *)

\* The variables hold what the C++ members can hold.
TypeOK ==
    /\ lock_table \in [DataId -> [Txn -> GroupLockMode]]
    /\ group_lock_mode \in [DataId -> GroupLockMode]
    /\ lock_set \in [Txn -> SUBSET DataId]
    /\ state \in [Txn -> TransactionState]
    /\ pending \in [Txn -> Request \cup {NoRequest}]

\* Two transactions never hold incompatible modes on one data item, however
\* requests, upgrades and releases of request_lock and unlock interleave.
GrantedCompatible ==
    \A id \in DataId : \A t, u \in Txn :
        t # u /\ Holds(t, id) /\ Holds(u, id)
            => compatible(lock_table[id][t], lock_table[id][u])

\* lock_set_, from which commit and abort release, names exactly the items
\* whose queue has a request of the transaction: no lock can be leaked by a
\* release loop over lock_set_, none is released twice.
LockSetAgrees ==
    \A t \in Txn : \A id \in DataId : id \in lock_set[t] <=> Holds(t, id)

\* What the locks of a transaction let it do to a record of a table.
MayRead(t, fd, rid) ==
    \/ lock_table[TableId(fd)][t] \in {"S", "SIX", "X"}
    \/ lock_table[RecordId(fd, rid)][t] \in {"S", "X"}
MayWrite(t, fd, rid) ==
    \/ lock_table[TableId(fd)][t] = "X"
    \/ lock_table[RecordId(fd, rid)][t] = "X"

\* A growing transaction that holds a record lock, or is between the two
\* requests of lock_*_on_record, holds the matching intention on the table:
\* any mode for S, one that admits writes for X.
Intention(mode) == IF mode = "X" THEN {"IX", "SIX", "X"} ELSE LockMode
IntentionHeld ==
    \A t \in Txn :
        /\ \A fd \in Fd, rid \in Rid :
             Holds(t, RecordId(fd, rid))
                 => /\ lock_table[RecordId(fd, rid)][t] \in {"S", "X"}
                    /\ state[t] = "GROWING" =>
                         lock_table[TableId(fd)][t]
                             \in Intention(lock_table[RecordId(fd, rid)][t])
        /\ pending[t] # NoRequest =>
             /\ state[t] = "GROWING"
             /\ pending[t].id.rid # NoRid
             /\ pending[t].mode \in {"S", "X"}
             /\ lock_table[TableId(pending[t].id.fd)][t] \in Intention(pending[t].mode)

\* Multi-granularity exclusion: while both are growing, no transaction may
\* read or write a record that another may write, whether the right comes
\* from the table lock, from the record lock or from one of each.  It is what
\* taking the intention lock before the record lock is for.
NoImplicitConflict ==
    \A t, u \in Txn : \A fd \in Fd, rid \in Rid :
        t # u /\ state[t] = "GROWING" /\ state[u] = "GROWING"
            => ~(MayWrite(t, fd, rid) /\ (MayRead(u, fd, rid) \/ MayWrite(u, fd, rid)))

\* Asking again for a right that the held mode already gives never aborts
\* the transaction, although subsumes does not know that S and IX cover IS
\* and request_lock then checks the whole queue.
CoveredRequestGranted ==
    \A t \in Txn : \A id \in DataId : \A mode \in LockMode :
        state[t] = "GROWING" /\ Holds(t, id) /\ Target(t, id, mode) = lock_table[id][t]
            => ~Throws(t, id, mode)

\* Two-phase locking: after its first release a transaction acquires nothing,
\* neither a new item nor a stronger mode on one it still holds.
TwoPhase ==
    [][\A t \in Txn : \A id \in DataId :
          state[t] = "SHRINKING"
              => lock_table'[id][t] \in {lock_table[id][t], "NON_LOCK"}]_lockVars

\* An upgrade never weakens: as long as a transaction keeps an item, its new
\* mode excludes every mode its old one excluded.
UpgradeKeepsExclusion ==
    [][\A t \in Txn : \A id \in DataId : \A m \in LockMode :
          Holds(t, id) /\ lock_table'[id][t] # "NON_LOCK"
              /\ compatible(m, lock_table'[id][t])
              => compatible(m, lock_table[id][t])]_lockVars

=============================================================================
