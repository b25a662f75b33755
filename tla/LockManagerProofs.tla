------------------------- MODULE LockManagerProofs -------------------------
(***************************************************************************)
(* Proofs about the lock manager, for any sets of transactions, tables and *)
(* records.  The inductive invariant is the type invariant, the pairwise   *)
(* compatibility of granted modes, the agreement of lock_set_ with the     *)
(* queues, and the intention a growing transaction holds on the table of   *)
(* every record it has locked.                                             *)
(***************************************************************************)
EXTENDS LockManager, TLAPS

-----------------------------------------------------------------------------
(* The mode algebra.                                                       *)

\* compatible, written as a table of requested against granted modes, is
\* symmetric: who came first does not matter.
LEMMA CompatibleSymmetric ==
    ASSUME NEW a \in LockMode, NEW b \in LockMode
    PROVE  compatible(a, b) <=> compatible(b, a)
BY DEF LockMode, compatible

\* combine returns a mode.
LEMMA CombineType ==
    ASSUME NEW a \in LockMode, NEW b \in LockMode
    PROVE  combine(a, b) \in LockMode
BY DEF LockMode, combine, subsumes

\* combine returns a mode that excludes whatever one of its operands excludes.
LEMMA CombineCovers ==
    ASSUME NEW a \in LockMode, NEW b \in LockMode, NEW m \in LockMode,
           compatible(m, combine(a, b))
    PROVE  compatible(m, a) /\ compatible(m, b)
BY DEF LockMode, combine, subsumes, compatible

\* combine never leaves the modes that cover an intention.
LEMMA CombineIntention ==
    ASSUME NEW a \in LockMode, NEW b \in LockMode, NEW m \in {"S", "X"}
    PROVE  /\ a \in Intention(m) => combine(a, b) \in Intention(m)
           /\ b \in Intention(m) => combine(a, b) \in Intention(m)
BY DEF LockMode, combine, subsumes, Intention

\* group_mode returns a group mode.
LEMMA GroupModeType ==
    ASSUME NEW queue \in [Txn -> GroupLockMode]
    PROVE  group_mode(queue) \in GroupLockMode
BY DEF group_mode, GroupLockMode, LockMode

\* The mode request_lock aims at is a mode.
LEMMA TargetType ==
    ASSUME TypeOK, NEW t \in Txn, NEW id \in DataId, NEW mode \in LockMode
    PROVE  Target(t, id, mode) \in LockMode
<1>1. lock_table[id][t] \in GroupLockMode
  BY DEF TypeOK
<1>2. CASE Holds(t, id)
  <2>1. lock_table[id][t] \in LockMode
    BY <1>1, <1>2 DEF Holds, GroupLockMode
  <2> QED
    BY <1>2, <2>1, CombineType DEF Target
<1> QED
  BY <1>2 DEF Target

-----------------------------------------------------------------------------
(* The steps of Next, reduced to the two that change the lock table.       *)

\* A request made by one of the public operations.
Requests(t, id, mode, next) ==
    /\ id \in DataId /\ mode \in LockMode
    /\ next \in Request \cup {NoRequest}
    /\ request_lock(t, id, mode, next)
    /\ \/ /\ pending[t] = NoRequest
          /\ id.rid = NoRid
          /\ \/ next = NoRequest
             \/ /\ next.id.fd = id.fd /\ next.id.rid # NoRid
                /\ next.mode \in {"S", "X"}
                /\ mode \in Intention(next.mode)
       \/ /\ pending[t] # NoRequest
          /\ id = pending[t].id /\ mode = pending[t].mode /\ next = NoRequest

\* Every call of a thread is one request_lock or one unlock.
LEMMA NextCases ==
    ASSUME TypeOK, Next
    PROVE  \E t \in Txn :
             \/ \E id \in DataId, mode \in LockMode,
                   next \in Request \cup {NoRequest} : Requests(t, id, mode, next)
             \/ \E id \in DataId : unlock(t, id)
<1> PICK t \in Txn : \/ TableCall(t)
                     \/ RecordCall(t)
                     \/ lock_record(t)
                     \/ \E id \in DataId : unlock(t, id)
  BY DEF Next
<1>1. CASE TableCall(t)
  <2> PICK fd \in Fd : \/ lock_shared_on_table(t, fd)
                       \/ lock_exclusive_on_table(t, fd)
                       \/ lock_IS_on_table(t, fd)
                       \/ lock_IX_on_table(t, fd)
    BY <1>1 DEF TableCall
  <2>1. TableId(fd) \in DataId /\ TableId(fd).rid = NoRid
    BY DEF TableId, DataId
  <2>2. PICK mode \in LockMode : /\ pending[t] = NoRequest
                                 /\ request_lock(t, TableId(fd), mode, NoRequest)
    BY DEF LockMode, lock_shared_on_table, lock_exclusive_on_table,
           lock_IS_on_table, lock_IX_on_table
  <2>3. Requests(t, TableId(fd), mode, NoRequest)
    BY <2>1, <2>2 DEF Requests
  <2> QED
    BY <2>1, <2>3
<1>2. CASE RecordCall(t)
  <2> PICK fd \in Fd, rid \in Rid : \/ lock_shared_on_record(t, fd, rid)
                                    \/ lock_exclusive_on_record(t, fd, rid)
    BY <1>2 DEF RecordCall
  <2>1. /\ TableId(fd) \in DataId /\ TableId(fd).rid = NoRid /\ TableId(fd).fd = fd
        /\ RecordId(fd, rid) \in DataId /\ RecordId(fd, rid).rid # NoRid
        /\ RecordId(fd, rid).fd = fd
    BY NoRidAssumption DEF TableId, RecordId, DataId
  <2>2. PICK mode \in {"IS", "IX"}, rmode \in {"S", "X"} :
           /\ pending[t] = NoRequest
           /\ mode \in Intention(rmode)
           /\ request_lock(t, TableId(fd), mode, Req(RecordId(fd, rid), rmode))
    BY DEF lock_shared_on_record, lock_exclusive_on_record, Intention, LockMode
  <2> DEFINE next == Req(RecordId(fd, rid), rmode)
  <2>3. /\ next \in Request /\ next.id = RecordId(fd, rid) /\ next.mode = rmode
        /\ mode \in LockMode
    BY <2>1, <2>2 DEF Req, Request, LockMode
  <2>4. Requests(t, TableId(fd), mode, next)
    BY <2>1, <2>2, <2>3 DEF Requests
  <2> QED
    BY <2>1, <2>3, <2>4
<1>3. CASE lock_record(t)
  <2>1. pending[t] \in Request
    BY <1>3 DEF TypeOK, lock_record
  <2>2. pending[t].id \in DataId /\ pending[t].mode \in LockMode
    BY <2>1 DEF Request
  <2>3. Requests(t, pending[t].id, pending[t].mode, NoRequest)
    BY <1>3, <2>2 DEF lock_record, Requests
  <2> QED
    BY <2>2, <2>3
<1> QED
  BY <1>1, <1>2, <1>3

-----------------------------------------------------------------------------
(* Type correctness.                                                       *)

\* A granted request changes one mode to the target and one lock set.
LEMMA GrantEffect ==
    ASSUME TypeOK, NEW t \in Txn, NEW id \in DataId, NEW mode \in LockMode,
           Grant(t, id, mode)
    PROVE  /\ lock_table' \in [DataId -> [Txn -> GroupLockMode]]
           /\ lock_table'[id][t] = Target(t, id, mode)
           /\ \A i \in DataId, u \in Txn :
                 i # id \/ u # t => lock_table'[i][u] = lock_table[i][u]
           /\ lock_set' \in [Txn -> SUBSET DataId]
           /\ lock_set'[t] = lock_set[t] \cup {id}
           /\ \A u \in Txn : u # t => lock_set'[u] = lock_set[u]
           /\ group_lock_mode' \in [DataId -> GroupLockMode]
<1>1. Target(t, id, mode) \in LockMode
  BY TargetType
<1> DEFINE queue == [lock_table[id] EXCEPT ![t] = Target(t, id, mode)]
<1>2. queue \in [Txn -> GroupLockMode]
  BY <1>1 DEF TypeOK, GroupLockMode
<1>3. group_mode(queue) \in GroupLockMode
  BY <1>2, GroupModeType
<1> QED
  BY <1>1, <1>2, <1>3 DEF Grant, TypeOK

\* A release clears one mode and removes one item from one lock set.
LEMMA ReleaseEffect ==
    ASSUME TypeOK, NEW t \in Txn, NEW id \in DataId, Release(t, id)
    PROVE  /\ lock_table' \in [DataId -> [Txn -> GroupLockMode]]
           /\ lock_table'[id][t] = "NON_LOCK"
           /\ \A i \in DataId, u \in Txn :
                 i # id \/ u # t => lock_table'[i][u] = lock_table[i][u]
           /\ lock_set' \in [Txn -> SUBSET DataId]
           /\ lock_set'[t] = lock_set[t] \ {id}
           /\ \A u \in Txn : u # t => lock_set'[u] = lock_set[u]
           /\ group_lock_mode' \in [DataId -> GroupLockMode]
           /\ state' \in [Txn -> TransactionState]
           /\ state'[t] # "GROWING"
           /\ \A u \in Txn : u # t => state'[u] = state[u]
<1> DEFINE queue == [lock_table[id] EXCEPT ![t] = "NON_LOCK"]
<1>1. queue \in [Txn -> GroupLockMode]
  BY DEF TypeOK, GroupLockMode
<1>2. group_mode(queue) \in GroupLockMode
  BY <1>1, GroupModeType
<1> QED
  BY <1>1, <1>2 DEF Release, TypeOK, TransactionState

\* No call of the lock manager breaks the types of its members.
LEMMA TypeStep == TypeOK /\ [Next]_lockVars => TypeOK'
<1> SUFFICES ASSUME TypeOK, [Next]_lockVars PROVE TypeOK'
  OBVIOUS
<1>1. CASE UNCHANGED lockVars
  BY <1>1 DEF TypeOK, lockVars
<1>2. ASSUME NEW t \in Txn, NEW id \in DataId, NEW mode \in LockMode,
             NEW next \in Request \cup {NoRequest}, Requests(t, id, mode, next)
      PROVE  TypeOK'
  <2>1. pending' \in [Txn -> Request \cup {NoRequest}] /\ state' = state
    BY <1>2 DEF Requests, request_lock, TypeOK
  <2>2. CASE UNCHANGED <<lock_table, group_lock_mode, lock_set>>
    BY <2>1, <2>2 DEF TypeOK
  <2>3. CASE Grant(t, id, mode)
    BY <2>1, <2>3, GrantEffect DEF TypeOK
  <2> QED
    BY <1>2, <2>2, <2>3 DEF Requests, request_lock
<1>3. ASSUME NEW t \in Txn, NEW id \in DataId, unlock(t, id)
      PROVE  TypeOK'
  BY <1>3, ReleaseEffect DEF unlock, TypeOK
<1> QED
  BY <1>1, <1>2, <1>3, NextCases

\* The members of the lock manager and of the transactions always hold values
\* of their types, whatever the threads call.
THEOREM TypeCorrect == Spec => []TypeOK
<1>1. Init => TypeOK
  BY DEF Init, TypeOK, GroupLockMode, TransactionState
<1> QED
  BY <1>1, TypeStep, PTL DEF Spec

-----------------------------------------------------------------------------
(* The inductive invariant.                                                *)

IInv == TypeOK /\ GrantedCompatible /\ LockSetAgrees /\ IntentionHeld

\* A mode that request_lock grants is compatible with the modes of others.
LEMMA GrantCompatible ==
    ASSUME TypeOK, GrantedCompatible, NEW t \in Txn, NEW id \in DataId,
           NEW mode \in LockMode, ~Conflicts(t, id, mode), Grant(t, id, mode)
    PROVE  GrantedCompatible'
<1> SUFFICES ASSUME NEW i \in DataId, NEW u \in Txn, NEW v \in Txn, u # v,
                    lock_table'[i][u] # "NON_LOCK", lock_table'[i][v] # "NON_LOCK"
             PROVE  compatible(lock_table'[i][u], lock_table'[i][v])
  BY DEF GrantedCompatible, Holds
<1>1. \A j \in DataId, w \in Txn :
         lock_table[j][w] # "NON_LOCK" => lock_table[j][w] \in LockMode
  BY DEF TypeOK, GroupLockMode
<1>2. Target(t, id, mode) \in LockMode
  BY TargetType
<1>3. CASE i # id \/ (u # t /\ v # t)
  BY <1>3, GrantEffect DEF GrantedCompatible, Holds
<1>4. CASE i = id /\ u = t
  BY <1>1, <1>2, <1>4, GrantEffect, CompatibleSymmetric DEF Conflicts, Holds
<1>5. CASE i = id /\ v = t
  BY <1>1, <1>2, <1>5, GrantEffect, CompatibleSymmetric DEF Conflicts, Holds
<1> QED
  BY <1>3, <1>4, <1>5

\* A granted request keeps every intention in place and adds the one that a
\* following record request relies on.
LEMMA RequestIntention ==
    ASSUME TypeOK, IntentionHeld, NEW t \in Txn, NEW id \in DataId,
           NEW mode \in LockMode, NEW next \in Request \cup {NoRequest},
           Requests(t, id, mode, next), ~Throws(t, id, mode)
    PROVE  IntentionHeld'
<1> DEFINE held == IF Subsumed(t, id, mode) THEN lock_table[id][t] ELSE Target(t, id, mode)
<1>1. /\ state' = state /\ state[t] = "GROWING"
      /\ pending' = [pending EXCEPT ![t] = next]
      /\ lock_table'[id][t] = held
      /\ \A i \in DataId, u \in Txn :
            i # id \/ u # t => lock_table'[i][u] = lock_table[i][u]
  BY GrantEffect DEF Requests, request_lock, Throws
<1>2. /\ \A i \in DataId, u \in Txn : lock_table[i][u] \in GroupLockMode
      /\ pending \in [Txn -> Request \cup {NoRequest}]
  BY DEF TypeOK
<1>3. /\ held \in LockMode
      /\ \A m \in {"S", "X"} : mode \in Intention(m) => held \in Intention(m)
      /\ \A m \in {"S", "X"} : lock_table[id][t] \in Intention(m) => held \in Intention(m)
      /\ \A m \in {"S", "X"} : lock_table[id][t] \in {"S", "X", "NON_LOCK"} /\ mode = m
            => held \in {"S", "X"} /\ (held = "X" => m = "X" \/ lock_table[id][t] = "X")
  <2>1. CASE ~Holds(t, id)
    <3>1. held = mode /\ lock_table[id][t] = "NON_LOCK"
      BY <2>1 DEF Target, Subsumed, Holds
    <3> QED
      BY <3>1 DEF Intention, LockMode
  <2>2. CASE Holds(t, id)
    <3>1. lock_table[id][t] \in LockMode
      BY <1>2, <2>2 DEF Holds, GroupLockMode
    <3>2. held = combine(lock_table[id][t], mode)
      BY <2>2 DEF Target, Subsumed, combine
    <3> HIDE DEF held
    <3>3. \A m \in {"S", "X"} : lock_table[id][t] \in {"S", "X", "NON_LOCK"} /\ mode = m
            => held \in {"S", "X"} /\ (held = "X" => m = "X" \/ lock_table[id][t] = "X")
      BY <3>1, <3>2 DEF combine, subsumes, LockMode
    <3> QED
      BY <3>1, <3>2, <3>3, CombineType, CombineIntention
  <2> QED
    BY <2>1, <2>2
<1> HIDE DEF held
<1>4. ASSUME NEW u \in Txn, NEW fd \in Fd, NEW rid \in Rid,
             lock_table'[RecordId(fd, rid)][u] # "NON_LOCK"
      PROVE  /\ lock_table'[RecordId(fd, rid)][u] \in {"S", "X"}
             /\ state'[u] = "GROWING" =>
                  lock_table'[TableId(fd)][u] \in Intention(lock_table'[RecordId(fd, rid)][u])
  <2> DEFINE r == RecordId(fd, rid)
             tb == TableId(fd)
  <2>1. r \in DataId /\ tb \in DataId /\ r # tb /\ r.rid # NoRid /\ tb.rid = NoRid
        /\ r.fd = fd
    BY NoRidAssumption DEF RecordId, TableId, DataId
  <2>2. lock_table[r][u] # "NON_LOCK" =>
           /\ lock_table[r][u] \in {"S", "X"}
           /\ state[u] = "GROWING" => lock_table[tb][u] \in Intention(lock_table[r][u])
    BY DEF IntentionHeld, Holds
  <2>3. CASE u # t \/ (id # r /\ id # tb)
    BY <1>1, <1>4, <2>1, <2>2, <2>3
  <2>4. CASE u = t /\ id = tb
    BY <1>1, <1>3, <1>4, <2>1, <2>2, <2>4
  <2>5. CASE u = t /\ id = r
    <3>1. /\ pending[t] # NoRequest /\ id = pending[t].id /\ mode = pending[t].mode
      BY <2>1, <2>5 DEF Requests
    <3>2. mode \in {"S", "X"} /\ lock_table[tb][t] \in Intention(mode)
      BY <2>1, <2>5, <3>1 DEF IntentionHeld
    <3>3. held \in {"S", "X"} /\ (held = "X" => mode = "X" \/ lock_table[r][t] = "X")
      BY <1>2, <1>3, <2>1, <2>2, <2>5, <3>2
    <3>4. lock_table'[tb][t] = lock_table[tb][t] /\ lock_table'[r][t] = held
      BY <1>1, <2>1, <2>5
    <3>5. lock_table[tb][t] \in Intention(held)
      <4>1. CASE held = "S"
        BY <3>2, <4>1 DEF Intention, LockMode
      <4>2. CASE held = "X" /\ mode = "X"
        BY <3>2, <4>2
      <4>3. CASE held = "X" /\ lock_table[r][t] = "X"
        BY <1>1, <2>2, <2>5, <4>3
      <4> QED
        BY <3>3, <4>1, <4>2, <4>3
    <3> QED
      BY <2>5, <3>3, <3>4, <3>5
  <2> QED
    BY <2>3, <2>4, <2>5
<1>5. ASSUME NEW u \in Txn, pending'[u] # NoRequest
      PROVE  /\ state'[u] = "GROWING"
             /\ pending'[u].id.rid # NoRid
             /\ pending'[u].mode \in {"S", "X"}
             /\ lock_table'[TableId(pending'[u].id.fd)][u] \in Intention(pending'[u].mode)
  <2>1. CASE u # t
    <3>1. pending'[u] = pending[u] /\ pending[u] \in Request
      BY <1>1, <1>2, <1>5, <2>1
    <3>2. TableId(pending[u].id.fd) \in DataId
      BY <3>1 DEF Request, DataId, TableId
    <3> QED
      BY <1>1, <1>5, <2>1, <3>1, <3>2 DEF IntentionHeld
  <2>2. CASE u = t
    <3>1. pending'[t] = next /\ next # NoRequest
      BY <1>1, <1>2, <1>5, <2>2
    <3>2. /\ id.rid = NoRid /\ next.id.fd = id.fd /\ next.id.rid # NoRid
          /\ next.mode \in {"S", "X"} /\ mode \in Intention(next.mode)
      BY <3>1 DEF Requests
    <3>3. TableId(next.id.fd) = id
      BY <3>2 DEF TableId, DataId
    <3> QED
      BY <1>1, <1>3, <2>2, <3>1, <3>2, <3>3
  <2> QED
    BY <2>1, <2>2
<1> QED
  BY <1>4, <1>5 DEF IntentionHeld, Holds

\* No call of the lock manager breaks the inductive invariant.
LEMMA InvStep == IInv /\ [Next]_lockVars => IInv'
<1> SUFFICES ASSUME IInv, [Next]_lockVars PROVE IInv'
  OBVIOUS
<1> USE DEF IInv
<1>1. TypeOK'
  BY TypeStep
<1>2. CASE UNCHANGED lockVars
  BY <1>1, <1>2 DEF lockVars, GrantedCompatible, LockSetAgrees, IntentionHeld, Holds
<1>3. ASSUME NEW t \in Txn, NEW id \in DataId, NEW mode \in LockMode,
             NEW next \in Request \cup {NoRequest}, Requests(t, id, mode, next)
      PROVE  IInv'
  <2>1. CASE Throws(t, id, mode)
    <3>1. /\ UNCHANGED <<lock_table, group_lock_mode, lock_set, state>>
          /\ pending' = [pending EXCEPT ![t] = NoRequest]
      BY <1>3, <2>1 DEF Requests, request_lock
    <3>2. IntentionHeld'
      BY <3>1 DEF IntentionHeld, Holds, TypeOK
    <3> QED
      BY <1>1, <3>1, <3>2 DEF GrantedCompatible, LockSetAgrees, Holds
  <2>2. CASE ~Throws(t, id, mode)
    <3>1. IntentionHeld'
      BY <1>3, <2>2, RequestIntention
    <3>2. CASE Subsumed(t, id, mode)
      <4>1. UNCHANGED <<lock_table, lock_set>>
        BY <1>3, <2>2, <3>2 DEF Requests, request_lock
      <4> QED
        BY <1>1, <3>1, <4>1 DEF GrantedCompatible, LockSetAgrees, Holds
    <3>3. CASE ~Subsumed(t, id, mode)
      <4>1. Grant(t, id, mode) /\ ~Conflicts(t, id, mode)
        BY <1>3, <2>2, <3>3 DEF Requests, request_lock, Throws
      <4>2. GrantedCompatible'
        BY <4>1, GrantCompatible
      <4>3. Target(t, id, mode) # "NON_LOCK"
        BY TargetType DEF LockMode
      <4>4. LockSetAgrees'
        BY <4>1, <4>3, GrantEffect DEF LockSetAgrees, Holds
      <4> QED
        BY <1>1, <3>1, <4>2, <4>4
    <3> QED
      BY <3>2, <3>3
  <2> QED
    BY <2>1, <2>2
<1>4. ASSUME NEW t \in Txn, NEW id \in DataId, unlock(t, id)
      PROVE  IInv'
  <2>1. Release(t, id) /\ pending' = pending /\ pending[t] = NoRequest
    BY <1>4 DEF unlock
  <2>2. GrantedCompatible'
    BY <2>1, ReleaseEffect DEF GrantedCompatible, Holds
  <2>3. LockSetAgrees'
    BY <2>1, ReleaseEffect DEF LockSetAgrees, Holds
  <2>4. IntentionHeld'
    <3>1. \A fd \in Fd, rid \in Rid : RecordId(fd, rid) \in DataId /\ TableId(fd) \in DataId
      BY DEF RecordId, TableId, DataId
    <3>2. ASSUME NEW u \in Txn, pending[u] # NoRequest
          PROVE  TableId(pending[u].id.fd) \in DataId
      BY <3>2 DEF TypeOK, Request, DataId, TableId
    <3>3. ASSUME NEW u \in Txn, NEW fd \in Fd, NEW rid \in Rid,
                 lock_table'[RecordId(fd, rid)][u] # "NON_LOCK"
          PROVE  /\ lock_table'[RecordId(fd, rid)][u] \in {"S", "X"}
                 /\ state'[u] = "GROWING" =>
                      lock_table'[TableId(fd)][u]
                          \in Intention(lock_table'[RecordId(fd, rid)][u])
      <4>1. lock_table'[RecordId(fd, rid)][u] = lock_table[RecordId(fd, rid)][u]
        BY <2>1, <3>1, <3>3, ReleaseEffect
      <4>2. CASE u = t
        BY <2>1, <3>3, <4>1, <4>2, ReleaseEffect DEF IntentionHeld, Holds
      <4>3. CASE u # t
        <5>1. /\ lock_table'[TableId(fd)][u] = lock_table[TableId(fd)][u]
              /\ state'[u] = state[u]
          BY <2>1, <3>1, <4>3, ReleaseEffect
        <5> QED
          BY <3>3, <4>1, <5>1 DEF IntentionHeld, Holds
      <4> QED
        BY <4>2, <4>3
    <3>4. ASSUME NEW u \in Txn, pending[u] # NoRequest
          PROVE  /\ state'[u] = "GROWING"
                 /\ pending[u].id.rid # NoRid
                 /\ pending[u].mode \in {"S", "X"}
                 /\ lock_table'[TableId(pending[u].id.fd)][u] \in Intention(pending[u].mode)
      <4>1. u # t
        BY <2>1, <3>4
      <4>2. /\ lock_table'[TableId(pending[u].id.fd)][u]
                 = lock_table[TableId(pending[u].id.fd)][u]
            /\ state'[u] = state[u]
        BY <2>1, <3>2, <3>4, <4>1, ReleaseEffect
      <4> QED
        BY <3>4, <4>2 DEF IntentionHeld
    <3> QED
      BY <2>1, <3>3, <3>4 DEF IntentionHeld, Holds
  <2> QED
    BY <1>1, <2>2, <2>3, <2>4
<1> QED
  BY <1>2, <1>3, <1>4, NextCases

\* The inductive invariant holds initially and at every step.
THEOREM Invariance == Spec => []IInv
<1>1. Init => IInv
  <2> SUFFICES ASSUME Init PROVE IInv
    OBVIOUS
  <2>1. TypeOK
    BY DEF Init, TypeOK, GroupLockMode, TransactionState
  <2>2. \A id \in DataId, t \in Txn : lock_table[id][t] = "NON_LOCK"
    BY DEF Init
  <2>3. \A fd \in Fd, rid \in Rid : RecordId(fd, rid) \in DataId
    BY DEF RecordId, DataId
  <2>4. \A t \in Txn : lock_set[t] = {} /\ pending[t] = NoRequest
    BY DEF Init
  <2> QED
    BY <2>1, <2>2, <2>3, <2>4 DEF IInv, GrantedCompatible, LockSetAgrees, IntentionHeld, Holds
<1> QED
  BY <1>1, InvStep, PTL DEF Spec

-----------------------------------------------------------------------------
(* What follows from the invariant.                                        *)

\* Granted modes on one item are pairwise compatible, for any number of
\* threads, tables and records.
THEOREM GrantedCompatibleAlways == Spec => []GrantedCompatible
<1>1. IInv => GrantedCompatible
  BY DEF IInv
<1> QED
  BY <1>1, Invariance, PTL

\* lock_set_ and the queues always name the same locks, so the release loops
\* of commit and abort release every lock of the transaction.
THEOREM LockSetAgreesAlways == Spec => []LockSetAgrees
<1>1. IInv => LockSetAgrees
  BY DEF IInv
<1> QED
  BY <1>1, Invariance, PTL

\* The intention a record lock needs is held on its table.
THEOREM IntentionHeldAlways == Spec => []IntentionHeld
<1>1. IInv => IntentionHeld
  BY DEF IInv
<1> QED
  BY <1>1, Invariance, PTL

\* Table locks and record locks together exclude: two growing transactions
\* never have conflicting rights on a record.
THEOREM NoImplicitConflictAlways == Spec => []NoImplicitConflict
<1>1. ASSUME IInv PROVE NoImplicitConflict
  <2> SUFFICES ASSUME NEW t \in Txn, NEW u \in Txn, NEW fd \in Fd, NEW rid \in Rid,
                      t # u, state[t] = "GROWING", state[u] = "GROWING",
                      MayWrite(t, fd, rid), MayRead(u, fd, rid) \/ MayWrite(u, fd, rid)
               PROVE  FALSE
    BY DEF NoImplicitConflict
  <2> DEFINE r == RecordId(fd, rid)
             tb == TableId(fd)
  <2>1. r \in DataId /\ tb \in DataId
    BY DEF RecordId, TableId, DataId
  <2>2. \A id \in {r, tb} : \A v, w \in {t, u} :
           v # w /\ lock_table[id][v] # "NON_LOCK" /\ lock_table[id][w] # "NON_LOCK"
               => compatible(lock_table[id][v], lock_table[id][w])
    BY <1>1, <2>1 DEF IInv, GrantedCompatible, Holds
  <2>3. \A v \in {t, u} : lock_table[r][v] # "NON_LOCK" =>
           /\ lock_table[r][v] \in {"S", "X"}
           /\ lock_table[tb][v] \in Intention(lock_table[r][v])
    BY <1>1 DEF IInv, IntentionHeld, Holds
  <2>4. \A v \in {t, u} : lock_table[tb][v] \in GroupLockMode /\ lock_table[r][v] \in GroupLockMode
    BY <1>1, <2>1 DEF IInv, TypeOK
  <2>5. CASE lock_table[tb][t] = "X"
    <3>1. lock_table[tb][u] = "NON_LOCK"
      BY <2>2, <2>4, <2>5 DEF compatible
    <3>2. lock_table[r][u] = "NON_LOCK"
      BY <2>3, <3>1 DEF Intention, LockMode
    <3> QED
      BY <3>1, <3>2 DEF MayRead, MayWrite
  <2>6. CASE lock_table[r][t] = "X"
    <3>1. lock_table[tb][t] \in {"IX", "SIX", "X"}
      BY <2>3, <2>6 DEF Intention
    <3>2. lock_table[r][u] = "NON_LOCK"
      BY <2>2, <2>4, <2>6 DEF compatible
    <3>3. lock_table[tb][u] \in {"S", "SIX", "X"}
      BY <3>2 DEF MayRead, MayWrite
    <3> QED
      BY <2>2, <3>1, <3>3 DEF compatible
  <2> QED
    BY <2>5, <2>6 DEF MayWrite
<1> QED
  BY <1>1, Invariance, PTL

\* A request for what the transaction already has never aborts it.
THEOREM CoveredRequestGrantedAlways == Spec => []CoveredRequestGranted
<1>1. ASSUME IInv PROVE CoveredRequestGranted
  <2> SUFFICES ASSUME NEW t \in Txn, NEW id \in DataId, NEW mode \in LockMode,
                      state[t] = "GROWING", Holds(t, id),
                      Target(t, id, mode) = lock_table[id][t]
               PROVE  ~Conflicts(t, id, mode)
    BY DEF CoveredRequestGranted, Throws
  <2> QED
    BY <1>1 DEF IInv, GrantedCompatible, Conflicts
<1> QED
  BY <1>1, Invariance, PTL

-----------------------------------------------------------------------------
(* Action properties.                                                      *)

\* After its first release a transaction acquires no lock and no stronger
\* mode.
THEOREM TwoPhaseLocking == Spec => TwoPhase
<1> DEFINE A == \A t \in Txn : \A id \in DataId :
                    state[t] = "SHRINKING"
                        => lock_table'[id][t] \in {lock_table[id][t], "NON_LOCK"}
<1>1. ASSUME TypeOK, [Next]_lockVars PROVE [A]_lockVars
  <2>1. ASSUME NEW t \in Txn, NEW id \in DataId, NEW mode \in LockMode,
               NEW next \in Request \cup {NoRequest}, Requests(t, id, mode, next)
        PROVE  A
    <3>1. CASE Throws(t, id, mode) \/ Subsumed(t, id, mode)
      BY <2>1, <3>1 DEF Requests, request_lock
    <3>2. CASE ~Throws(t, id, mode) /\ ~Subsumed(t, id, mode)
      <4>1. Grant(t, id, mode) /\ state[t] = "GROWING"
        BY <2>1, <3>2 DEF Requests, request_lock, Throws
      <4> QED
        BY <1>1, <4>1, GrantEffect
    <3> QED
      BY <3>1, <3>2
  <2>2. ASSUME NEW t \in Txn, NEW id \in DataId, unlock(t, id)
        PROVE  A
    BY <1>1, <2>2, ReleaseEffect DEF unlock
  <2> QED
    BY <1>1, <2>1, <2>2, NextCases
<1> QED
  BY <1>1, TypeCorrect, PTL DEF Spec, TwoPhase

\* A transaction that keeps an item never holds it in a mode that excludes
\* less than before.
THEOREM UpgradeKeepsExclusionAlways == Spec => UpgradeKeepsExclusion
<1> DEFINE A == \A t \in Txn : \A id \in DataId : \A m \in LockMode :
                    Holds(t, id) /\ lock_table'[id][t] # "NON_LOCK"
                        /\ compatible(m, lock_table'[id][t])
                        => compatible(m, lock_table[id][t])
<1>1. ASSUME TypeOK, [Next]_lockVars PROVE [A]_lockVars
  <2>1. ASSUME NEW t \in Txn, NEW id \in DataId, NEW mode \in LockMode,
               NEW next \in Request \cup {NoRequest}, Requests(t, id, mode, next)
        PROVE  A
    <3>1. CASE Throws(t, id, mode) \/ Subsumed(t, id, mode)
      BY <2>1, <3>1 DEF Requests, request_lock
    <3>2. CASE ~Throws(t, id, mode) /\ ~Subsumed(t, id, mode)
      <4>1. Grant(t, id, mode)
        BY <2>1, <3>2 DEF Requests, request_lock
      <4>2. Holds(t, id) => /\ lock_table[id][t] \in LockMode
                            /\ Target(t, id, mode) = combine(lock_table[id][t], mode)
        BY <1>1 DEF Holds, Target, TypeOK, GroupLockMode
      <4> QED
        BY <1>1, <4>1, <4>2, GrantEffect, CombineCovers DEF Holds
    <3> QED
      BY <3>1, <3>2
  <2>2. ASSUME NEW t \in Txn, NEW id \in DataId, unlock(t, id)
        PROVE  A
    BY <1>1, <2>2, ReleaseEffect DEF unlock, Holds
  <2> QED
    BY <1>1, <2>1, <2>2, NextCases
<1> QED
  BY <1>1, TypeCorrect, PTL DEF Spec, UpgradeKeepsExclusion

=============================================================================
