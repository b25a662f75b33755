---------------------- MODULE TransactionManagerProofs ----------------------
(***************************************************************************)
(* Proofs about transactions, for any sets of transactions, tables,        *)
(* records and contents.  The lock manager keeps granted modes compatible; *)
(* on top of that, a table with an unfinished change is locked in X by the *)
(* transaction that made it, a table somebody has read from is locked by   *)
(* the reader, and the write sets lead back from what is in the files to   *)
(* what is committed.  First the steps that change no record, then the     *)
(* steps that read and change records, then the theorems.                  *)
(***************************************************************************)
EXTENDS TransactionManager, LockManagerProofs

Label == {"read", "lock_s", "scan", "lock_x", "apply", "reply", "commit", "abort", "undo",
          "unlock_commit", "unlock_abort", "gone"}
Content == Val \cup {Absent}
WriteRecord == [wtype : {"INSERT_TUPLE", "DELETE_TUPLE", "UPDATE_TUPLE"}, fd : Fd, rid : Rid,
                record : Content]
Statement == [op : Op, fd : Fd, rids : SUBSET Rid, left : SUBSET Rid,
              ret : {"read", "reply"}, base : Nat, failed : BOOLEAN]

TMType ==
    /\ heap \in [Fd -> [Rid -> Content]] /\ committed \in [Fd -> [Rid -> Content]]
    /\ view \in [Txn -> [Fd -> [Rid -> Content \cup {Unseen}]]]
    /\ write_set \in [Txn -> Seq(WriteRecord)]
    /\ stmt \in [Txn -> Statement]
    /\ pc \in [Txn -> Label]

-----------------------------------------------------------------------------
(* The invariant.                                                          *)

\* The modes that let their holder scan the table.
Reading == {"S", "SIX", "X"}
Mode(t, fd) == lock_table[TableId(fd)][t]

\* What the lock manager guarantees here: statements lock tables only.
LInv ==
    /\ TypeOK /\ GrantedCompatible
    /\ \A t \in Txn : pending[t] = NoRequest

\* Where a thread is in client_handler, and what it has.
Control(t) ==
    /\ pc[t] = "scan" => Mode(t, stmt[t].fd) \in Reading
    /\ pc[t] = "apply" => Mode(t, stmt[t].fd) = "X" /\ state[t] = "GROWING"
    /\ pc[t] \in {"undo", "unlock_commit", "unlock_abort"} => view[t] = Nothing
    /\ pc[t] \in {"unlock_commit", "unlock_abort"} => write_set[t] = <<>>
    /\ state[t] # "GROWING" => write_set[t] = <<>> \/ pc[t] = "undo"

\* The changes of a write set that were made to one record.
On(s, fd, rid) == {i \in DOMAIN s : s[i].fd = fd /\ s[i].rid = rid}

\* The write set s leads from the content now of a record back to base: its
\* oldest change of the record found base there, each younger change found
\* what the one before it left, and the youngest one left now.  What a change
\* left is known up to whether there is a record.
History(s, fd, rid, now, base) ==
    LET mine == On(s, fd, rid)
    IN  /\ mine = {} => now = base
        /\ mine # {} => \E i \in mine : (\A j \in mine : i <= j) /\ s[i].record = base
        /\ \A i, j \in mine : i < j /\ (\A k \in mine : k <= i \/ j <= k)
              => (s[j].record = Absent <=> s[i].wtype = "DELETE_TUPLE")
        /\ \A i \in mine : (\A j \in mine : j <= i)
              => (now = Absent <=> s[i].wtype = "DELETE_TUPLE")

\* A record with an unfinished change of t.
Dirty(t, fd, rid) == On(write_set[t], fd, rid) # {}

Record(fd, rid) ==
    /\ (\A t \in Txn : ~Dirty(t, fd, rid)) => heap[fd][rid] = committed[fd][rid]
    /\ \A t \in Txn : Dirty(t, fd, rid) =>
          /\ Mode(t, fd) = "X"
          /\ History(write_set[t], fd, rid, heap[fd][rid], committed[fd][rid])
    /\ \A t \in Txn : view[t][fd][rid] # Unseen =>
          Mode(t, fd) \in Reading /\ view[t][fd][rid] = committed[fd][rid]

\* What an INSERT found is a free slot.
InsertsFresh(t) ==
    \A i \in DOMAIN write_set[t] :
        write_set[t][i].wtype = "INSERT_TUPLE" => write_set[t][i].record = Absent

TMInv ==
    /\ LInv /\ TMType
    /\ \A t \in Txn : Control(t) /\ InsertsFresh(t)
    /\ \A fd \in Fd, rid \in Rid : Record(fd, rid)

-----------------------------------------------------------------------------
(* Write sets.                                                             *)

\* A change appended to a write set belongs to its own record only.
LEMMA OnAppend ==
    ASSUME NEW s \in Seq(WriteRecord), NEW w \in WriteRecord, NEW fd, NEW rid
    PROVE  /\ DOMAIN s = 1 .. Len(s) /\ Len(s) \in Nat
           /\ \A i \in DOMAIN s : Append(s, w)[i] = s[i]
           /\ Append(s, w)[Len(s) + 1] = w
           /\ DOMAIN Append(s, w) = DOMAIN s \cup {Len(s) + 1}
           /\ On(Append(s, w), fd, rid) =
                 IF w.fd = fd /\ w.rid = rid THEN On(s, fd, rid) \cup {Len(s) + 1}
                 ELSE On(s, fd, rid)
<1>1. /\ DOMAIN s = 1 .. Len(s) /\ Len(s) \in Nat
      /\ \A i \in DOMAIN s : Append(s, w)[i] = s[i]
      /\ Append(s, w)[Len(s) + 1] = w
      /\ Len(s) + 1 \notin DOMAIN s
  OBVIOUS
<1>2. DOMAIN Append(s, w) = DOMAIN s \cup {Len(s) + 1}
  BY <1>1
<1> QED BY <1>1, <1>2, Zenon DEF On

\* Without its youngest change a write set has lost that change only.
LEMMA OnFront ==
    ASSUME NEW s \in Seq(WriteRecord), s # <<>>, NEW fd, NEW rid
    PROVE  /\ DOMAIN s = 1 .. Len(s) /\ Len(s) \in DOMAIN s
           /\ SubSeq(s, 1, Len(s) - 1) \in Seq(WriteRecord)
           /\ DOMAIN SubSeq(s, 1, Len(s) - 1) = DOMAIN s \ {Len(s)}
           /\ \A i \in DOMAIN s \ {Len(s)} : SubSeq(s, 1, Len(s) - 1)[i] = s[i]
           /\ On(SubSeq(s, 1, Len(s) - 1), fd, rid) = On(s, fd, rid) \ {Len(s)}
<1>1. DOMAIN s = 1 .. Len(s) /\ Len(s) \in Nat /\ Len(s) # 0
  OBVIOUS
<1> DEFINE f == SubSeq(s, 1, Len(s) - 1)
<1>2. f \in Seq(WriteRecord) /\ Len(f) = Len(s) - 1
  BY <1>1
<1>3. DOMAIN f = 1 .. Len(s) - 1 /\ \A i \in 1 .. Len(s) - 1 : f[i] = s[i]
  BY <1>1, <1>2
<1> HIDE DEF f
<1>4. DOMAIN f = DOMAIN s \ {Len(s)}
  BY <1>1, <1>3
<1>5. \A i \in DOMAIN s \ {Len(s)} : f[i] = s[i]
  BY <1>1, <1>3
<1>6. On(f, fd, rid) = On(s, fd, rid) \ {Len(s)}
  BY <1>4, <1>5, Zenon DEF On
<1> QED BY <1>1, <1>2, <1>4, <1>5, <1>6 DEF f

\* The executors append what they find before they change it.
LEMMA HistoryAppend ==
    ASSUME NEW s \in Seq(WriteRecord), NEW w \in WriteRecord, NEW now, NEW base,
           History(s, w.fd, w.rid, w.record, base),
           now = Absent <=> w.wtype = "DELETE_TUPLE"
    PROVE  History(Append(s, w), w.fd, w.rid, now, base)
<1> DEFINE n == Len(s) + 1
           a == Append(s, w)
           old == On(s, w.fd, w.rid)
           mine == On(a, w.fd, w.rid)
<1>1. /\ DOMAIN s = 1 .. Len(s) /\ Len(s) \in Nat /\ old \subseteq 1 .. Len(s)
      /\ \A i \in old : a[i] = s[i]
      /\ a[n] = w /\ mine = old \cup {n}
  BY OnAppend DEF On
<1>2. n \in Nat /\ \A i \in old : i \in Nat /\ i < n
  BY <1>1
<1>3. /\ old = {} => w.record = base
      /\ old # {} => \E i \in old : (\A j \in old : i <= j) /\ s[i].record = base
      /\ \A i, j \in old : i < j /\ (\A k \in old : k <= i \/ j <= k)
            => (s[j].record = Absent <=> s[i].wtype = "DELETE_TUPLE")
      /\ \A i \in old : (\A j \in old : j <= i)
            => (w.record = Absent <=> s[i].wtype = "DELETE_TUPLE")
  BY Zenon DEF History
<1> HIDE DEF n, a, old, mine
<1>4. \E i \in mine : (\A j \in mine : i <= j) /\ a[i].record = base
  <2>1. CASE old = {}
    BY <1>1, <1>2, <1>3, <2>1
  <2>2. CASE old # {}
    BY <1>1, <1>2, <1>3, <2>2
  <2> QED BY <2>1, <2>2, Zenon
<1>5. ASSUME NEW i \in mine, NEW j \in mine, i < j, \A k \in mine : k <= i \/ j <= k
      PROVE  a[j].record = Absent <=> a[i].wtype = "DELETE_TUPLE"
  <2>1. i \in old
    BY <1>1, <1>2, <1>5
  <2>2. CASE j \in old
    <3>1. \A k \in old : k <= i \/ j <= k
      BY <1>1, <1>5, Zenon
    <3>2. s[j].record = Absent <=> s[i].wtype = "DELETE_TUPLE"
      BY <1>3, <1>5, <2>1, <2>2, <3>1, Zenon
    <3> QED BY <1>1, <2>1, <2>2, <3>2, Zenon
  <2>3. CASE j = n
    <3>1. \A k \in old : k <= i
      BY <1>1, <1>2, <1>5, <2>3
    <3> QED BY <1>1, <1>3, <2>1, <2>3, <3>1, Zenon
  <2> QED BY <1>1, <2>2, <2>3, Zenon
<1>6. ASSUME NEW i \in mine, \A j \in mine : j <= i
      PROVE  now = Absent <=> a[i].wtype = "DELETE_TUPLE"
  BY <1>1, <1>2, <1>6
<1> QED BY <1>1, <1>4, <1>5, <1>6, Zenon DEF History, a, mine

\* The undo loop takes back the youngest change and has the history of what
\* it found then.
LEMMA HistoryUndo ==
    ASSUME NEW s \in Seq(WriteRecord), s # <<>>, NEW now, NEW base,
           History(s, s[Len(s)].fd, s[Len(s)].rid, now, base)
    PROVE  History(SubSeq(s, 1, Len(s) - 1), s[Len(s)].fd, s[Len(s)].rid,
                   s[Len(s)].record, base)
<1> DEFINE n == Len(s)
           w == s[Len(s)]
           f == SubSeq(s, 1, Len(s) - 1)
           mine == On(s, w.fd, w.rid)
           rest == On(f, w.fd, w.rid)
<1>1. /\ DOMAIN s = 1 .. n /\ n \in DOMAIN s /\ rest = mine \ {n}
      /\ \A i \in DOMAIN s \ {n} : f[i] = s[i]
  BY OnFront, Zenon
<1>2. n \in mine /\ \A i \in mine : i \in Nat /\ i <= n
  BY <1>1 DEF On
<1>3. /\ \E i \in mine : (\A j \in mine : i <= j) /\ s[i].record = base
      /\ \A i, j \in mine : i < j /\ (\A k \in mine : k <= i \/ j <= k)
            => (s[j].record = Absent <=> s[i].wtype = "DELETE_TUPLE")
  BY <1>2, Zenon DEF History
<1>4. \A i \in rest : i \in mine /\ i < n /\ f[i] = s[i]
  BY <1>1, <1>2 DEF On
<1> HIDE DEF n, f, mine, rest
<1>5. rest = {} => w.record = base
  BY <1>1, <1>2, <1>3, Zenon DEF n
<1>6. rest # {} => \E i \in rest : (\A j \in rest : i <= j) /\ f[i].record = base
  BY <1>1, <1>2, <1>3, <1>4
<1>7. ASSUME NEW i \in rest, NEW j \in rest, i < j, \A k \in rest : k <= i \/ j <= k
      PROVE  f[j].record = Absent <=> f[i].wtype = "DELETE_TUPLE"
  <2>1. \A k \in mine : k <= i \/ j <= k
    BY <1>1, <1>2, <1>4, <1>7, Zenon
  <2> QED BY <1>3, <1>4, <1>7, <2>1
<1>8. ASSUME NEW i \in rest, \A j \in rest : j <= i
      PROVE  w.record = Absent <=> f[i].wtype = "DELETE_TUPLE"
  <2>1. \A k \in mine : k <= i \/ n <= k
    BY <1>1, <1>2, <1>8, Zenon
  <2> QED BY <1>2, <1>3, <1>4, <1>8, <2>1, Zenon DEF n
<1> QED BY <1>5, <1>6, <1>7, <1>8, Zenon DEF History, f, rest


-----------------------------------------------------------------------------
(* Table locks.                                                            *)

\* LockDataId tells tables apart.
LEMMA TableIds ==
    /\ \A fd \in Fd : TableId(fd) \in DataId
    /\ \A fd, g : TableId(fd) = TableId(g) => fd = g
BY Zenon DEF TableId, DataId

\* X excludes every other holder.
LEMMA Exclusive ==
    ASSUME LInv, NEW t \in Txn, NEW u \in Txn, t # u, NEW fd \in Fd, Mode(t, fd) = "X"
    PROVE  Mode(u, fd) = "NON_LOCK"
<1>1. ~compatible(Mode(t, fd), Mode(u, fd))
  BY Zenon DEF compatible
<1> QED BY <1>1, TableIds, Zenon DEF LInv, GrantedCompatible, Holds, Mode

\* A mode that admits scans, or everything, still does after the step.
Keeps(t, fd) ==
    /\ Mode(t, fd) = "X" => Mode(t, fd)' = "X"
    /\ Mode(t, fd) \in Reading => Mode(t, fd)' \in Reading

\* lock_shared_on_table and lock_exclusive_on_table.
LEMMA RequestTable ==
    ASSUME LInv, NEW t \in Txn, NEW fd \in Fd, NEW mode \in {"S", "X"},
           request_lock(t, TableId(fd), mode, NoRequest)
    PROVE  /\ LInv' /\ UNCHANGED state
           /\ \A u \in Txn, f \in Fd : Keeps(u, f)
           /\ ~Throws(t, TableId(fd), mode) =>
                 Mode(t, fd)' \in Reading /\ (mode = "X" => Mode(t, fd)' = "X")
<1> DEFINE id == TableId(fd)
<1>1. id \in DataId /\ mode \in LockMode /\ TypeOK /\ GrantedCompatible
      /\ pending \in [Txn -> Request \cup {NoRequest}]
  BY TableIds, Zenon DEF LockMode, LInv, TypeOK
<1>2. UNCHANGED state /\ pending' = [pending EXCEPT ![t] = NoRequest]
  BY Zenon DEF request_lock
<1>3. pending' \in [Txn -> Request \cup {NoRequest}] /\ \A u \in Txn : pending'[u] = NoRequest
  BY <1>1, <1>2, Zenon DEF LInv
<1>4. CASE UNCHANGED <<lock_table, group_lock_mode, lock_set>> /\ (Throws(t, id, mode) \/ Subsumed(t, id, mode))
  <2>1. LInv'
    BY <1>2, <1>3, <1>4, Zenon DEF LInv, TypeOK, GrantedCompatible, Holds
  <2>2. \A u \in Txn, f \in Fd : Keeps(u, f)
    BY <1>4, Zenon DEF Keeps, Mode
  <2>3. Subsumed(t, id, mode) => Mode(t, fd)' \in Reading /\ (mode = "X" => Mode(t, fd)' = "X")
    BY <1>4, Zenon DEF Subsumed, subsumes, Mode, Reading
  <2> QED BY <1>2, <1>4, <2>1, <2>2, <2>3, Zenon
<1>5. CASE Grant(t, id, mode) /\ ~Throws(t, id, mode) /\ ~Subsumed(t, id, mode)
  <2>1. GrantedCompatible'
    BY <1>1, <1>5, GrantCompatible, Zenon DEF Throws
  <2>2. /\ lock_table' \in [DataId -> [Txn -> GroupLockMode]]
        /\ lock_table'[id][t] = Target(t, id, mode)
        /\ \A i \in DataId, u \in Txn : i # id \/ u # t => lock_table'[i][u] = lock_table[i][u]
        /\ lock_set' \in [Txn -> SUBSET DataId]
        /\ group_lock_mode' \in [DataId -> GroupLockMode]
    BY <1>1, <1>5, GrantEffect, Zenon
  <2>3. LInv'
    BY <1>2, <1>3, <2>1, <2>2, Zenon DEF LInv, TypeOK
  <2>4. lock_table[id][t] \in GroupLockMode
    BY <1>1 DEF TypeOK
  <2>5. Target(t, id, mode) \in Reading /\ (mode = "X" => Target(t, id, mode) = "X")
    BY <2>4, Zenon DEF Target, combine, subsumes, Holds, GroupLockMode, LockMode, Reading
  <2>6. lock_table[id][t] # "X"
    BY <1>5, Zenon DEF Subsumed, subsumes, Holds
  <2>7. ASSUME NEW u \in Txn, NEW f \in Fd PROVE Keeps(u, f)
    <3>1. TableId(f) \in DataId
      BY TableIds, Zenon
    <3>2. CASE TableId(f) = id /\ u = t
      BY <2>2, <2>5, <2>6, <3>2, Zenon DEF Keeps, Mode
    <3>3. CASE TableId(f) # id \/ u # t
      BY <2>2, <3>1, <3>3, Zenon DEF Keeps, Mode
    <3> QED BY <3>2, <3>3, Zenon
  <2> QED BY <1>2, <2>2, <2>3, <2>5, <2>7, Zenon DEF Mode
<1> QED BY <1>4, <1>5, Zenon DEF request_lock

\* unlock.
LEMMA UnlockTable ==
    ASSUME LInv, NEW t \in Txn, NEW id \in DataId, unlock(t, id)
    PROVE  /\ LInv' /\ state'[t] # "GROWING"
           /\ \A u \in Txn \ {t} : state'[u] = state[u] /\ \A f \in Fd : Keeps(u, f)
<1>1. TypeOK /\ Release(t, id) /\ UNCHANGED pending
  BY Zenon DEF LInv, unlock
<1>2. /\ lock_table' \in [DataId -> [Txn -> GroupLockMode]]
      /\ lock_table'[id][t] = "NON_LOCK"
      /\ \A i \in DataId, u \in Txn : i # id \/ u # t => lock_table'[i][u] = lock_table[i][u]
      /\ lock_set' \in [Txn -> SUBSET DataId]
      /\ group_lock_mode' \in [DataId -> GroupLockMode]
      /\ state' \in [Txn -> TransactionState]
      /\ state'[t] # "GROWING"
      /\ \A u \in Txn : u # t => state'[u] = state[u]
  BY <1>1, ReleaseEffect
<1>3. GrantedCompatible'
  <2>1. \A i \in DataId, u \in Txn : Holds(u, i)' => Holds(u, i) /\ lock_table'[i][u] = lock_table[i][u]
    BY <1>2, Zenon DEF Holds
  <2> QED BY <2>1, Zenon DEF LInv, GrantedCompatible
<1>4. LInv'
  BY <1>1, <1>2, <1>3, Zenon DEF LInv, TypeOK
<1>5. ASSUME NEW u \in Txn \ {t}, NEW f \in Fd PROVE Keeps(u, f)
  <2>1. Mode(u, f)' = Mode(u, f)
    BY <1>2, TableIds, Zenon DEF Mode
  <2> QED BY <2>1, Zenon DEF Keeps
<1> QED BY <1>2, <1>4, <1>5, Zenon

\* begin, abort and commit set the state of the transaction.
LEMMA StateSet ==
    ASSUME LInv, UNCHANGED <<lock_table, group_lock_mode, lock_set, pending>>,
           state' \in [Txn -> TransactionState]
    PROVE  LInv' /\ \A u \in Txn, f \in Fd : Keeps(u, f)
BY Zenon DEF LInv, TypeOK, GrantedCompatible, Holds, Keeps, Mode

-----------------------------------------------------------------------------
(* What a step leaves alone.                                               *)

\* A thread that does not move stays where its locks allow it to be.
LEMMA ControlKept ==
    ASSUME NEW t \in Txn, Control(t), stmt[t].fd \in Fd, \A f \in Fd : Keeps(t, f),
           pc'[t] = pc[t], stmt'[t] = stmt[t], state'[t] = state[t],
           view'[t] = view[t], write_set'[t] = write_set[t]
    PROVE  Control(t)'
<1>1. PICK f \in Fd : f = stmt[t].fd /\ f = stmt'[t].fd
  OBVIOUS
<1>2. Keeps(t, f)
  OBVIOUS
<1> QED BY <1>1, <1>2, Zenon DEF Control, Keeps, Mode

\* A record that is neither changed nor read, and whose table stays locked by
\* whoever depends on it.
LEMMA RecordKept ==
    ASSUME NEW fd \in Fd, NEW rid \in Rid, Record(fd, rid),
           heap'[fd][rid] = heap[fd][rid], committed'[fd][rid] = committed[fd][rid],
           \A t \in Txn : /\ write_set'[t] = write_set[t]
                          /\ view'[t][fd][rid] \in {view[t][fd][rid], Unseen}
                          /\ \/ Keeps(t, fd)
                             \/ write_set[t] = <<>> /\ view[t][fd][rid] = Unseen
    PROVE  Record(fd, rid)'
<1>1. \A t \in Txn : Dirty(t, fd, rid)' <=> Dirty(t, fd, rid)
  BY Zenon DEF Dirty
<1>2. ASSUME NEW t \in Txn, Dirty(t, fd, rid)
      PROVE  /\ Mode(t, fd)' = "X"
             /\ History(write_set[t], fd, rid, heap[fd][rid], committed[fd][rid])'
  <2>1. write_set[t] # <<>>
    BY <1>2 DEF Dirty, On
  <2>2. Mode(t, fd) = "X" /\ History(write_set[t], fd, rid, heap[fd][rid], committed[fd][rid])
    BY <1>2, Zenon DEF Record
  <2>3. History(write_set'[t], fd, rid, heap'[fd][rid], committed'[fd][rid])
    BY <2>2, Zenon
  <2> QED BY <2>1, <2>2, <2>3, Zenon DEF Keeps, History, On
<1>3. ASSUME NEW t \in Txn, view'[t][fd][rid] # Unseen
      PROVE  Mode(t, fd)' \in Reading /\ view'[t][fd][rid] = committed'[fd][rid]
  BY <1>3, Zenon DEF Record, Keeps
<1> QED BY <1>1, <1>2, <1>3, Zenon DEF Record


\* A step of thread t that changes no record.
LEMMA ThreadStep ==
    ASSUME TMInv, NEW t \in Txn, LInv', TMType', Control(t)',
           UNCHANGED <<heap, committed, write_set>>,
           view'[t] \in {view[t], Nothing},
           \A u \in Txn \ {t} : /\ pc'[u] = pc[u] /\ stmt'[u] = stmt[u] /\ state'[u] = state[u]
                                /\ view'[u] = view[u] /\ \A f \in Fd : Keeps(u, f),
           \/ \A f \in Fd : Keeps(t, f)
           \/ write_set[t] = <<>> /\ view[t] = Nothing
    PROVE  TMInv'
<1>1. ASSUME NEW u \in Txn PROVE Control(u)' /\ InsertsFresh(u)'
  <2>1. InsertsFresh(u)'
    BY Zenon DEF TMInv, InsertsFresh
  <2>2. CASE u # t
    <3>1. Control(u) /\ stmt[u].fd \in Fd /\ u \in Txn \ {t}
      BY <2>2, Zenon DEF TMInv, TMType, Statement
    <3> QED BY <2>1, <3>1, ControlKept, Zenon
  <2> QED BY <2>1, <2>2, Zenon
<1>2. ASSUME NEW fd \in Fd, NEW rid \in Rid PROVE Record(fd, rid)'
  <2>1. Record(fd, rid) /\ Nothing[fd][rid] = Unseen
    BY Zenon DEF TMInv, Nothing
  <2>2. ASSUME NEW u \in Txn
        PROVE  /\ view'[u][fd][rid] \in {view[u][fd][rid], Unseen}
               /\ Keeps(u, fd) \/ (write_set[u] = <<>> /\ view[u][fd][rid] = Unseen)
    BY <2>1, Zenon
  <2> QED BY <2>1, <2>2, RecordKept, Zenon
<1> QED BY <1>1, <1>2, Zenon DEF TMInv

\* The constructors of the executors lock the table.
LEMMA LockStep ==
    ASSUME TMInv, NEW t \in Txn, LockForScan(t) \/ LockForWrite(t)
    PROVE  TMInv'
<1>1. LInv /\ TMType /\ Control(t) /\ stmt[t] \in Statement
  BY Zenon DEF TMInv, TMType
<1>2. PICK fd \in Fd : fd = stmt[t].fd
  BY <1>1, Zenon DEF Statement
<1>3. PICK mode \in {"S", "X"} :
         /\ request_lock(t, TableId(fd), mode, NoRequest)
         /\ IF Throws(t, TableId(fd), mode) THEN pc' = [pc EXCEPT ![t] = "abort"]
            ELSE pc' = [pc EXCEPT ![t] = IF mode = "S" THEN "scan" ELSE "apply"]
         /\ pc[t] # "undo"
  BY <1>2, Zenon DEF LockForScan, LockForWrite, lock_shared_on_table, lock_exclusive_on_table, Goto
<1>4. UNCHANGED <<heap, committed, write_set, view, stmt>>
  BY Zenon DEF LockForScan, LockForWrite, dataVars
<1>5. /\ LInv' /\ UNCHANGED state
      /\ \A u \in Txn, f \in Fd : Keeps(u, f)
      /\ ~Throws(t, TableId(fd), mode) =>
            Mode(t, fd)' \in Reading /\ (mode = "X" => Mode(t, fd)' = "X")
  BY <1>1, <1>3, RequestTable, Zenon
<1>6. /\ pc' \in [Txn -> Label] /\ \A u \in Txn \ {t} : pc'[u] = pc[u]
      /\ pc'[t] \in {"abort", "scan", "apply"}
      /\ pc'[t] = "scan" => Mode(t, fd)' \in Reading
      /\ pc'[t] = "apply" => Mode(t, fd)' = "X" /\ state[t] = "GROWING"
  BY <1>1, <1>3, <1>5, Zenon DEF TMType, Label, Throws
<1>7. TMType'
  BY <1>1, <1>4, <1>6, Zenon DEF TMType
<1>8. Control(t)'
  <2>1. Mode(t, stmt[t].fd)' = Mode(t, fd)'
    BY <1>2, <1>4, Zenon DEF Mode
  <2> QED BY <1>1, <1>3, <1>4, <1>5, <1>6, <2>1, Zenon DEF Control
<1> QED BY <1>4, <1>5, <1>6, <1>7, <1>8, ThreadStep, Zenon

\* commit and abort release their locks when nothing depends on them.
LEMMA UnlockStep ==
    ASSUME TMInv, NEW t \in Txn, NEW id \in DataId, Unlock(t, id)
    PROVE  TMInv'
<1>1. LInv /\ TMType /\ Control(t)
  BY Zenon DEF TMInv
<1>2. unlock(t, id) /\ UNCHANGED <<heap, write_set, committed, view, stmt, pc>>
      /\ pc[t] \in {"unlock_commit", "unlock_abort"}
  BY Zenon DEF Unlock, dataVars, threadVars
<1>3. /\ LInv' /\ \A u \in Txn \ {t} : state'[u] = state[u] /\ \A f \in Fd : Keeps(u, f)
  BY <1>1, <1>2, UnlockTable, Zenon
<1>4. TMType'
  BY <1>1, <1>2, Zenon DEF TMType
<1>5. write_set[t] = <<>> /\ view[t] = Nothing
  BY <1>1, <1>2, Zenon DEF Control
<1>6. Control(t)'
  BY <1>2, <1>5, Zenon DEF Control
<1> QED BY <1>2, <1>3, <1>4, <1>5, <1>6, ThreadStep, Zenon


\* The steps of client_handler between the statements, and the ends of them.
LEMMA ControlStep ==
    ASSUME TMInv, NEW t \in Txn,
           \/ \E op \in Op, fd \in Fd : Receive(t, op, fd)
           \/ Reply(t) \/ Disconnect(t) \/ EndScan(t) \/ EndWrite(t) \/ IndexExists(t)
           \/ abort(t) \/ EndUndo(t) \/ Finish(t)
    PROVE  TMInv'
<1>1. LInv /\ TMType /\ Control(t) /\ stmt[t] \in Statement
      /\ state \in [Txn -> TransactionState]
  BY Zenon DEF TMInv, TMType, LInv, TypeOK
<1>2. ASSUME UNCHANGED lockVars, UNCHANGED dataVars,
             NEW to \in Label \ {"scan", "apply", "undo", "unlock_commit", "unlock_abort"},
             pc' = [pc EXCEPT ![t] = to],
             NEW s \in Statement, stmt' = [stmt EXCEPT ![t] = s],
             pc[t] # "undo"
      PROVE  TMInv'
  <2>1. LInv' /\ \A u \in Txn, f \in Fd : Keeps(u, f)
    BY <1>1, <1>2, StateSet, Zenon DEF lockVars
  <2>2. TMType' /\ \A u \in Txn \ {t} : pc'[u] = pc[u] /\ stmt'[u] = stmt[u]
    BY <1>1, <1>2, Zenon DEF TMType, dataVars
  <2>3. pc'[t] = to
    BY <1>1, <1>2, Zenon DEF TMType
  <2>4. Control(t)'
    BY <1>1, <1>2, <2>3, Zenon DEF Control, lockVars, dataVars
  <2> QED BY <1>2, <2>1, <2>2, <2>4, ThreadStep, Zenon DEF lockVars, dataVars
<1>3. CASE Reply(t)
  <2>1. Done(stmt[t].fd) \in Statement
    BY <1>1, Zenon DEF Statement, Done, Op, RecordOp
  <2> QED BY <1>2, <1>3, <2>1, Zenon DEF Reply, Goto, Label
<1>4. CASE Disconnect(t) \/ EndScan(t) \/ EndWrite(t)
  <2>1. stmt' = [stmt EXCEPT ![t] = stmt[t]]
    BY <1>1, <1>4, Zenon DEF Disconnect, EndScan, EndWrite, TMType
  <2> QED BY <1>1, <1>2, <1>4, <2>1, Zenon DEF Disconnect, EndScan, EndWrite, Goto, Label
<1>5. CASE IndexExists(t)
  <2> DEFINE s == [stmt[t] EXCEPT !.failed = TRUE]
  <2>1. s \in Statement
    BY <1>1, Zenon DEF Statement
  <2>2. stmt' = [stmt EXCEPT ![t] = s]
    BY <1>5, Zenon DEF IndexExists
  <2> HIDE DEF s
  <2> QED BY <1>2, <1>5, <2>1, <2>2, Zenon DEF IndexExists, Goto, Label
<1>6. CASE abort(t)
  <2>1. /\ state' = [state EXCEPT ![t] = "ABORTED"] /\ pc' = [pc EXCEPT ![t] = "undo"]
        /\ view' = [view EXCEPT ![t] = Nothing]
        /\ UNCHANGED <<lock_table, group_lock_mode, lock_set, pending, heap, write_set,
                       committed, stmt>>
    BY <1>6, Zenon DEF abort, Goto
  <2>2. state' \in [Txn -> TransactionState]
    BY <1>1, <2>1, Zenon DEF TransactionState
  <2>3. LInv' /\ \A u \in Txn, f \in Fd : Keeps(u, f)
    BY <1>1, <2>1, <2>2, StateSet, Zenon
  <2>4. Nothing \in [Fd -> [Rid -> Content \cup {Unseen}]]
    BY Zenon DEF Nothing
  <2>5. /\ TMType' /\ pc'[t] = "undo" /\ view'[t] = Nothing
        /\ \A u \in Txn \ {t} : pc'[u] = pc[u] /\ view'[u] = view[u] /\ state'[u] = state[u]
    BY <1>1, <2>1, <2>4, Zenon DEF TMType, Label
  <2>6. Control(t)'
    BY <2>5, Zenon DEF Control
  <2> QED BY <2>1, <2>3, <2>5, <2>6, ThreadStep, Zenon
<1>7. CASE EndUndo(t)
  <2>1. /\ pc[t] = "undo" /\ write_set[t] = <<>> /\ pc' = [pc EXCEPT ![t] = "unlock_abort"]
        /\ UNCHANGED <<lock_table, group_lock_mode, lock_set, state, pending, heap, write_set,
                       committed, view, stmt>>
    BY <1>7, Zenon DEF EndUndo, Goto, lockVars, dataVars
  <2>2. LInv' /\ \A u \in Txn, f \in Fd : Keeps(u, f)
    BY <1>1, <2>1, StateSet, Zenon
  <2>3. TMType' /\ pc'[t] = "unlock_abort" /\ \A u \in Txn \ {t} : pc'[u] = pc[u]
    BY <1>1, <2>1, Zenon DEF TMType, Label
  <2>4. Control(t)'
    BY <1>1, <2>1, <2>3, Zenon DEF Control
  <2> QED BY <2>1, <2>2, <2>3, <2>4, ThreadStep, Zenon
<1>8. CASE Finish(t)
  <2>1. /\ pc[t] \in {"unlock_commit", "unlock_abort"}
        /\ \E s \in {"COMMITTED", state[t]} : state' = [state EXCEPT ![t] = s]
        /\ \E to \in {"read", "reply"} : pc' = [pc EXCEPT ![t] = to]
        /\ UNCHANGED <<lock_table, group_lock_mode, lock_set, pending, heap, write_set,
                       committed, view, stmt>>
    BY <1>1, <1>8, Zenon DEF Finish, Goto, dataVars, Statement
  <2>2. state' \in [Txn -> TransactionState]
    BY <1>1, <2>1, Zenon DEF TransactionState
  <2>3. LInv' /\ \A u \in Txn, f \in Fd : Keeps(u, f)
    BY <1>1, <2>1, <2>2, StateSet, Zenon
  <2>4. /\ TMType' /\ pc'[t] \in {"read", "reply"}
        /\ \A u \in Txn \ {t} : pc'[u] = pc[u] /\ state'[u] = state[u]
    BY <1>1, <2>1 DEF TMType, Label
  <2>5. Control(t)'
    BY <1>1, <2>1, <2>4, Zenon DEF Control
  <2> QED BY <2>1, <2>3, <2>4, <2>5, ThreadStep, Zenon
<1>9. ASSUME NEW op \in Op, NEW fd \in Fd, Receive(t, op, fd) PROVE TMInv'
  <2>1. /\ pc[t] = "read" /\ UNCHANGED <<lock_table, group_lock_mode, lock_set, pending, heap, committed, view>>
        /\ pc' = [pc EXCEPT ![t] = EntryPoint(op)]
    BY <1>9, Zenon DEF Receive, Goto
  <2>2. NeedsBegin(t) => write_set[t] = <<>>
    BY <1>1, <2>1, Zenon DEF NeedsBegin, Control
  <2>3. /\ UNCHANGED write_set
        /\ \E s \in {"GROWING", state[t]} : state' = [state EXCEPT ![t] = s]
        /\ state'[t] \in {"GROWING", state[t]}
    BY <1>1, <1>9, <2>2, Zenon DEF Receive, TMType
  <2>4. PICK s : stmt' = [stmt EXCEPT ![t] = s] /\ s \in Statement
    <3>1. Len(write_set'[t]) \in Nat
      BY <1>1, <2>3 DEF TMType
    <3> DEFINE r == [op |-> op, fd |-> fd, rids |-> {}, left |-> Rid, ret |-> "reply",
                     base |-> Len(write_set'[t]), failed |-> FALSE]
    <3>2. r \in Statement
      BY <3>1, Zenon DEF Statement
    <3>3. stmt' = [stmt EXCEPT ![t] = r]
      BY <1>9, Zenon DEF Receive
    <3> QED BY <3>2, <3>3, Zenon
  <2>5. state' \in [Txn -> TransactionState]
    BY <1>1, <2>3, Zenon DEF TransactionState
  <2>6. LInv' /\ \A u \in Txn, f \in Fd : Keeps(u, f)
    BY <1>1, <2>1, <2>5, StateSet, Zenon
  <2>7. EntryPoint(op) \in {"lock_x", "lock_s", "commit", "abort", "reply"}
    BY Zenon DEF EntryPoint, Op, RecordOp
  <2>8. /\ TMType' /\ pc'[t] \in {"lock_x", "lock_s", "commit", "abort", "reply"}
        /\ \A u \in Txn \ {t} : pc'[u] = pc[u] /\ state'[u] = state[u] /\ stmt'[u] = stmt[u]
    BY <1>1, <2>1, <2>3, <2>4, <2>7 DEF TMType, Label
  <2>9. Control(t)'
    BY <1>1, <2>1, <2>3, <2>8, Zenon DEF Control
  <2> QED BY <2>1, <2>3, <2>6, <2>8, <2>9, ThreadStep, Zenon
<1> QED BY <1>3, <1>4, <1>5, <1>6, <1>7, <1>8, <1>9, Zenon

-----------------------------------------------------------------------------
(* The steps that read and change records.                                 *)

\* Nobody but t has changed the records of a table t has locked in a mode
\* that admits scans.
LEMMA SoleWriter ==
    ASSUME TMInv, NEW t \in Txn, NEW fd \in Fd, Mode(t, fd) \in Reading,
           NEW u \in Txn \ {t}, NEW rid \in Rid
    PROVE  ~Dirty(u, fd, rid)
<1>1. LInv /\ Record(fd, rid)
  BY Zenon DEF TMInv
<1>2. Mode(u, fd) = "X" => Mode(t, fd) = "NON_LOCK"
  BY <1>1, Exclusive, Zenon
<1> QED BY <1>1, <1>2, Zenon DEF Record, Reading

\* A scan reads what is committed, or what the transaction wrote itself.
LEMMA ScanStep ==
    ASSUME TMInv, NEW t \in Txn, NEW rid \in Rid, Scan(t, rid)
    PROVE  TMInv'
<1>1. LInv /\ TMType /\ Control(t) /\ stmt[t] \in Statement
  BY Zenon DEF TMInv, TMType
<1>2. PICK fd \in Fd : fd = stmt[t].fd
  BY <1>1, Zenon DEF Statement
<1>3. /\ pc[t] = "scan"
      /\ UNCHANGED <<lock_table, group_lock_mode, lock_set, state, pending, heap, write_set, committed, pc>>
      /\ view' = [view EXCEPT ![t][fd][rid] =
                    IF @ = Unseen /\ ~OwnWrite(t, fd, rid) THEN heap[fd][rid] ELSE @]
  BY <1>2, Zenon DEF Scan, lockVars
<1>4. PICK s \in Statement : stmt' = [stmt EXCEPT ![t] = s] /\ s.fd = fd
  <2>1. PICK r \in SUBSET Rid, l \in SUBSET Rid :
           stmt' = [stmt EXCEPT ![t].left = l, ![t].rids = r]
    BY <1>1, Zenon DEF Scan, Statement
  <2> DEFINE s == [stmt[t] EXCEPT !.left = l, !.rids = r]
  <2>2. s \in Statement /\ s.fd = fd
    BY <1>1, <1>2, Zenon DEF Statement
  <2>3. stmt' = [stmt EXCEPT ![t] = s]
    BY <1>1, <2>1, Zenon DEF TMType
  <2> QED BY <2>2, <2>3, Zenon
<1>5. Mode(t, fd) \in Reading
  BY <1>1, <1>2, <1>3, Zenon DEF Control
<1>6. OwnWrite(t, fd, rid) <=> Dirty(t, fd, rid)
  BY Zenon DEF OwnWrite, Dirty, On
<1>7. ASSUME view[t][fd][rid] = Unseen, ~Dirty(t, fd, rid)
      PROVE  heap[fd][rid] = committed[fd][rid]
  BY <1>5, <1>7, SoleWriter, Zenon DEF TMInv, Record
<1>8. /\ view' \in [Txn -> [Fd -> [Rid -> Content \cup {Unseen}]]]
      /\ \A u \in Txn, f \in Fd, r \in Rid :
            u # t \/ f # fd \/ r # rid => view'[u][f][r] = view[u][f][r]
      /\ view'[t][fd][rid] \in {view[t][fd][rid], committed[fd][rid]}
      /\ \A u \in Txn \ {t} : view'[u] = view[u]
  BY <1>1, <1>3, <1>6, <1>7 DEF TMType
<1>9. LInv' /\ TMType' /\ \A u \in Txn, f \in Fd : Mode(u, f)' = Mode(u, f)
  <2>1. LInv'
    BY <1>1, <1>3, StateSet, Zenon DEF LInv, TypeOK
  <2> QED BY <1>1, <1>3, <1>4, <1>8, <2>1, Zenon DEF TMType, Mode
<1>10. ASSUME NEW u \in Txn PROVE Control(u)' /\ InsertsFresh(u)'
  <2>1. InsertsFresh(u)'
    BY <1>3, Zenon DEF TMInv, InsertsFresh
  <2>2. CASE u = t
    <3>1. stmt'[t].fd = fd
      BY <1>1, <1>4, Zenon DEF TMType
    <3>2. Mode(t, stmt[t].fd)' \in Reading
      BY <1>3, <1>5, <3>1, Zenon DEF Mode
    <3> QED BY <1>1, <1>3, <2>1, <2>2, <3>2, Zenon DEF Control
  <2>3. CASE u # t
    <3>1. stmt'[u] = stmt[u] /\ stmt[u].fd \in Fd /\ Control(u)
      BY <1>1, <1>4, <2>3, Zenon DEF TMType, TMInv, Statement
    <3>2. \A f \in Fd : Keeps(u, f)
      BY <1>9, Zenon DEF Keeps
    <3> QED BY <1>3, <1>8, <2>1, <2>3, <3>1, <3>2, ControlKept, Zenon
  <2> QED BY <2>2, <2>3, Zenon
<1>11. ASSUME NEW f \in Fd, NEW r \in Rid PROVE Record(f, r)'
  <2>1. Record(f, r)
    BY Zenon DEF TMInv
  <2>2. \A u \in Txn : view'[u][f][r] # Unseen =>
           Mode(u, f) \in Reading /\ view'[u][f][r] = committed[f][r]
    BY <1>5, <1>8, <2>1, Zenon DEF Record
  <2>3. \A u \in Txn : (Dirty(u, f, r)' <=> Dirty(u, f, r))
           /\ (History(write_set[u], f, r, heap[f][r], committed[f][r])'
                 <=> History(write_set[u], f, r, heap[f][r], committed[f][r]))
    BY <1>3 DEF Dirty, On, History
  <2> QED BY <1>3, <1>9, <2>1, <2>2, <2>3 DEF Record
<1> QED BY <1>9, <1>10, <1>11, Zenon DEF TMInv


\* A step of t that changes one record, and its write set by a change of that
\* record, leaves the other records and the other threads alone.
LEMMA ChangeElsewhere ==
    ASSUME TMInv, NEW t \in Txn, NEW fd \in Fd, NEW rid \in Rid, TMType',
           UNCHANGED <<lock_table, group_lock_mode, lock_set, state, pending, committed, view>>,
           \A u \in Txn \ {t} : /\ write_set'[u] = write_set[u]
                                /\ pc'[u] = pc[u] /\ stmt'[u] = stmt[u],
           \A f \in Fd, r \in Rid : f # fd \/ r # rid =>
              /\ heap'[f][r] = heap[f][r]
              /\ On(write_set'[t], f, r) = On(write_set[t], f, r)
              /\ \A i \in On(write_set[t], f, r) : write_set'[t][i] = write_set[t][i],
           \A u \in Txn \ {t} : ~Dirty(u, fd, rid),
           Mode(t, fd) = "X",
           History(write_set'[t], fd, rid, heap'[fd][rid], committed[fd][rid]),
           Control(t)', InsertsFresh(t)'
    PROVE  TMInv'
<1>1. LInv /\ TMType
  BY Zenon DEF TMInv
<1>2. \A u \in Txn, f \in Fd : Mode(u, f)' = Mode(u, f)
  BY Zenon DEF Mode
<1>3. LInv'
  BY <1>1, StateSet, Zenon DEF LInv, TypeOK
<1>4. ASSUME NEW u \in Txn \ {t} PROVE Control(u)' /\ InsertsFresh(u)'
  <2>1. Control(u) /\ stmt[u].fd \in Fd /\ \A f \in Fd : Keeps(u, f)
    BY <1>1, <1>2 DEF TMInv, TMType, Statement, Keeps
  <2> QED BY <2>1, ControlKept DEF TMInv, InsertsFresh
<1>5. ASSUME NEW f \in Fd, NEW r \in Rid, f # fd \/ r # rid PROVE Record(f, r)'
  <2>1. Record(f, r) /\ heap'[f][r] = heap[f][r]
    BY <1>5, Zenon DEF TMInv
  <2>2. ASSUME NEW u \in Txn
        PROVE  /\ On(write_set'[u], f, r) = On(write_set[u], f, r)
               /\ \A i \in On(write_set[u], f, r) : write_set'[u][i] = write_set[u][i]
    BY <1>5
  <2>3. ASSUME NEW u \in Txn, History(write_set[u], f, r, heap[f][r], committed[f][r])
        PROVE  History(write_set[u], f, r, heap[f][r], committed[f][r])'
    <3>1. History(write_set'[u], f, r, heap[f][r], committed[f][r])
      BY <2>2, <2>3 DEF History
    <3> QED BY <2>1, <3>1, Zenon DEF History, On
  <2>4. \A u \in Txn : Dirty(u, f, r)' <=> Dirty(u, f, r)
    BY <2>2, Zenon DEF Dirty, On
  <2> QED BY <1>2, <2>1, <2>3, <2>4, Zenon DEF Record
<1>6. Record(fd, rid)'
  <2>1. Record(fd, rid)
    BY Zenon DEF TMInv
  <2>2. \A u \in Txn \ {t} : ~Dirty(u, fd, rid)'
    BY DEF Dirty, On
  <2>3. History(write_set[t], fd, rid, heap[fd][rid], committed[fd][rid])'
    BY Zenon DEF History, On
  <2>4. ~Dirty(t, fd, rid)' => heap'[fd][rid] = committed'[fd][rid]
    BY <2>3, Zenon DEF History, Dirty, On
  <2>5. \A u \in Txn : view'[u][fd][rid] # Unseen =>
           Mode(u, fd)' \in Reading /\ view'[u][fd][rid] = committed'[fd][rid]
    BY <1>2, <2>1, Zenon DEF Record
  <2> QED BY <1>2, <2>2, <2>3, <2>4, <2>5, Zenon DEF Record
<1> QED BY <1>3, <1>4, <1>5, <1>6, Zenon DEF TMInv

\* The executors change a record under the X lock of its table.
LEMMA WriteStep ==
    ASSUME TMInv, NEW t \in Txn, NEW rid \in Rid,
           Delete(t, rid) \/ \E val \in Val : Insert(t, rid, val) \/ Update(t, rid, val)
    PROVE  TMInv'
<1>1. LInv /\ TMType /\ Control(t) /\ stmt[t] \in Statement
  BY Zenon DEF TMInv, TMType
<1>2. PICK fd \in Fd : fd = stmt[t].fd
  BY <1>1, Zenon DEF Statement
<1> DEFINE now == heap[fd][rid]
<1>3. PICK wtype \in {"INSERT_TUPLE", "DELETE_TUPLE", "UPDATE_TUPLE"}, new \in Content :
         /\ Write(t, wtype, rid, new)
         /\ new = Absent <=> wtype = "DELETE_TUPLE"
         /\ wtype = "INSERT_TUPLE" => now = Absent
  BY <1>2, AbsentAssumption, Zenon DEF Delete, Insert, Update, Content
<1>4. PICK to \in {"apply", "reply"}, st \in Statement :
         /\ pc' = [pc EXCEPT ![t] = to]
         /\ stmt' = [stmt EXCEPT ![t] = st] /\ st.fd = fd
  <2>1. CASE Delete(t, rid) \/ \E val \in Val : Update(t, rid, val)
    <3> DEFINE st == [stmt[t] EXCEPT !.rids = @ \ {rid}]
    <3>1. st \in Statement /\ st.fd = fd
      BY <1>1, <1>2, Zenon DEF Statement
    <3>2. stmt' = [stmt EXCEPT ![t] = st] /\ pc' = [pc EXCEPT ![t] = "apply"]
      BY <1>1, <2>1 DEF Delete, Update, TMType
    <3> QED BY <3>1, <3>2, Zenon
  <2>2. CASE \E val \in Val : Insert(t, rid, val)
    <3>1. stmt' = [stmt EXCEPT ![t] = stmt[t]] /\ pc' = [pc EXCEPT ![t] = "reply"]
      BY <1>1, <2>2, Zenon DEF Insert, Goto, TMType
    <3> QED BY <1>1, <1>2, <3>1, Zenon
  <2> QED BY <2>1, <2>2, Zenon
<1>5. Mode(t, fd) = "X" /\ state[t] = "GROWING" /\ pc[t] = "apply"
  BY <1>1, <1>2, Zenon DEF Control, Delete, Insert, Update
<1> DEFINE w == [wtype |-> wtype, fd |-> fd, rid |-> rid, record |-> now]
           s == Append(write_set[t], w)
<1>6. /\ heap' = [heap EXCEPT ![fd][rid] = new] /\ write_set' = [write_set EXCEPT ![t] = s]
      /\ UNCHANGED <<lock_table, group_lock_mode, lock_set, state, pending, committed, view>>
  BY <1>2, <1>3, Zenon DEF Write, lockVars
<1>7. now \in Content /\ w \in WriteRecord /\ write_set[t] \in Seq(WriteRecord)
  BY <1>1, Zenon DEF TMType, WriteRecord
<1>8. w.fd = fd /\ w.rid = rid /\ w.record = now /\ w.wtype = wtype
  OBVIOUS
<1> HIDE DEF w, now
<1>9. s \in Seq(WriteRecord)
  BY <1>7
<1>10. ASSUME NEW f \in Fd, NEW r \in Rid, f # fd \/ r # rid
       PROVE  /\ On(s, f, r) = On(write_set[t], f, r)
              /\ \A i \in On(s, f, r) : s[i] = write_set[t][i]
  <2>1. On(s, f, r) = On(write_set[t], f, r) /\ \A i \in DOMAIN write_set[t] : s[i] = write_set[t][i]
    BY <1>7, <1>8, <1>10, OnAppend
  <2> QED BY <2>1, Zenon DEF On
<1>11. \A u \in Txn \ {t} : ~Dirty(u, fd, rid)
  BY <1>5, SoleWriter, Zenon DEF Reading
<1>12. History(write_set[t], fd, rid, now, committed[fd][rid])
  <2>1. Record(fd, rid)
    BY Zenon DEF TMInv
  <2>2. CASE Dirty(t, fd, rid)
    BY <2>1, <2>2, Zenon DEF Record, now
  <2>3. CASE ~Dirty(t, fd, rid)
    <3>1. now = committed[fd][rid]
      BY <1>11, <2>1, <2>3, Zenon DEF Record, now
    <3> QED BY <2>3, <3>1, Zenon DEF History, Dirty
  <2> QED BY <2>2, <2>3, Zenon
<1>13. History(s, fd, rid, new, committed[fd][rid])
  BY <1>3, <1>7, <1>8, <1>12, HistoryAppend, Zenon
<1>14. /\ write_set'[t] = s /\ heap'[fd][rid] = new
       /\ \A u \in Txn \ {t} : write_set'[u] = write_set[u] /\ pc'[u] = pc[u] /\ stmt'[u] = stmt[u]
       /\ \A f \in Fd, r \in Rid : f # fd \/ r # rid => heap'[f][r] = heap[f][r]
       /\ TMType'
  <2> HIDE DEF s
  <2> QED BY <1>1, <1>4, <1>6, <1>9 DEF TMType, Label
<1>15. InsertsFresh(t)'
  <2>1. InsertsFresh(t)
    BY Zenon DEF TMInv
  <2>2. /\ DOMAIN s = DOMAIN write_set[t] \cup {Len(write_set[t]) + 1}
        /\ \A i \in DOMAIN write_set[t] : s[i] = write_set[t][i]
        /\ s[Len(write_set[t]) + 1] = w
    BY <1>7, OnAppend, Zenon
  <2> HIDE DEF s
  <2> QED BY <1>3, <1>8, <1>14, <2>1, <2>2 DEF InsertsFresh
<1>16. Control(t)'
  <2>1. pc'[t] \in {"apply", "reply"} /\ stmt'[t].fd = fd
    BY <1>1, <1>4, Zenon DEF TMType
  <2>2. Mode(t, stmt[t].fd)' = "X"
    BY <1>5, <1>6, <2>1, Zenon DEF Mode
  <2> QED BY <1>5, <1>6, <2>1, <2>2, Zenon DEF Control
<1> HIDE DEF s
<1>17. History(write_set'[t], fd, rid, heap'[fd][rid], committed[fd][rid])
  BY <1>13, <1>14, Zenon
<1>18. \A f \in Fd, r \in Rid : f # fd \/ r # rid =>
          /\ On(write_set'[t], f, r) = On(write_set[t], f, r)
          /\ \A i \in On(write_set[t], f, r) : write_set'[t][i] = write_set[t][i]
  BY <1>10, <1>14
<1> QED BY <1>5, <1>6, <1>11, <1>14, <1>15, <1>16, <1>17, <1>18, ChangeElsewhere

\* One turn of the undo loop puts back what the youngest change found.
LEMMA UndoStep ==
    ASSUME TMInv, NEW t \in Txn, Undo(t)
    PROVE  TMInv'
<1> DEFINE s == write_set[t]
           front == SubSeq(s, 1, Len(s) - 1)
<1>1. /\ LInv /\ TMType /\ Control(t) /\ InsertsFresh(t)
      /\ s \in Seq(WriteRecord) /\ s # <<>>
  BY Zenon DEF TMInv, TMType, Undo
<1>2. DOMAIN s = 1 .. Len(s) /\ Len(s) \in DOMAIN s /\ s[Len(s)] \in WriteRecord
  BY <1>1, OnFront
<1>3. PICK w \in WriteRecord : w = s[Len(s)]
  BY <1>2, Zenon
<1>4. PICK fd \in Fd, rid \in Rid : fd = w.fd /\ rid = w.rid
  BY Zenon DEF WriteRecord
<1>5. /\ heap' = [heap EXCEPT ![fd][rid] = w.record]
      /\ write_set' = [write_set EXCEPT ![t] = front]
      /\ UNCHANGED <<lock_table, group_lock_mode, lock_set, state, pending, committed, view, pc, stmt>>
      /\ pc[t] = "undo"
  <2>1. w.wtype = "INSERT_TUPLE" => w.record = Absent
    BY <1>1, <1>2, <1>3, Zenon DEF InsertsFresh
  <2> QED BY <1>3, <1>4, <2>1, Zenon DEF Undo, lockVars, threadVars
<1>6. /\ front \in Seq(WriteRecord) /\ DOMAIN front = DOMAIN s \ {Len(s)}
      /\ \A i \in DOMAIN front : front[i] = s[i]
  BY <1>1, OnFront, Zenon
<1>7. ASSUME NEW f \in Fd, NEW r \in Rid PROVE On(front, f, r) = On(s, f, r) \ {Len(s)}
  BY <1>1, OnFront, Zenon
<1>8. Dirty(t, fd, rid)
  BY <1>2, <1>3, <1>4, Zenon DEF Dirty, On
<1>9. Mode(t, fd) = "X" /\ History(s, fd, rid, heap[fd][rid], committed[fd][rid])
  BY <1>8, Zenon DEF TMInv, Record
<1>10. \A u \in Txn \ {t} : ~Dirty(u, fd, rid)
  BY <1>9, SoleWriter, Zenon DEF Reading
<1>11. History(front, fd, rid, w.record, committed[fd][rid])
  BY <1>1, <1>3, <1>4, <1>9, HistoryUndo, Zenon
<1>12. /\ write_set'[t] = front /\ heap'[fd][rid] = w.record
       /\ \A u \in Txn \ {t} : write_set'[u] = write_set[u]
       /\ \A f \in Fd, r \in Rid : f # fd \/ r # rid => heap'[f][r] = heap[f][r]
       /\ TMType'
  <2>1. w.record \in Content
    BY Zenon DEF WriteRecord
  <2> HIDE DEF front
  <2> QED BY <1>1, <1>5, <1>6, <2>1 DEF TMType
<1>13. ASSUME NEW f \in Fd, NEW r \in Rid, f # fd \/ r # rid
       PROVE  /\ On(write_set'[t], f, r) = On(write_set[t], f, r)
              /\ \A i \in On(write_set[t], f, r) : write_set'[t][i] = write_set[t][i]
  <2>1. Len(s) \notin On(s, f, r)
    <3>1. s[Len(s)].fd # f \/ s[Len(s)].rid # r
      BY <1>3, <1>4, <1>13, Zenon
    <3> HIDE DEF s
    <3> QED BY <3>1, Zenon DEF On
  <2>2. On(front, f, r) = On(s, f, r)
    <3>1. On(front, f, r) = On(s, f, r) \ {Len(s)}
      BY <1>7, Zenon
    <3> HIDE DEF s, front
    <3> QED BY <2>1, <3>1, Zenon
  <2>3. \A i \in On(s, f, r) : front[i] = s[i]
    BY <1>6, <2>1, Zenon DEF On
  <2> QED BY <1>12, <2>2, <2>3, Zenon
<1>14. Control(t)' /\ InsertsFresh(t)'
  BY <1>1, <1>5, <1>6, <1>12 DEF Control, InsertsFresh
<1>15. History(write_set'[t], fd, rid, heap'[fd][rid], committed[fd][rid])
  BY <1>11, <1>12, Zenon
<1> HIDE DEF s, front
<1> QED BY <1>5, <1>9, <1>10, <1>12, <1>13, <1>14, <1>15, ChangeElsewhere

\* commit makes the changes of t the committed contents.  Nobody else has
\* read or changed those records.
LEMMA CommitStep ==
    ASSUME TMInv, NEW t \in Txn, commit(t)
    PROVE  TMInv'
<1>1. LInv /\ TMType
  BY Zenon DEF TMInv
<1>2. /\ pc' = [pc EXCEPT ![t] = "unlock_commit"]
      /\ write_set' = [write_set EXCEPT ![t] = <<>>]
      /\ view' = [view EXCEPT ![t] = Nothing]
      /\ UNCHANGED <<lock_table, group_lock_mode, lock_set, state, pending, heap, stmt>>
  BY Zenon DEF commit, Goto, lockVars
<1>3. /\ committed' \in [Fd -> [Rid -> Content]]
      /\ \A fd \in Fd, rid \in Rid :
            committed'[fd][rid] = IF Dirty(t, fd, rid) THEN heap[fd][rid] ELSE committed[fd][rid]
  <2>1. \A fd \in Fd, rid \in Rid : OwnWrite(t, fd, rid) <=> Dirty(t, fd, rid)
    BY Zenon DEF OwnWrite, Dirty, On
  <2>2. committed' = [fd \in Fd |-> [rid \in Rid |->
           IF Dirty(t, fd, rid) THEN heap[fd][rid] ELSE committed[fd][rid]]]
    BY <2>1, Zenon DEF commit
  <2> QED BY <1>1, <2>2, Zenon DEF TMType
<1>4. /\ write_set'[t] = <<>> /\ view'[t] = Nothing /\ pc'[t] = "unlock_commit"
      /\ \A u \in Txn \ {t} : /\ write_set'[u] = write_set[u] /\ view'[u] = view[u]
                              /\ pc'[u] = pc[u]
  BY <1>1, <1>2, Zenon DEF TMType
<1>5. LInv' /\ \A u \in Txn, f \in Fd : Keeps(u, f) /\ Mode(u, f)' = Mode(u, f)
  BY <1>1, <1>2, StateSet, Zenon DEF LInv, TypeOK, Mode
<1>6. TMType'
  <2>1. Nothing \in [Fd -> [Rid -> Content \cup {Unseen}]] /\ <<>> \in Seq(WriteRecord)
    BY DEF Nothing
  <2> QED BY <1>1, <1>2, <1>3, <2>1, Zenon DEF TMType, Label
<1>7. ASSUME NEW u \in Txn PROVE Control(u)' /\ InsertsFresh(u)'
  <2>1. CASE u = t
    BY <1>4, <2>1 DEF Control, InsertsFresh
  <2>2. CASE u # t
    <3>1. Control(u) /\ stmt[u].fd \in Fd
      BY <1>1, Zenon DEF TMInv, TMType, Statement
    <3> QED BY <1>2, <1>4, <1>5, <2>2, <3>1, ControlKept DEF TMInv, InsertsFresh
  <2> QED BY <2>1, <2>2, Zenon
<1>8. ASSUME NEW fd \in Fd, NEW rid \in Rid PROVE Record(fd, rid)'
  <2>1. Record(fd, rid)
    BY Zenon DEF TMInv
  <2>2. ~Dirty(t, fd, rid)' /\ view'[t][fd][rid] = Unseen
    BY <1>4 DEF Dirty, On, Nothing
  <2>3. \A u \in Txn \ {t} : Dirty(u, fd, rid)' <=> Dirty(u, fd, rid)
    BY <1>4, Zenon DEF Dirty, On
  <2>4. CASE Dirty(t, fd, rid)
    <3>1. Mode(t, fd) = "X"
      BY <2>1, <2>4, Zenon DEF Record
    <3>2. ASSUME NEW u \in Txn \ {t} PROVE ~Dirty(u, fd, rid) /\ view[u][fd][rid] = Unseen
      <4>1. Mode(u, fd) = "NON_LOCK"
        BY <1>1, <3>1, Exclusive, Zenon
      <4> QED BY <2>1, <4>1, Zenon DEF Record, Reading
    <3> QED BY <1>2, <1>3, <1>4, <2>2, <2>3, <2>4, <3>2, Zenon DEF Record
  <2>5. CASE ~Dirty(t, fd, rid)
    <3>1. committed'[fd][rid] = committed[fd][rid]
      BY <1>3, <2>5, Zenon
    <3>2. ASSUME NEW u \in Txn \ {t}, Dirty(u, fd, rid)
          PROVE  /\ Mode(u, fd)' = "X"
                 /\ History(write_set[u], fd, rid, heap[fd][rid], committed[fd][rid])'
      <4>1. Mode(u, fd) = "X" /\ History(write_set[u], fd, rid, heap[fd][rid], committed[fd][rid])
        BY <2>1, <3>2, Zenon DEF Record
      <4>2. History(write_set'[u], fd, rid, heap'[fd][rid], committed'[fd][rid])
        BY <1>2, <1>4, <3>1, <4>1, Zenon
      <4> QED BY <1>5, <4>1, <4>2, Zenon DEF History, On
    <3>3. (\A u \in Txn : ~Dirty(u, fd, rid)') => heap'[fd][rid] = committed'[fd][rid]
      BY <1>2, <2>1, <2>3, <2>5, <3>1, Zenon DEF Record
    <3>4. \A u \in Txn : view'[u][fd][rid] # Unseen =>
             Mode(u, fd)' \in Reading /\ view'[u][fd][rid] = committed'[fd][rid]
      BY <1>4, <1>5, <2>1, <2>2, <3>1, Zenon DEF Record
    <3> QED BY <2>2, <2>3, <3>2, <3>3, <3>4, Zenon DEF Record
  <2> QED BY <2>4, <2>5, Zenon
<1> QED BY <1>5, <1>6, <1>7, <1>8, Zenon DEF TMInv

-----------------------------------------------------------------------------
(* The theorems.                                                           *)

\* No transaction has begun: nothing is locked, written or seen.
LEMMA TMInitInv == TMInit => TMInv
<1> SUFFICES ASSUME TMInit PROVE TMInv
  OBVIOUS
<1>1. LInv
  BY Zenon DEF TMInit, LInv, TypeOK, GrantedCompatible, Holds, GroupLockMode, TransactionState
<1>2. TMType
  <2>1. \A fd \in Fd : Done(fd) \in Statement
    BY Zenon DEF Done, Statement, Op, RecordOp
  <2>2. stmt \in [Txn -> Statement]
    BY <2>1 DEF TMInit
  <2> QED BY <2>2 DEF TMInit, TMType, Content, Nothing, Label
<1>3. \A t \in Txn : Control(t) /\ InsertsFresh(t)
  <2>1. \A t \in Txn : pc[t] = "read" /\ write_set[t] = <<>>
    BY Zenon DEF TMInit
  <2>2. ASSUME NEW t \in Txn PROVE Control(t)
    BY <2>1, Zenon DEF Control
  <2>3. ASSUME NEW t \in Txn PROVE InsertsFresh(t)
    BY <2>1 DEF InsertsFresh
  <2> QED BY <2>2, <2>3, Zenon
<1>4. \A t \in Txn, fd \in Fd, rid \in Rid : ~Dirty(t, fd, rid) /\ view[t][fd][rid] = Unseen
  BY DEF TMInit, Dirty, On, Nothing
<1>5. \A fd \in Fd, rid \in Rid : Record(fd, rid)
  BY <1>4, Zenon DEF TMInit, Record
<1> QED BY <1>1, <1>2, <1>3, <1>5, Zenon DEF TMInv

\* One step per statement, lock, undo or commit action of a client thread.
LEMMA TMInvStep == TMInv /\ [TMNext]_vars => TMInv'
<1> SUFFICES ASSUME TMInv, [TMNext]_vars PROVE TMInv'
  OBVIOUS
<1>1. ASSUME NEW t \in Txn, Client(t) \/ Server(t) PROVE TMInv'
  BY <1>1, ControlStep, LockStep, UnlockStep, ScanStep, WriteStep, UndoStep, CommitStep, Zenon
     DEF Client, Server
<1>2. CASE UNCHANGED vars
  <2>1. LInv' /\ TMType'
    BY <1>2, Zenon DEF vars, lockVars, dataVars, threadVars, TMInv, LInv, TMType, TypeOK,
                GrantedCompatible, Holds
  <2>2. \A t \in Txn : Control(t)' /\ InsertsFresh(t)'
    BY <1>2, Zenon DEF vars, lockVars, dataVars, threadVars, TMInv, Control, InsertsFresh, Mode
  <2>3. ASSUME NEW fd \in Fd, NEW rid \in Rid PROVE Record(fd, rid)'
    <3>1. Record(fd, rid) /\ \A t \in Txn : Keeps(t, fd)
      BY <1>2, Zenon DEF vars, lockVars, TMInv, Keeps, Mode
    <3> QED BY <1>2, <3>1, RecordKept, Zenon DEF vars, dataVars
  <2> QED BY <2>1, <2>2, <2>3, Zenon DEF TMInv
<1> QED BY <1>1, <1>2, Zenon DEF TMNext

\* begin, commit and abort, and the executors between them, keep the
\* invariant, in every interleaving of any number of client threads.
THEOREM TMInvariance == TMSpec => []TMInv
BY TMInitInv, TMInvStep, PTL DEF TMSpec

\* No interleaving of statements, upgrades, rollbacks and lock releases
\* uncovers an unfinished change.
THEOREM DirtyIsLockedAlways == TMSpec => []DirtyIsLocked
<1>1. TMInv => DirtyIsLocked
  BY DEF TMInv, Record, Mode, Dirty, On, DirtyIsLocked, OwnWrite
<1> QED BY <1>1, TMInvariance, PTL

\* abort restores exactly the committed contents, for write sets of any
\* length and any number of changes of one record, and the undo loop finds
\* every record in the state its calls expect.
THEOREM RollbackExactAlways == TMSpec => []RollbackExact
<1>1. ASSUME TMInv PROVE RollbackExact
  <2>1. \A t \in Txn, fd \in Fd, rid \in Rid : OwnWrite(t, fd, rid) <=> Dirty(t, fd, rid)
    BY Zenon DEF OwnWrite, Dirty, On
  <2>2. ASSUME NEW fd \in Fd, NEW rid \in Rid, \A t \in Txn : ~OwnWrite(t, fd, rid)
        PROVE  heap[fd][rid] = committed[fd][rid]
    BY <1>1, <2>1, <2>2, Zenon DEF TMInv, Record
  <2>3. ASSUME NEW fd \in Fd, NEW rid \in Rid, NEW t \in Txn, OwnWrite(t, fd, rid)
        PROVE  FirstWrite(t, fd, rid).record = committed[fd][rid]
    <3> DEFINE mine == On(write_set[t], fd, rid)
    <3>1. Dirty(t, fd, rid) /\ Record(fd, rid) /\ write_set[t] \in Seq(WriteRecord)
      BY <1>1, <2>1, <2>3, Zenon DEF TMInv, TMType
    <3>2. PICK i \in mine : (\A j \in mine : i <= j) /\ write_set[t][i].record = committed[fd][rid]
      BY <3>1, Zenon DEF Record, Dirty, History
    <3>3. \A j \in mine : j \in Nat
      BY <3>1 DEF On
    <3>4. \A k \in mine : (\A j \in mine : k <= j) => k = i
      BY <3>2, <3>3
    <3>5. (CHOOSE k \in mine : \A j \in mine : k <= j) = i
      <4> HIDE DEF mine
      <4> QED BY <3>2, <3>4, Zenon
    <3>6. FirstWrite(t, fd, rid) = write_set[t][CHOOSE k \in mine : \A j \in mine : k <= j]
      BY Zenon DEF FirstWrite, On
    <3> HIDE DEF mine
    <3> QED BY <3>2, <3>5, <3>6, Zenon
  <2>4. ASSUME NEW t \in Txn, write_set[t] # <<>>
        PROVE  LET write == write_set[t][Len(write_set[t])]
               IN  (heap[write.fd][write.rid] = Absent) <=> (write.wtype = "DELETE_TUPLE")
    <3> DEFINE n == Len(write_set[t])
    <3>1. write_set[t] \in Seq(WriteRecord)
      BY <1>1, Zenon DEF TMInv, TMType
    <3>2. n \in DOMAIN write_set[t] /\ write_set[t][n] \in WriteRecord /\ DOMAIN write_set[t] = 1 .. n
      BY <2>4, <3>1, OnFront
    <3>3. PICK fd \in Fd, rid \in Rid : fd = write_set[t][n].fd /\ rid = write_set[t][n].rid
      BY <3>2, Zenon DEF WriteRecord
    <3>4. n \in On(write_set[t], fd, rid) /\ \A j \in On(write_set[t], fd, rid) : j <= n
      BY <3>2, <3>3 DEF On
    <3>5. History(write_set[t], fd, rid, heap[fd][rid], committed[fd][rid])
      BY <1>1, <3>4, Zenon DEF TMInv, Record, Dirty
    <3> HIDE DEF n
    <3>6. heap[fd][rid] = Absent <=> write_set[t][n].wtype = "DELETE_TUPLE"
      BY <3>4, <3>5, Zenon DEF History
    <3> QED BY <3>3, <3>6, Zenon DEF n
  <2> QED BY <2>2, <2>3, <2>4, Zenon DEF RollbackExact
<1> QED BY <1>1, TMInvariance, PTL

\* What a scan delivered to an open transaction stays the committed content of
\* the table until its locks are released, for any number of transactions,
\* upgrades and rollbacks beside it: reads are repeatable and see no phantoms.
THEOREM ReadsStillCurrentAlways == TMSpec => []ReadsStillCurrent
<1>1. TMInv => ReadsStillCurrent
  BY DEF TMInv, Record, ReadsStillCurrent
<1> QED BY <1>1, TMInvariance, PTL

=============================================================================
