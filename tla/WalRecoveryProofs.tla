------------------------- MODULE WalRecoveryProofs -------------------------
(***************************************************************************)
(* Proofs about write-ahead logging and recovery, for any sets of          *)
(* transactions, records, contents and pages, any number of changes and    *)
(* any number of crashes, of recovery itself included: outside the cases   *)
(* of Exposure, recovery leaves exactly the changes of committed           *)
(* transactions.  First the inductive invariant and the steps of recovery, *)
(* of the buffer pool and of a crash or shutdown, then the steps of the    *)
(* transactions, then the theorems.                                        *)
(***************************************************************************)
EXTENDS WalRecovery, TLAPS

-----------------------------------------------------------------------------
(* Types.                                                                  *)

\* The type of a change says whether there was a record, and whether there
\* is one afterwards.
Coherent(c) == (c.type = "INSERT" <=> c.old = Absent) /\ (c.type = "DELETE" <=> c.new = Absent)

ChangeRecord == {c \in [type : ChangeType, rid : Rid, old : Slot, new : Slot] : Coherent(c)}
LogChange ==
    {c \in [type : ChangeType, txn : Txn, rid : Rid, old : Slot, new : Slot] : Coherent(c)}
LogMark == [type : {"begin", "commit", "ABORT"}, txn : Txn]
HalfDone == [stage : {"log", "page"}, change : ChangeRecord]
Phase == {"none", "active", "undo", "release", "unlock", "committed", "abort_log", "aborted"}

WType ==
    /\ buf \in [Rid -> Slot] /\ disk \in [Rid -> Slot] /\ committed \in [Rid -> Slot]
    /\ log \in Seq(LogChange \cup LogMark)
    /\ phase \in [Txn -> Phase]
    /\ op \in HalfDone \cup {NoOp}
    /\ write_set \in [Txn -> Seq(ChangeRecord)]
    /\ holder \in Txn \cup {None}
    /\ mode \in {"up", "redo", "undo", "flush", "reset"}
    /\ cursor \in Nat
    /\ stolen \subseteq [rid : Rid, txn : Txn, val : Slot]

-----------------------------------------------------------------------------
(* Histories.  The same operators read the log and a write set.            *)

\* The changes of one record, and those by some transactions.
On(s, rid) == {i \in DOMAIN s : IsChange(s[i]) /\ s[i].rid = rid}
By(s, rid, txns) == {i \in On(s, rid) : s[i].txn \in txns}

\* x is what the changes of a set leave: what the youngest of them wrote, or
\* base without any.
Tip(s, changes, base, x) ==
    /\ changes = {} => x = base
    /\ changes # {} => \E i \in changes : (\A j \in changes : j <= i) /\ s[i].new = x

\* The changes whose effect change j met: the earlier ones of its own
\* transaction and of the transactions that are not rolled back.
Before(s, j, rolled) ==
    {i \in On(s, s[j].rid) : i < j /\ (s[i].txn = s[j].txn \/ s[i].txn \notin rolled)}

-----------------------------------------------------------------------------
(* While transactions run.                                                 *)

Rolled == {t \in Txn : phase[t] \in {"abort_log", "aborted"}}
Comm == {t \in Txn : phase[t] \in {"unlock", "committed"}}
Settled == {"committed", "abort_log", "aborted"}

\* What the transactions hold, and what the log tells of them.
Control ==
    /\ holder \in Txn => phase[holder] \in {"active", "undo", "release", "unlock"}
    /\ op # NoOp => /\ holder \in Txn /\ phase[holder] = "active"
                    /\ op.stage = "log" => op.change.old = Absent /\ buf[op.change.rid] = op.change.new
    /\ \A t \in Txn : write_set[t] # <<>> => holder = t /\ phase[t] \in {"active", "undo"}
    /\ \A i \in DOMAIN log : IsChange(log[i]) =>
          phase[log[i].txn] \in Settled \/ holder = log[i].txn
    /\ \A i, j \in DOMAIN log :
          IsChange(log[i]) /\ IsChange(log[j]) /\ i < j /\ log[i].txn # log[j].txn
              => phase[log[i].txn] \in Settled
    /\ committed_txns = Comm
    /\ aborted_txns = {t \in Txn : phase[t] = "aborted"}

\* The content of a record without the half of a change that the log lacks,
\* and with the half that the page lacks.
Now(rid) ==
    IF op # NoOp /\ op.change.rid = rid
    THEN IF op.stage = "log" THEN op.change.old ELSE op.change.new
    ELSE buf[rid]

\* The write set of the lock holder leads from the content back to what is
\* committed.
Undoable(rid) ==
    /\ holder = None => buf[rid] = committed[rid]
    /\ \A t \in Txn : holder = t =>
          /\ Tip(write_set[t], On(write_set[t], rid), committed[rid], Now(rid))
          /\ \A n \in On(write_set[t], rid) :
                Tip(write_set[t], {m \in On(write_set[t], rid) : m < n}, committed[rid],
                    write_set[t][n].old)

\* The page in the file has what was there when the log was emptied, or the
\* content of a committed transaction, or one that is known to be stolen.
OnDiskFrom(rid, base) ==
    \/ disk[rid] = base
    \/ \E i \in By(log, rid, Comm) : log[i].new = disk[rid]
    \/ \E s \in stolen : s.rid = rid /\ s.val = disk[rid]

\* Each change found what the changes before it had left.
Linked(rid, base) ==
    \A j \in On(log, rid) : Tip(log, Before(log, j, Rolled), base, log[j].old)

\* The log leads to the content, unless a rollback is under way.
Current(rid, base) ==
    (\A t \in Txn : holder = t => phase[t] \in {"active", "unlock"})
        => Tip(log, By(log, rid, Txn \ Rolled), base, Now(rid))

\* A record that had the content base when the log was empty.
Running(rid, base) ==
    /\ Linked(rid, base)
    /\ Tip(log, By(log, rid, Comm), base, committed[rid])
    /\ Current(rid, base)
    /\ Undoable(rid)
    /\ OnDiskFrom(rid, base)

-----------------------------------------------------------------------------
(* While recovery runs.                                                    *)

\* The changes that redo repeats.
Redo(rid) == By(log, rid, Txn \ aborted_txns)

\* The contents the record had, if base was the first.
Past(rid, base) == {base} \cup {log[i].new : i \in Redo(rid)}

\* Redo has passed the changes of done.  It may have skipped all of them: the
\* page in the file is younger than they are.
Repeated(s, done, base, x) ==
    \/ done = {}
    \/ Tip(s, done, base, x)
    \/ x = Absent /\ base # Absent /\ \A i \in done : s[i].type = "UPDATE"
    \/ x # Absent /\ base = Absent /\ \E i \in done : done = {i} /\ s[i].type = "INSERT"

Recovering(rid, base) ==
    /\ \A j \in Redo(rid) : Tip(log, {i \in Redo(rid) : i < j}, base, log[j].old)
    /\ Tip(log, By(log, rid, committed_txns), base, committed[rid])
    /\ \A i, j \in Redo(rid) :
          i < j /\ log[j].txn \in committed_txns => log[i].txn \in committed_txns
    /\ disk[rid] \in Past(rid, base) /\ buf[rid] \in Past(rid, base)
    /\ mode = "redo" => Repeated(log, {i \in Redo(rid) : i < cursor}, base, buf[rid])
    /\ mode = "undo" =>
          Tip(log, {i \in Redo(rid) : i <= cursor \/ log[i].txn \in committed_txns}, base, buf[rid])
    /\ mode \in {"flush", "reset"} => buf[rid] = committed[rid]

\* Nothing of the transactions is in memory.
Forgotten ==
    /\ holder = None /\ op = NoOp
    /\ phase = [t \in Txn |-> "none"] /\ write_set = [t \in Txn |-> <<>>]

WInv ==
    /\ WType
    /\ mode = "up" => Control /\ \A rid \in Rid : \E base \in Slot : Running(rid, base)
    /\ mode # "up" => Forgotten /\ committed_txns \cap aborted_txns = {}
    /\ mode # "up" /\ exposed = {} => \A rid \in Rid : \E base \in Slot : Recovering(rid, base)
    /\ (mode = "redo" => cursor > 0) /\ (mode = "undo" => cursor <= Len(log))
    /\ mode = "reset" => disk = buf

-----------------------------------------------------------------------------
(* What a set of changes leaves.                                           *)

\* ... is one content.
LEMMA TipUnique ==
    ASSUME NEW s, NEW changes, changes \subseteq Nat, NEW base, NEW x, NEW y,
           Tip(s, changes, base, x), Tip(s, changes, base, y)
    PROVE  x = y
BY DEF Tip

\* ... depends on these changes only.
LEMMA TipKept ==
    ASSUME NEW s, NEW s2, NEW changes, NEW base, NEW x, Tip(s, changes, base, x),
           \A i \in changes : s2[i].new = s[i].new
    PROVE  Tip(s2, changes, base, x)
BY Zenon DEF Tip

\* ... is what the youngest of them wrote.
LEMMA TipLast ==
    ASSUME NEW s, NEW changes, NEW base, NEW n \in changes, \A i \in changes : i <= n
    PROVE  Tip(s, changes, base, s[n].new)
BY Zenon DEF Tip

\* The entries of the log.
LEMMA LogEntries ==
    ASSUME WType
    PROVE  /\ DOMAIN log = 1 .. Len(log) /\ Len(log) \in Nat
           /\ \A i \in DOMAIN log : log[i] \in LogChange \cup LogMark
           /\ \A i \in DOMAIN log : IsChange(log[i]) => log[i] \in LogChange
           /\ \A rid : On(log, rid) \subseteq Nat
           /\ \A rid : \A i \in On(log, rid) :
                 i > 0 /\ log[i] \in LogChange /\ log[i].txn \in Txn /\ Coherent(log[i])
<1>1. DOMAIN log = 1 .. Len(log) /\ Len(log) \in Nat
      /\ \A i \in DOMAIN log : log[i] \in LogChange \cup LogMark
  BY DEF WType
<1>2. \A c \in LogMark : ~IsChange(c)
  BY Zenon DEF LogMark, IsChange, ChangeType
<1>3. \A rid : \A i \in On(log, rid) : i \in Nat /\ i > 0 /\ log[i] \in LogChange
  BY <1>1, <1>2 DEF On
<1>4. \A c \in LogChange : c.txn \in Txn /\ Coherent(c)
  BY Zenon DEF LogChange
<1> QED BY <1>1, <1>2, <1>3, <1>4, Zenon

-----------------------------------------------------------------------------
(* Recovery.                                                               *)

\* One turn of the loop of redo, for one record: the change is repeated, or
\* belongs to another record or a transaction that is rolled back, or meets a
\* page that is younger than it.
LEMMA RedoRecord ==
    ASSUME WType, NEW rid \in Rid, NEW base \in Slot, Recovering(rid, base),
           mode = "redo", cursor <= Len(log), cursor > 0, redo
    PROVE  Recovering(rid, base)'
<1>1. /\ buf' = Redone(buf, log[cursor]) /\ cursor' = cursor + 1
      /\ UNCHANGED <<mode, disk, log, committed>>
  BY Zenon DEF redo
<1>2. /\ Redo(rid)' = Redo(rid) /\ Past(rid, base)' = Past(rid, base)
      /\ committed_txns' = committed_txns
  BY <1>1 DEF Redo, Past, committed_txns, aborted_txns
<1>3. /\ cursor \in Nat /\ cursor \in DOMAIN log /\ Redo(rid) \subseteq Nat
      /\ \A i \in Redo(rid) : /\ log[i] \in LogChange /\ log[i].rid = rid /\ IsChange(log[i])
                              /\ log[i].txn \notin aborted_txns
  BY LogEntries DEF WType, Redo, By, On
<1> DEFINE done == {i \in Redo(rid) : i < cursor}
           c == log[cursor]
<1>4. CASE cursor \notin Redo(rid)
  <2>1. buf'[rid] = buf[rid]
    BY <1>1, <1>3, <1>4, LogEntries, Zenon DEF Redone, Redo, By, On, LogChange, WType
  <2>2. {i \in Redo(rid) : i < cursor'} = done
    BY <1>1, <1>3, <1>4
  <2> QED BY <1>1, <1>2, <2>1, <2>2, Zenon DEF Recovering, Repeated
<1>5. CASE cursor \in Redo(rid)
  <2>1. {i \in Redo(rid) : i < cursor'} = done \cup {cursor}
    BY <1>1, <1>3, <1>5
  <2>2. buf'[rid] = IF (c.type = "INSERT") = (buf[rid] = Absent) THEN c.new ELSE buf[rid]
    BY <1>1, <1>3, <1>5, Zenon DEF Redone, WType
  <2>3. c \in LogChange /\ Coherent(c) /\ c.type \in ChangeType
    BY <1>3, <1>5, Zenon DEF LogChange
  <2>4. Tip(log, done, base, c.old) /\ c.new \in Past(rid, base)
    BY <1>5, Zenon DEF Recovering, Past
  <2>5. buf'[rid] \in Past(rid, base)
    BY <2>2, <2>4, Zenon DEF Recovering
  <2>6. \A i \in done : i \in Nat /\ i < cursor /\ Coherent(log[i])
    BY <1>3, Zenon DEF LogChange
  <2>7. Tip(log, done \cup {cursor}, base, c.new)
    <3>1. \A i \in done \cup {cursor} : i <= cursor
      BY <1>3, <2>6
    <3> QED BY <3>1, TipLast, Zenon
  <2>8. Repeated(log, done, base, buf[rid])
    BY Zenon DEF Recovering
  <2> HIDE DEF c, done
  <2>9. Repeated(log, done \cup {cursor}, base, buf'[rid])
    <3>1. CASE buf'[rid] = c.new
      BY <2>7, <3>1, Zenon DEF Repeated
    <3>2. ASSUME (c.type = "INSERT") # (buf[rid] = Absent), buf[rid] # c.new, buf'[rid] = buf[rid]
          PROVE  Repeated(log, done \cup {cursor}, base, buf'[rid])
      <4>1. buf[rid] = Absent => c.type = "UPDATE"
        BY <2>3, <3>2, Zenon DEF Coherent, ChangeType
      <4>2. CASE done = {}
        <5>1. c.old = base
          BY <2>4, <4>2, Zenon DEF Tip
        <5> QED BY <2>3, <3>2, <4>1, <4>2, <5>1, Zenon DEF Repeated, Coherent, c
      <4>3. CASE Tip(log, done, base, buf[rid])
        <5>1. buf[rid] = c.old
          BY <2>4, <2>6, <4>3, TipUnique, Zenon
        <5> QED BY <2>3, <3>2, <5>1, Zenon DEF Coherent
      <4>4. CASE buf[rid] = Absent /\ base # Absent /\ \A i \in done : log[i].type = "UPDATE"
        BY <3>2, <4>1, <4>4, Zenon DEF Repeated, c
      <4>5. CASE /\ buf[rid] # Absent
                 /\ \E i \in done : done = {i} /\ log[i].type = "INSERT"
        <5>1. PICK i \in done : done = {i} /\ log[i].type = "INSERT"
          BY <4>5, Zenon
        <5>2. c.old = log[i].new /\ log[i].new # Absent
          BY <2>4, <2>6, <5>1, Zenon DEF Tip, Coherent
        <5> QED BY <2>3, <3>2, <4>5, <5>2, Zenon DEF Coherent
      <4> QED BY <2>8, <4>2, <4>3, <4>4, <4>5, Zenon DEF Repeated
    <3> QED BY <2>2, <3>1, <3>2, Zenon
  <2> QED BY <1>1, <1>2, <2>1, <2>5, <2>9, Zenon DEF Recovering
<1> QED BY <1>4, <1>5, Zenon

\* Redo has repeated history when it is at the end of the log.
LEMMA RedoEnd ==
    ASSUME WType, NEW rid \in Rid, NEW base \in Slot, Recovering(rid, base),
           mode = "redo", cursor > Len(log), redo
    PROVE  Recovering(rid, base)'
<1>1. mode' = "undo" /\ cursor' = Len(log) /\ UNCHANGED <<buf, disk, log, committed>>
  BY LogEntries DEF redo, WType
<1>2. /\ Redo(rid)' = Redo(rid) /\ Past(rid, base)' = Past(rid, base)
      /\ committed_txns' = committed_txns
  BY <1>1 DEF Redo, Past, committed_txns, aborted_txns
<1>3. \A i \in Redo(rid) : /\ i \in Nat /\ i <= Len(log) /\ i < cursor
                           /\ log[i] \in LogChange /\ Coherent(log[i])
  BY LogEntries DEF WType, Redo, By, On, LogChange
<1>4. {i \in Redo(rid) : i < cursor} = Redo(rid)
      /\ {i \in Redo(rid) : i <= cursor' \/ log[i].txn \in committed_txns} = Redo(rid)
  BY <1>1, <1>3, Zenon
<1>5. Repeated(log, Redo(rid), base, buf[rid]) /\ buf[rid] \in Past(rid, base)
  BY <1>4, Zenon DEF Recovering
<1>6. Tip(log, Redo(rid), base, buf[rid])
  <2>1. CASE Redo(rid) = {}
    BY <1>5, <2>1, Zenon DEF Tip, Past
  <2>2. CASE buf[rid] = Absent /\ base # Absent /\ \A i \in Redo(rid) : log[i].type = "UPDATE"
    BY <1>3, <1>5, <2>2, Zenon DEF Past, Coherent
  <2>3. ASSUME buf[rid] # Absent, base = Absent, NEW i \in Redo(rid), Redo(rid) = {i}
        PROVE  Tip(log, Redo(rid), base, buf[rid])
    BY <1>3, <1>5, <2>3 DEF Past, Tip
  <2> QED BY <1>5, <2>1, <2>2, <2>3, Zenon DEF Repeated
<1> QED BY <1>1, <1>2, <1>4, <1>6, Zenon DEF Recovering

\* Undo finds the change of a transaction that has neither committed nor
\* aborted in place.
LEMMA UndoFinds ==
    ASSUME WType, NEW rid \in Rid, NEW base \in Slot, Recovering(rid, base), mode = "undo",
           cursor \in Redo(rid), log[cursor].txn \notin committed_txns
    PROVE  /\ buf[rid] = log[cursor].new
           /\ \A i \in Redo(rid) : log[i].txn \in committed_txns => i < cursor
<1> DEFINE left == {i \in Redo(rid) : i <= cursor \/ log[i].txn \in committed_txns}
<1>1. cursor \in Nat /\ \A i \in Redo(rid) : i \in Nat
  BY LogEntries, Zenon DEF WType, Redo, By
<1>2. \A i \in Redo(rid) : log[i].txn \in committed_txns => i < cursor
  <2>1. \A i \in Redo(rid) : cursor < i /\ log[i].txn \in committed_txns
                                => log[cursor].txn \in committed_txns
    BY Zenon DEF Recovering
  <2> QED BY <1>1, <2>1
<1>3. cursor \in left /\ \A i \in left : i <= cursor /\ i \in Nat
  BY <1>1, <1>2
<1>4. Tip(log, left, base, buf[rid])
  BY Zenon DEF Recovering
<1>5. buf[rid] = log[cursor].new
  BY <1>1, <1>3, <1>4 DEF Tip
<1> QED BY <1>2, <1>5, Zenon

\* One turn of the loop of undo, for one record: a change of a transaction
\* that has neither committed nor aborted is in place, and is taken back.
LEMMA UndoRecord ==
    ASSUME WType, NEW rid \in Rid, NEW base \in Slot, Recovering(rid, base),
           committed_txns \cap aborted_txns = {},
           mode = "undo", cursor <= Len(log), cursor > 0, undo
    PROVE  Recovering(rid, base)'
<1>1. /\ buf' = Undone(buf, log[cursor]) /\ cursor' = cursor - 1
      /\ UNCHANGED <<mode, disk, log, committed>>
  BY Zenon DEF undo
<1>2. /\ Redo(rid)' = Redo(rid) /\ Past(rid, base)' = Past(rid, base)
      /\ committed_txns' = committed_txns
  BY <1>1 DEF Redo, Past, committed_txns, aborted_txns
<1>3. /\ cursor \in Nat /\ cursor \in DOMAIN log /\ cursor' \in Nat
      /\ \A i \in Redo(rid) : /\ i \in Nat /\ log[i] \in LogChange /\ log[i].rid = rid
                              /\ IsChange(log[i]) /\ log[i].txn \notin aborted_txns
  BY <1>1, LogEntries DEF WType, Redo, By, On
<1> DEFINE left == {i \in Redo(rid) : i <= cursor \/ log[i].txn \in committed_txns}
           below == {i \in Redo(rid) : i < cursor}
           c == log[cursor]
<1>4. Tip(log, left, base, buf[rid])
  BY Zenon DEF Recovering
<1>5. CASE cursor \in Redo(rid) /\ c.txn \notin committed_txns
  <2>1. \A i \in Redo(rid) : log[i].txn \in committed_txns => i < cursor
    BY <1>5, UndoFinds, Zenon
  <2>2. buf[rid] = c.new
    BY <1>5, UndoFinds, Zenon
  <2>3. c \in LogChange /\ Coherent(c) /\ c.txn \notin aborted_txns /\ c.rid = rid /\ IsChange(c)
    BY <1>3, <1>5, Zenon DEF LogChange
  <2>4. buf'[rid] = c.old
    BY <1>1, <1>5, <2>2, <2>3, Zenon DEF Undone, WType, Coherent
  <2>5. {i \in Redo(rid) : i <= cursor' \/ log[i].txn \in committed_txns} = below
    <3>1. \A i \in Redo(rid) : i <= cursor' <=> i < cursor
      BY <1>1, <1>3
    <3> QED BY <2>1, <3>1, Zenon
  <2>6. Tip(log, below, base, c.old)
    BY <1>5, Zenon DEF Recovering
  <2>7. c.old \in Past(rid, base)
    BY <2>6, Zenon DEF Tip, Past
  <2> HIDE DEF left, below, c
  <2> QED BY <1>1, <1>2, <2>2, <2>4, <2>5, <2>6, <2>7, Zenon DEF Recovering, c
<1>6. CASE ~(cursor \in Redo(rid) /\ c.txn \notin committed_txns)
  <2>1. buf'[rid] = buf[rid]
    BY <1>1, <1>3, <1>6, LogEntries, Zenon DEF Undone, Redo, By, On, LogChange, WType
  <2>2. {i \in Redo(rid) : i <= cursor' \/ log[i].txn \in committed_txns} = left
    BY <1>1, <1>3, <1>6
  <2> HIDE DEF left
  <2> QED BY <1>1, <1>2, <1>4, <1>6, <2>1, <2>2, Zenon DEF Recovering
<1> QED BY <1>5, <1>6, Zenon

\* Undo has left the changes of committed transactions when it is at the
\* beginning of the log.
LEMMA UndoEnd ==
    ASSUME WType, NEW rid \in Rid, NEW base \in Slot, Recovering(rid, base),
           committed_txns \cap aborted_txns = {},
           mode = "undo", cursor = 0, undo
    PROVE  Recovering(rid, base)'
<1>1. mode' = "flush" /\ UNCHANGED <<buf, disk, log, committed>>
  BY DEF undo
<1>2. /\ Redo(rid)' = Redo(rid) /\ Past(rid, base)' = Past(rid, base)
      /\ committed_txns' = committed_txns
  BY <1>1 DEF Redo, Past, committed_txns, aborted_txns
<1>3. By(log, rid, committed_txns) \subseteq Nat
  BY LogEntries, Zenon DEF By
<1>4. \A i \in On(log, rid) : i \in Nat /\ i > 0 /\ log[i].txn \in Txn
  BY LogEntries, Zenon
<1>5. {i \in Redo(rid) : i <= cursor \/ log[i].txn \in committed_txns} = By(log, rid, committed_txns)
  BY <1>3, <1>4 DEF Redo, By
<1>6. buf[rid] = committed[rid]
  <2>1. /\ Tip(log, By(log, rid, committed_txns), base, buf[rid])
        /\ Tip(log, By(log, rid, committed_txns), base, committed[rid])
    BY <1>5, Zenon DEF Recovering
  <2> QED BY <1>3, <2>1, TipUnique, Zenon
<1> QED BY <1>1, <1>2, <1>6, Zenon DEF Recovering

\* Nothing has been done since the log was emptied.
Fresh ==
    /\ WType /\ Forgotten /\ log = <<>>
    /\ \A rid \in Rid : buf[rid] = committed[rid] /\ disk[rid] = committed[rid]

\* The invariant holds there, whatever the contents.
LEMMA FreshStart == Fresh => Control /\ \A rid \in Rid : \E base \in Slot : Running(rid, base)
<1> SUFFICES ASSUME Fresh PROVE Control /\ \A rid \in Rid : \E base \in Slot : Running(rid, base)
  OBVIOUS
<1>1. /\ DOMAIN log = {} /\ committed_txns = {} /\ aborted_txns = {}
      /\ \A r : On(log, r) = {}
      /\ \A r, S : By(log, r, S) = {}
  BY DEF Fresh, On, By, committed_txns, aborted_txns
<1>2. /\ Comm = {} /\ {t \in Txn : phase[t] = "aborted"} = {}
      /\ op = NoOp /\ holder = None /\ \A t \in Txn : write_set[t] = <<>> /\ holder # t
  BY NoneAssumption, Zenon DEF Fresh, Forgotten, Comm
<1>3. Control
  BY <1>1, <1>2, NoneAssumption, Zenon DEF Control
<1>4. ASSUME NEW rid \in Rid PROVE \E base \in Slot : Running(rid, base)
  <2>1. PICK base \in Slot : base = committed[rid] /\ base = buf[rid] /\ base = disk[rid]
    BY Zenon DEF Fresh, WType
  <2>2. Undoable(rid) /\ Now(rid) = base
    BY <1>2, <2>1, Zenon DEF Undoable, Now
  <2>3. OnDiskFrom(rid, base) /\ Tip(log, {}, base, base)
    BY <2>1, Zenon DEF OnDiskFrom, Tip
  <2>4. Running(rid, base)
    BY <1>1, <2>1, <2>2, <2>3, Zenon DEF Running, Linked, Current
  <2> QED BY <2>4, Zenon
<1> QED BY <1>3, <1>4, Zenon

\* redo, undo, the flush of the pages and the reset of the log.
LEMMA RecoveryStep == ASSUME WInv, Recovery PROVE WInv'
<1>1. WType /\ mode # "up" /\ Forgotten
  BY Zenon DEF WInv, Recovery, redo, undo, flush_all_pages, reset_log
<1>2. CASE redo \/ undo \/ flush_all_pages
  <2>1. UNCHANGED <<log, phase, op, write_set, holder, committed, stolen, exposed>> /\ mode' # "up"
    BY <1>1, <1>2, Zenon DEF redo, undo, flush_all_pages, memVars
  <2>2. Forgotten' /\ (committed_txns \cap aborted_txns = {})'
    BY <1>1, <2>1 DEF WInv, Forgotten, committed_txns, aborted_txns
  <2>3. buf' \in [Rid -> Slot] /\ disk' \in [Rid -> Slot]
    <3>1. CASE redo
      <4>1. cursor <= Len(log) => log[cursor] \in LogChange \cup LogMark
        BY <1>1, <3>1, LogEntries DEF WInv, WType, redo
      <4>2. \A c \in LogMark : ~IsChange(c)
        BY Zenon DEF LogMark, IsChange, ChangeType
      <4>3. \A c \in LogChange : c.new \in Slot
        BY Zenon DEF LogChange
      <4> QED BY <1>1, <3>1, <4>1, <4>2, <4>3, Zenon DEF redo, Redone, WType
    <3>2. CASE undo
      <4>1. cursor > 0 => log[cursor] \in LogChange \cup LogMark
        BY <1>1, <3>2, LogEntries DEF WInv, WType, undo
      <4>2. \A c \in LogMark : ~IsChange(c)
        BY Zenon DEF LogMark, IsChange, ChangeType
      <4>3. \A c \in LogChange : c.old \in Slot
        BY Zenon DEF LogChange
      <4> QED BY <1>1, <3>2, <4>1, <4>2, <4>3, Zenon DEF undo, Undone, WType
    <3>3. CASE flush_all_pages
      BY <1>1, <3>3, Zenon DEF flush_all_pages, OnDisk, WType
    <3> QED BY <1>2, <3>1, <3>2, <3>3, Zenon
  <2>4. /\ cursor' \in Nat /\ mode' \in {"redo", "undo", "flush", "reset"}
        /\ (mode' = "redo" => cursor' > 0) /\ (mode' = "undo" => cursor' <= Len(log'))
    BY <1>1, <1>2, <2>1, LogEntries DEF redo, undo, flush_all_pages, WInv, WType
  <2>5. WType'
    BY <1>1, <2>1, <2>3, <2>4, Zenon DEF WType
  <2>6. mode' = "reset" => disk' = buf' /\ buf' = buf /\ mode = "flush"
    BY <1>1, <1>2, Zenon DEF redo, undo, flush_all_pages, OnDisk, Page, WType
  <2>7. ASSUME NEW rid \in Rid, exposed = {} PROVE \E base \in Slot : Recovering(rid, base)'
    <3>1. PICK base \in Slot : Recovering(rid, base)
      BY <1>1, <2>7, Zenon DEF WInv
    <3>2. CASE redo
      <4>1. mode = "redo" /\ cursor > 0 /\ cursor \in Nat /\ Len(log) \in Nat
        BY <1>1, <3>2, LogEntries, Zenon DEF redo, WInv, WType
      <4>2. Recovering(rid, base)'
        BY <1>1, <3>1, <3>2, <4>1, RedoRecord, RedoEnd
      <4> QED BY <4>2, Zenon
    <3>3. CASE undo
      <4>1. mode = "undo" /\ cursor <= Len(log) /\ cursor \in Nat
            /\ committed_txns \cap aborted_txns = {}
        BY <1>1, <3>3, Zenon DEF undo, WInv, WType
      <4>2. Recovering(rid, base)'
        BY <1>1, <3>1, <3>3, <4>1, UndoRecord, UndoEnd
      <4> QED BY <4>2, Zenon
    <3>4. CASE flush_all_pages
      <4>1. /\ mode = "flush" /\ mode' = "reset" /\ UNCHANGED <<buf, log, committed>>
            /\ disk' = buf
        BY <2>6, <3>4, Zenon DEF flush_all_pages
      <4>2. Redo(rid)' = Redo(rid) /\ Past(rid, base)' = Past(rid, base)
            /\ committed_txns' = committed_txns
        BY <4>1 DEF Redo, Past, committed_txns, aborted_txns
      <4>3. Recovering(rid, base)'
        BY <3>1, <4>1, <4>2, Zenon DEF Recovering
      <4> QED BY <4>3, Zenon
    <3> QED BY <1>2, <3>2, <3>3, <3>4, Zenon
  <2> QED BY <2>1, <2>2, <2>4, <2>5, <2>6, <2>7, Zenon DEF WInv
<1>3. CASE reset_log
  <2>1. /\ mode = "reset" /\ mode' = "up" /\ log' = <<>> /\ stolen' = {}
        /\ committed' = IF exposed = {} THEN committed ELSE buf
        /\ UNCHANGED <<buf, disk, phase, op, write_set, holder, cursor>>
    BY <1>3, Zenon DEF reset_log, memVars
  <2>2. disk = buf /\ (exposed = {} => \A rid \in Rid : buf[rid] = committed[rid])
    BY <1>1, <2>1, Zenon DEF WInv, Recovering
  <2>3. WType' /\ Forgotten'
    BY <1>1, <2>1 DEF WType, Forgotten
  <2>4. \A rid \in Rid : buf'[rid] = committed'[rid] /\ disk'[rid] = committed'[rid]
    BY <2>1, <2>2, Zenon
  <2>5. Fresh'
    BY <2>1, <2>3, <2>4, Zenon DEF Fresh
  <2>6. (Fresh => Control /\ \A rid \in Rid : \E base \in Slot : Running(rid, base))'
    BY FreshStart, PTL
  <2> QED BY <2>1, <2>3, <2>5, <2>6, Zenon DEF WInv
<1> QED BY <1>2, <1>3, Zenon DEF Recovery

-----------------------------------------------------------------------------
(* Pages reach the disk, the server stops.                                 *)

\* A record differs from what is committed only while somebody has it in the
\* write set, or half-done.
LEMMA DirtyIsTouched ==
    ASSUME WType, Control, NEW rid \in Rid, Undoable(rid), buf[rid] # committed[rid]
    PROVE  \E t \in Txn : holder = t /\ rid \in Touched(t)
<1>1. PICK t \in Txn : holder = t
  BY Zenon DEF WType, Undoable
<1>2. CASE op # NoOp /\ op.change.rid = rid
  BY <1>1, <1>2, Zenon DEF Touched
<1>3. CASE ~(op # NoOp /\ op.change.rid = rid)
  <2>1. On(write_set[t], rid) # {}
    BY <1>1, <1>3, Zenon DEF Undoable, Now, Tip
  <2> QED BY <1>1, <2>1, Zenon DEF Touched, On
<1> QED BY <1>2, <1>3, Zenon

\* Outside the first case of Exposure the log tells recovery which changes
\* followed each other.
LEMMA StopRecord ==
    ASSUME WType, Control, NEW rid \in Rid, NEW base \in Slot, Running(rid, base),
           ~UnloggedAbort, disk'[rid] \in Past(rid, base), buf'[rid] = disk'[rid],
           mode' = "redo", cursor' = 1, UNCHANGED <<log, committed>>
    PROVE  Recovering(rid, base)'
<1>1. /\ Redo(rid)' = Redo(rid) /\ Past(rid, base)' = Past(rid, base)
      /\ committed_txns' = committed_txns
  BY DEF Redo, Past, committed_txns, aborted_txns
<1>2. /\ committed_txns = Comm /\ aborted_txns = {t \in Txn : phase[t] = "aborted"}
      /\ \A i \in On(log, rid) : /\ i \in Nat /\ i > 0 /\ i \in DOMAIN log /\ IsChange(log[i])
                                 /\ log[i].txn \in Txn /\ log[i].rid = rid
  BY LogEntries, Zenon DEF Control, On
<1>3. ASSUME NEW i \in On(log, rid), NEW j \in On(log, rid), i < j, log[i].txn # log[j].txn,
             log[i].txn \notin aborted_txns
      PROVE  phase[log[i].txn] = "committed"
  <2>1. phase[log[i].txn] \in Settled
    BY <1>2, <1>3, Zenon DEF Control
  <2>2. phase[log[i].txn] # "abort_log"
    BY <1>2, <1>3 DEF UnloggedAbort
  <2> QED BY <1>2, <1>3, <2>1, <2>2, Zenon DEF Settled
<1>4. ASSUME NEW j \in Redo(rid)
      PROVE  Tip(log, {i \in Redo(rid) : i < j}, base, log[j].old)
  <2>1. j \in On(log, rid) /\ log[j].rid = rid /\ log[j].txn \notin aborted_txns
    BY <1>2, Zenon DEF Redo, By
  <2>2. ASSUME NEW i \in On(log, rid), i < j
        PROVE  log[i].txn \notin aborted_txns
                  <=> (log[i].txn = log[j].txn \/ log[i].txn \notin Rolled)
    BY <1>2, <1>3, <2>1, <2>2, Zenon DEF Rolled
  <2>3. {i \in Redo(rid) : i < j} = Before(log, j, Rolled)
    BY <1>2, <2>1, <2>2, Zenon DEF Redo, By, Before
  <2> QED BY <2>1, <2>3, Zenon DEF Running, Linked
<1>5. ASSUME NEW i \in Redo(rid), NEW j \in Redo(rid), i < j, log[j].txn \in committed_txns
      PROVE  log[i].txn \in committed_txns
  <2>1. i \in On(log, rid) /\ j \in On(log, rid) /\ log[i].txn \notin aborted_txns
    BY Zenon DEF Redo, By
  <2> QED BY <1>2, <1>3, <1>5, <2>1, Zenon DEF Comm
<1>6. {i \in Redo(rid) : i < 1} = {}
  BY <1>2 DEF Redo, By
<1>7. Tip(log, By(log, rid, committed_txns), base, committed[rid])
  BY <1>2, Zenon DEF Running
<1> QED BY <1>1, <1>4, <1>5, <1>6, <1>7, Zenon DEF Recovering, Repeated

\* Recovery that is interrupted begins again, with what it had got to disk.
LEMMA RecoveryCrash ==
    ASSUME WType, NEW rid \in Rid, NEW base \in Slot, Recovering(rid, base),
           buf' = disk, mode' = "redo", cursor' = 1, UNCHANGED <<disk, log, committed>>
    PROVE  Recovering(rid, base)'
<1>1. /\ Redo(rid)' = Redo(rid) /\ Past(rid, base)' = Past(rid, base)
      /\ committed_txns' = committed_txns
  BY DEF Redo, Past, committed_txns, aborted_txns
<1>2. {i \in Redo(rid) : i < 1} = {}
  BY LogEntries DEF Redo, By
<1> QED BY <1>1, <1>2, Zenon DEF Recovering, Repeated

\* What is committed is a content of the past that redo repeats.
LEMMA CommittedIsPast ==
    ASSUME WType, Control, NEW rid \in Rid, NEW base \in Slot, Running(rid, base)
    PROVE  /\ By(log, rid, Comm) \subseteq Redo(rid)
           /\ committed[rid] \in Past(rid, base)
<1>1. By(log, rid, Comm) \subseteq Redo(rid)
  BY LogEntries, Zenon DEF By, Redo, Comm, Control
<1>2. Tip(log, By(log, rid, Comm), base, committed[rid])
  BY Zenon DEF Running
<1> QED BY <1>1, <1>2, Zenon DEF Tip, Past

\* A crash, and a shutdown that writes every page.
LEMMA StopStep == ASSUME WInv, Crash \/ close_db PROVE WInv'
<1>1. /\ WType /\ mode' = "redo" /\ cursor' = 1 /\ UNCHANGED <<log, committed>> /\ Forgotten'
      /\ buf' \in [Rid -> Slot] /\ disk' \in [Rid -> Slot] /\ buf' = disk'
  <2>1. WType
    BY Zenon DEF WInv
  <2>2. mode' = "redo" /\ cursor' = 1 /\ UNCHANGED <<log, committed>> /\ Forgotten'
    BY Zenon DEF Crash, close_db, Stop, Forgotten
  <2>3. CASE Crash
    BY <2>1, <2>2, <2>3, Zenon DEF Crash, WType
  <2>4. CASE close_db
    <3>1. buf' = buf /\ disk' = [rid \in Rid |-> buf[rid]]
      BY <2>4, Zenon DEF close_db, OnDisk, Page
    <3> QED BY <2>1, <2>2, <3>1, Zenon DEF WType
  <2> QED BY <2>1, <2>2, <2>3, <2>4, Zenon
<1>2. stolen' \subseteq [rid : Rid, txn : Txn, val : Slot]
  BY <1>1, Zenon DEF Crash, close_db, Uncommitted, WType
<1>3. WType'
  BY <1>1, <1>2 DEF WType, Forgotten, Phase
<1>4. (committed_txns \cap aborted_txns = {})'
  <2>1. committed_txns' = committed_txns /\ aborted_txns' = aborted_txns
    BY <1>1, Zenon DEF committed_txns, aborted_txns
  <2>2. mode = "up" => committed_txns \cap aborted_txns = {}
    BY Zenon DEF WInv, Control, Comm
  <2> QED BY <2>1, <2>2, Zenon DEF WInv
<1>5. ASSUME NEW rid \in Rid, exposed' = {} PROVE \E base \in Slot : Recovering(rid, base)'
  <2>1. CASE mode # "up"
    <3>1. Crash /\ exposed = {}
      BY <1>5, <2>1, Zenon DEF Crash, close_db
    <3>2. PICK base \in Slot : Recovering(rid, base)
      BY <2>1, <3>1, Zenon DEF WInv
    <3>3. Recovering(rid, base)'
      BY <1>1, <3>1, <3>2, RecoveryCrash, Zenon DEF Crash
    <3> QED BY <3>3, Zenon
  <2>2. CASE mode = "up"
    <3>1. PICK base \in Slot : Running(rid, base)
      BY <2>2, Zenon DEF WInv
    <3>2. Control /\ ~UnloggedAbort
      BY <1>5, <2>2, Zenon DEF WInv, Crash, close_db, Exposure
    <3>3. disk'[rid] \in Past(rid, base)
      <4>1. By(log, rid, Comm) \subseteq Redo(rid) /\ committed[rid] \in Past(rid, base)
        BY <1>1, <3>1, <3>2, CommittedIsPast, Zenon
      <4>2. ASSUME NEW s \in [rid : Rid, txn : Txn, val : Slot], s.rid = rid, Logged(s),
                   phase[s.txn] # "aborted"
            PROVE  s.val \in Past(rid, base)
        BY <3>2, <4>2, Zenon DEF Logged, Past, Redo, By, On, Control
      <4>3. CASE Crash
        <5>1. \A s \in stolen : Logged(s) /\ phase[s.txn] # "aborted"
          BY <1>5, <2>2, <4>3, Zenon DEF Crash, Exposure, StolenAborted, StolenUnlogged
        <5>2. OnDiskFrom(rid, base) /\ disk' = disk
          BY <3>1, <4>3, Zenon DEF Running, Crash
        <5> QED BY <1>1, <4>1, <4>2, <5>1, <5>2, Zenon DEF OnDiskFrom, Past, WType
      <4>4. CASE close_db /\ buf[rid] # committed[rid]
        <5>1. PICK t \in Txn : holder = t /\ rid \in Touched(t)
          BY <1>1, <3>1, <3>2, <4>4, DirtyIsTouched, Zenon DEF Running
        <5> DEFINE s == [rid |-> rid, txn |-> t, val |-> buf[rid]]
        <5>2. s \in [rid : Rid, txn : Txn, val : Slot] /\ s.rid = rid /\ s.txn = t /\ s.val = buf[rid]
          BY <1>1, Zenon DEF WType
        <5>3. s \in stolen'
          BY <4>4, <5>1, <5>2, Zenon DEF close_db, Uncommitted, Page
        <5>4. Logged(s)
          BY <1>1, <1>5, <4>4, <5>3, Zenon DEF close_db, StolenUnlogged, Logged
        <5>5. phase[t] # "aborted"
          BY <3>2, <5>1, Zenon DEF Control
        <5> QED BY <1>1, <4>2, <4>4, <5>2, <5>4, <5>5, Zenon DEF close_db
      <4>5. CASE close_db /\ buf[rid] = committed[rid]
        BY <1>1, <4>1, <4>5, Zenon DEF close_db
      <4> QED BY <4>3, <4>4, <4>5, Zenon
    <3>4. Recovering(rid, base)'
      BY <1>1, <3>1, <3>2, <3>3, StopRecord, Zenon
    <3> QED BY <3>4, Zenon
  <2> QED BY <2>1, <2>2, Zenon
<1> QED BY <1>1, <1>3, <1>4, <1>5 DEF WInv

\* The buffer pool steals a page.
LEMMA EvictStep == ASSUME WInv, NEW page \in Page, Evict(page) PROVE WInv'
<1>1. /\ WType /\ UNCHANGED <<buf, log, phase, op, write_set, holder, mode, cursor, committed, exposed>>
      /\ stolen' = {s \in stolen : PageOf[s.rid] # page} \cup Uncommitted({page})
      /\ \A rid \in Rid : disk'[rid] = IF PageOf[rid] = page THEN buf[rid] ELSE disk[rid]
      /\ \E rid \in Rid : buf[rid] # disk[rid]
  BY Zenon DEF WInv, Evict, OnDisk, memVars
<1>2. WType'
  <2>1. disk' \in [Rid -> Slot]
    BY <1>1, Zenon DEF Evict, OnDisk, WType
  <2>2. stolen' \subseteq [rid : Rid, txn : Txn, val : Slot]
    BY <1>1, Zenon DEF Uncommitted, WType
  <2> QED BY <1>1, <2>1, <2>2, Zenon DEF WType
<1>3. /\ committed_txns' = committed_txns /\ aborted_txns' = aborted_txns
      /\ Comm' = Comm /\ Rolled' = Rolled
  BY <1>1, Zenon DEF committed_txns, aborted_txns, Comm, Rolled
<1>4. CASE mode # "up"
  <2>1. ASSUME NEW rid \in Rid, exposed = {} PROVE \E base \in Slot : Recovering(rid, base)'
    <3>1. PICK base \in Slot : Recovering(rid, base)
      BY <1>4, <2>1, Zenon DEF WInv
    <3>2. Redo(rid)' = Redo(rid) /\ Past(rid, base)' = Past(rid, base)
      BY <1>1, <1>3, Zenon DEF Redo, Past
    <3>3. Recovering(rid, base)'
      BY <1>1, <1>3, <3>1, <3>2, Zenon DEF Recovering
    <3> QED BY <3>3, Zenon
  <2>2. Forgotten' /\ (committed_txns \cap aborted_txns = {})'
    BY <1>1, <1>3, <1>4, Zenon DEF WInv, Forgotten
  <2> QED BY <1>1, <1>2, <1>4, <2>1, <2>2, Zenon DEF WInv
<1>5. CASE mode = "up"
  <2>1. Control /\ Control'
    BY <1>1, <1>3, <1>5, Zenon DEF WInv, Control
  <2>2. ASSUME NEW rid \in Rid PROVE \E base \in Slot : Running(rid, base)'
    <3>1. PICK base \in Slot : Running(rid, base)
      BY <1>5, Zenon DEF WInv
    <3>2. OnDiskFrom(rid, base)'
      <4>1. CASE PageOf[rid] # page
        BY <1>1, <1>3, <3>1, <4>1, Zenon DEF Running, OnDiskFrom
      <4>2. CASE PageOf[rid] = page /\ buf[rid] = committed[rid]
        BY <1>1, <1>3, <3>1, <4>2, Zenon DEF Running, OnDiskFrom, Tip
      <4>3. CASE PageOf[rid] = page /\ buf[rid] # committed[rid]
        <5>1. PICK t \in Txn : rid \in Touched(t)
          BY <1>1, <2>1, <3>1, <4>3, DirtyIsTouched, Zenon DEF Running
        <5> DEFINE s == [rid |-> rid, txn |-> t, val |-> buf[rid]]
        <5>2. s \in [rid : Rid, txn : Txn, val : Slot] /\ s.rid = rid /\ s.txn = t /\ s.val = buf[rid]
          BY <1>1, Zenon DEF WType
        <5>3. s \in stolen'
          BY <1>1, <4>3, <5>1, <5>2, Zenon DEF Uncommitted
        <5> QED BY <1>1, <4>3, <5>2, <5>3, Zenon DEF OnDiskFrom
      <4> QED BY <4>1, <4>2, <4>3, Zenon
    <3>3. Now(rid)' = Now(rid)
      BY <1>1, Zenon DEF Now
    <3>4. Undoable(rid)' /\ Current(rid, base)' /\ Linked(rid, base)'
      BY <1>1, <1>3, <3>1, <3>3, Zenon DEF Running, Undoable, Current, Linked
    <3>5. Running(rid, base)'
      BY <1>1, <1>3, <3>1, <3>2, <3>4, Zenon DEF Running
    <3> QED BY <3>5, Zenon
  <2> QED BY <1>1, <1>2, <1>5, <2>1, <2>2, Zenon DEF WInv
<1> QED BY <1>4, <1>5, Zenon


-----------------------------------------------------------------------------
(* Transactions.                                                           *)

\* What the log knows does not change with the memory.
LEMMA LogKept ==
    ASSUME NEW rid \in Rid, NEW base \in Slot, Running(rid, base),
           UNCHANGED <<log, committed, disk, stolen>>, Comm' = Comm, Rolled' = Rolled,
           Undoable(rid)', Current(rid, base)'
    PROVE  Running(rid, base)'
<1>1. Linked(rid, base)' /\ OnDiskFrom(rid, base)'
  BY Zenon DEF Running, Linked, OnDiskFrom
<1> QED BY <1>1, Zenon DEF Running

\* Steps that make or complete half of a change: to the page before the log,
\* or to the page after the log.
LEMMA PageStep ==
    ASSUME WInv, NEW t \in Txn,
           \/ \E rid \in Rid, val \in Val : InsertPage(t, rid, val)
           \/ InsertRefused(t) \/ ChangePage(t)
    PROVE  WInv'
<1>1. /\ WType /\ Control /\ mode = "up" /\ mode' = "up" /\ holder = t
      /\ \A rid \in Rid : \E base \in Slot : Running(rid, base)
      /\ UNCHANGED <<disk, log, phase, write_set, holder, cursor, committed, stolen>>
  BY Zenon DEF WInv, InsertPage, InsertRefused, ChangePage, MayWrite
<1>2. /\ buf' \in [Rid -> Slot] /\ op' \in HalfDone \cup {NoOp}
      /\ \A rid \in Rid : Now(rid)' = Now(rid)
      /\ op' # NoOp => /\ phase[t] = "active"
                       /\ op'.stage = "log" => op'.change.old = Absent
                                            /\ buf'[op'.change.rid] = op'.change.new
  <2>1. ASSUME NEW rid \in Rid, NEW val \in Val, InsertPage(t, rid, val)
        PROVE  <1>2!:
    <3> DEFINE c == Change("INSERT", rid, Absent, val)
               h == [stage |-> "log", change |-> c]
    <3>1. c \in ChangeRecord /\ c.rid = rid /\ c.old = Absent /\ c.new = val
      BY AbsentAssumption, Zenon DEF ChangeRecord, Change, ChangeType, Slot, Coherent
    <3>2. /\ op = NoOp /\ op' = h /\ buf[rid] = Absent /\ buf' = [buf EXCEPT ![rid] = val]
          /\ phase[t] = "active"
      BY <2>1, Zenon DEF InsertPage, MayWrite
    <3> HIDE DEF c
    <3>3. h \in HalfDone /\ h # NoOp /\ h.stage = "log" /\ h.change = c
      BY <3>1 DEF HalfDone, NoOp
    <3> HIDE DEF h
    <3> QED BY <1>1, <3>1, <3>2, <3>3, Zenon DEF WType, Now, Slot
  <2>2. CASE InsertRefused(t)
    BY <1>1, <2>2, Zenon DEF InsertRefused, Control, WType, HalfDone, ChangeRecord, Slot, Now
  <2>3. CASE ChangePage(t)
    BY <1>1, <2>3, Zenon DEF ChangePage, Control, WType, HalfDone, ChangeRecord, Slot, Now
  <2> QED BY <2>1, <2>2, <2>3, Zenon
<1>3. WType'
  BY <1>1, <1>2, Zenon DEF WType
<1>4. /\ Comm' = Comm /\ Rolled' = Rolled /\ committed_txns' = committed_txns
      /\ aborted_txns' = aborted_txns
  BY <1>1, Zenon DEF Comm, Rolled, committed_txns, aborted_txns
<1>5. Control'
  BY <1>1, <1>2, <1>4, Zenon DEF Control
<1>6. ASSUME NEW rid \in Rid PROVE \E base \in Slot : Running(rid, base)'
  <2>1. PICK base \in Slot : Running(rid, base)
    BY <1>1, Zenon
  <2>2. Now(rid)' = Now(rid) /\ holder # None
    BY <1>1, <1>2, NoneAssumption, Zenon
  <2>3. Undoable(rid)' /\ Current(rid, base)'
    BY <1>1, <1>4, <2>1, <2>2, Zenon DEF Running, Undoable, Current
  <2>4. Running(rid, base)'
    BY <1>1, <1>4, <2>1, <2>3, LogKept, Zenon
  <2> QED BY <2>4, Zenon
<1> QED BY <1>1, <1>3, <1>5, <1>6, Zenon DEF WInv

\* lock_exclusive_on_table, and the beginning and the end of the undo loop.
LEMMA PhaseStep ==
    ASSUME WInv, NEW t \in Txn, Lock(t) \/ abort(t) \/ EndUndo(t)
    PROVE  WInv'
<1>1. /\ WType /\ Control /\ mode = "up" /\ mode' = "up"
      /\ \A rid \in Rid : \E base \in Slot : Running(rid, base)
      /\ UNCHANGED <<buf, disk, log, op, write_set, cursor, committed, stolen>>
  BY Zenon DEF WInv, Lock, abort, EndUndo
<1>2. /\ holder' \in {holder, t} /\ phase' \in [Txn -> Phase]
      /\ \A u \in Txn \ {t} : phase'[u] = phase[u]
      /\ phase[t] \in {"active", "undo"} /\ phase'[t] \in {"active", "undo", "release"}
  BY <1>1, Zenon DEF Lock, abort, EndUndo, WType, Phase
<1>3. /\ Comm' = Comm /\ Rolled' = Rolled /\ committed_txns' = committed_txns
      /\ aborted_txns' = aborted_txns
      /\ {u \in Txn : phase'[u] = "aborted"} = {u \in Txn : phase[u] = "aborted"}
  BY <1>1, <1>2, Zenon DEF Comm, Rolled, committed_txns, aborted_txns
<1>4. WType'
  BY <1>1, <1>2, Zenon DEF WType
<1>5. CASE Lock(t)
  <2>1. /\ holder = None /\ holder' = t /\ phase' = phase /\ phase[t] = "active"
        /\ op = NoOp /\ \A u \in Txn : write_set[u] = <<>>
        /\ \A i \in DOMAIN log : IsChange(log[i]) => phase[log[i].txn] \in Settled
    BY <1>1, <1>5, NoneAssumption, LogEntries, Zenon DEF Lock, Control, LogChange
  <2>2. Control'
    BY <1>1, <1>3, <2>1, Zenon DEF Control
  <2>3. ASSUME NEW rid \in Rid PROVE \E base \in Slot : Running(rid, base)'
    <3>1. PICK base \in Slot : Running(rid, base)
      BY <1>1, Zenon
    <3>2. Now(rid)' = Now(rid) /\ Now(rid) = committed[rid]
      BY <1>1, <2>1, <3>1, Zenon DEF Now, Running, Undoable
    <3>3. On(<<>>, rid) = {} /\ holder' # None
      BY <2>1, NoneAssumption DEF On
    <3>4. Undoable(rid)'
      BY <1>1, <2>1, <3>2, <3>3, Zenon DEF Undoable, Tip
    <3>5. Current(rid, base)'
      BY <1>1, <1>3, <2>1, <3>1, <3>2, NoneAssumption, Zenon DEF Running, Current
    <3>6. Running(rid, base)'
      BY <1>1, <1>3, <3>1, <3>4, <3>5, LogKept, Zenon
    <3> QED BY <3>6, Zenon
  <2> QED BY <1>1, <1>4, <2>2, <2>3, Zenon DEF WInv
<1>6. CASE abort(t) \/ EndUndo(t)
  <2>1. /\ holder' = holder /\ phase'[t] \in {"undo", "release"}
        /\ holder = t => op = NoOp
        /\ phase'[t] = "release" => write_set[t] = <<>>
    BY <1>1, <1>2, <1>6, Zenon DEF abort, EndUndo, Control, WType
  <2>2. Control'
    BY <1>1, <1>2, <1>3, <2>1, LogEntries DEF Control, Settled, LogChange
  <2>3. ASSUME NEW rid \in Rid PROVE \E base \in Slot : Running(rid, base)'
    <3>1. PICK base \in Slot : Running(rid, base)
      BY <1>1, Zenon
    <3>2. Now(rid)' = Now(rid)
      BY <1>1, Zenon DEF Now
    <3>3. Undoable(rid)'
      BY <1>1, <2>1, <3>1, <3>2, Zenon DEF Undoable, Running
    <3>4. Current(rid, base)'
      BY <1>1, <1>2, <1>3, <2>1, <3>1, <3>2, Zenon DEF Running, Current
    <3>5. Running(rid, base)'
      BY <1>1, <1>3, <3>1, <3>3, <3>4, LogKept, Zenon
    <3> QED BY <3>5, Zenon
  <2> QED BY <1>1, <1>4, <2>2, <2>3, Zenon DEF WInv
<1> QED BY <1>5, <1>6, Zenon

\* A write set without its youngest change.
LEMMA Front ==
    ASSUME NEW s \in Seq(ChangeRecord), s # <<>>, NEW rid
    PROVE  /\ Len(s) \in DOMAIN s /\ s[Len(s)] \in ChangeRecord /\ On(s, rid) \subseteq Nat
           /\ SubSeq(s, 1, Len(s) - 1) \in Seq(ChangeRecord)
           /\ On(SubSeq(s, 1, Len(s) - 1), rid) = On(s, rid) \ {Len(s)}
           /\ On(s, rid) \ {Len(s)} = {m \in On(s, rid) : m < Len(s)}
           /\ \A i \in On(s, rid) \ {Len(s)} : SubSeq(s, 1, Len(s) - 1)[i] = s[i]
<1>1. DOMAIN s = 1 .. Len(s) /\ Len(s) \in Nat /\ Len(s) # 0
  OBVIOUS
<1> DEFINE f == SubSeq(s, 1, Len(s) - 1)
<1>2. f \in Seq(ChangeRecord) /\ Len(f) = Len(s) - 1
  BY <1>1
<1>3. DOMAIN f = 1 .. Len(s) - 1 /\ \A i \in 1 .. Len(s) - 1 : f[i] = s[i]
  BY <1>1, <1>2
<1> HIDE DEF f
<1>4. DOMAIN f = DOMAIN s \ {Len(s)} /\ \A i \in DOMAIN s \ {Len(s)} : f[i] = s[i]
  BY <1>1, <1>3
<1>5. On(f, rid) = On(s, rid) \ {Len(s)}
  BY <1>4, Zenon DEF On
<1>6. On(s, rid) \subseteq Nat /\ \A i \in On(s, rid) : i \in DOMAIN s /\ i <= Len(s)
  BY <1>1 DEF On
<1>7. On(s, rid) \ {Len(s)} = {m \in On(s, rid) : m < Len(s)}
  BY <1>1, <1>6
<1>8. Len(s) \in DOMAIN s /\ s[Len(s)] \in ChangeRecord
  BY <1>1
<1> QED BY <1>2, <1>4, <1>5, <1>6, <1>7, <1>8, Zenon DEF f

\* One turn of the undo loop of abort: what was there before the change comes
\* back.
LEMMA AbortUndoStep ==
    ASSUME WInv, NEW t \in Txn, AbortUndo(t)
    PROVE  WInv'
<1> DEFINE s == write_set[t]
           f == SubSeq(s, 1, Len(s) - 1)
           c == s[Len(s)]
<1>1. /\ WType /\ Control /\ mode = "up" /\ mode' = "up" /\ phase[t] = "undo" /\ s # <<>>
      /\ \A rid \in Rid : \E base \in Slot : Running(rid, base)
      /\ buf' = [buf EXCEPT ![c.rid] = c.old] /\ write_set' = [write_set EXCEPT ![t] = f]
      /\ UNCHANGED <<disk, log, phase, op, holder, cursor, committed, stolen>>
  BY Zenon DEF WInv, AbortUndo
<1>2. holder = t /\ op = NoOp /\ s \in Seq(ChangeRecord)
  BY <1>1, Zenon DEF Control, WType
<1>3. c \in ChangeRecord /\ f \in Seq(ChangeRecord) /\ IsChange(c)
  BY <1>1, <1>2, Front, Zenon DEF ChangeRecord, IsChange
<1>4. c.rid \in Rid /\ c.old \in Slot
  BY <1>3, Zenon DEF ChangeRecord
<1> HIDE DEF s, f, c
<1>5. /\ WType' /\ write_set'[t] = f
      /\ \A u \in Txn \ {t} : write_set'[u] = write_set[u]
      /\ \A rid \in Rid : buf'[rid] = IF rid = c.rid THEN c.old ELSE buf[rid]
  BY <1>1, <1>3, <1>4, Zenon DEF WType
<1>6. /\ Comm' = Comm /\ Rolled' = Rolled /\ committed_txns' = committed_txns
      /\ aborted_txns' = aborted_txns
  BY <1>1, Zenon DEF Comm, Rolled, committed_txns, aborted_txns
<1>7. Control'
  BY <1>1, <1>2, <1>5, <1>6, Zenon DEF Control
<1>8. ASSUME NEW rid \in Rid PROVE \E base \in Slot : Running(rid, base)'
  <2>1. PICK base \in Slot : Running(rid, base)
    BY <1>1, Zenon
  <2>2. Current(rid, base)'
    BY <1>1, <1>2, Zenon DEF Current
  <2>3. Now(rid)' = (IF rid = c.rid THEN c.old ELSE Now(rid))
    BY <1>1, <1>2, <1>5, Zenon DEF Now
  <2>4. /\ Tip(s, On(s, rid), committed[rid], Now(rid))
        /\ \A n \in On(s, rid) : Tip(s, {m \in On(s, rid) : m < n}, committed[rid], s[n].old)
    BY <1>2, <2>1, Zenon DEF Running, Undoable, s
  <2>5. /\ On(f, rid) = On(s, rid) \ {Len(s)} /\ On(s, rid) \subseteq Nat
        /\ On(s, rid) \ {Len(s)} = {m \in On(s, rid) : m < Len(s)}
        /\ \A i \in On(f, rid) : f[i] = s[i]
        /\ Len(s) \in DOMAIN s /\ Len(s) \in Nat
    <3>1. /\ On(f, rid) = On(s, rid) \ {Len(s)} /\ On(s, rid) \subseteq Nat
          /\ On(s, rid) \ {Len(s)} = {m \in On(s, rid) : m < Len(s)}
          /\ \A i \in On(s, rid) \ {Len(s)} : f[i] = s[i]
          /\ Len(s) \in DOMAIN s
      BY <1>1, <1>2, Front, Zenon DEF f
    <3>2. Len(s) \in Nat
      BY <1>2
    <3> QED BY <3>1, <3>2, Zenon
  <2>6. Tip(f, On(f, rid), committed[rid], Now(rid)')
    <3>1. CASE rid = c.rid
      <4>1. Len(s) \in On(s, rid)
        BY <1>3, <2>5, <3>1, Zenon DEF On, c
      <4>2. Tip(s, On(f, rid), committed[rid], c.old)
        BY <2>4, <2>5, <4>1, Zenon DEF c
      <4> QED BY <2>3, <2>5, <3>1, <4>2, TipKept, Zenon
    <3>2. CASE rid # c.rid
      <4>1. On(f, rid) = On(s, rid)
        BY <2>5, <3>2, Zenon DEF On, c
      <4> QED BY <2>3, <2>4, <2>5, <3>2, <4>1, TipKept
    <3> QED BY <3>1, <3>2, Zenon
  <2>7. ASSUME NEW n \in On(f, rid)
        PROVE  Tip(f, {m \in On(f, rid) : m < n}, committed[rid], f[n].old)
    <3>1. n \in On(s, rid) /\ n < Len(s) /\ f[n] = s[n]
      BY <2>5, Zenon
    <3>2. {m \in On(f, rid) : m < n} = {m \in On(s, rid) : m < n}
      BY <2>5, <3>1
    <3>3. Tip(s, {m \in On(f, rid) : m < n}, committed[rid], f[n].old)
      BY <2>4, <3>1, <3>2, Zenon
    <3>4. \A i \in {m \in On(f, rid) : m < n} : f[i].new = s[i].new
      BY <2>5, Zenon
    <3> QED BY <3>3, <3>4, TipKept, Zenon
  <2>8. Undoable(rid)'
    <3>1. /\ Tip(write_set'[t], On(write_set'[t], rid), committed'[rid], Now(rid)')
          /\ \A n \in On(write_set'[t], rid) :
                Tip(write_set'[t], {m \in On(write_set'[t], rid) : m < n}, committed'[rid],
                    write_set'[t][n].old)
      BY <1>1, <1>5, <2>6, <2>7, Zenon
    <3>2. holder' = t /\ holder' # None
      BY <1>1, <1>2, NoneAssumption, Zenon
    <3> QED BY <3>1, <3>2, Zenon DEF Undoable
  <2>9. Running(rid, base)'
    BY <1>1, <1>6, <2>1, <2>2, <2>8, LogKept, Zenon
  <2> QED BY <2>9, Zenon
<1> QED BY <1>1, <1>5, <1>7, <1>8, Zenon DEF WInv

\* Every change in the log is of a transaction that is over, or of the lock
\* holder.
LEMMA ChangesBy ==
    ASSUME WType, Control, NEW rid \in Rid, NEW i \in On(log, rid)
    PROVE  /\ log[i].txn \in Txn /\ (phase[log[i].txn] \in Settled \/ holder = log[i].txn)
           /\ i \in DOMAIN log /\ IsChange(log[i])
BY LogEntries, Zenon DEF On, Control

\* The release loops of commit and abort: a table with nothing to undo.
LEMMA UnlockStep ==
    ASSUME WInv, NEW t \in Txn, Unlock(t)
    PROVE  WInv'
<1>1. /\ WType /\ Control /\ mode = "up" /\ mode' = "up" /\ phase[t] \in {"unlock", "release"}
      /\ \A rid \in Rid : \E base \in Slot : Running(rid, base)
      /\ holder' = (IF holder = t THEN None ELSE holder)
      /\ UNCHANGED <<buf, disk, log, op, write_set, cursor, committed, stolen>>
  BY Zenon DEF WInv, Unlock
<1>2. /\ phase' \in [Txn -> Phase] /\ \A u \in Txn \ {t} : phase'[u] = phase[u]
      /\ phase'[t] = (IF phase[t] = "unlock" THEN "committed" ELSE "abort_log")
  BY <1>1, Zenon DEF Unlock, AfterUnlock, WType, Phase
<1>3. /\ Comm' = Comm /\ committed_txns' = committed_txns /\ aborted_txns' = aborted_txns
      /\ {u \in Txn : phase'[u] = "aborted"} = {u \in Txn : phase[u] = "aborted"}
      /\ Rolled' = IF phase[t] = "unlock" THEN Rolled ELSE Rolled \cup {t}
  BY <1>1, <1>2, Zenon DEF Comm, Rolled, committed_txns, aborted_txns
<1>4. WType'
  BY <1>1, <1>2, Zenon DEF WType
<1>5. write_set[t] = <<>> /\ (holder = t => op = NoOp)
  BY <1>1, Zenon DEF Control, WType
<1>6. Control'
  <2>1. \A i \in DOMAIN log : IsChange(log[i]) =>
           /\ log[i].txn \in Txn
           /\ phase[log[i].txn] \in Settled => phase'[log[i].txn] \in Settled
           /\ phase'[log[i].txn] \in Settled \/ holder' = log[i].txn
    BY <1>1, <1>2, LogEntries, Zenon DEF Control, Settled, LogChange
  <2>2. holder' \in Txn => holder' = holder /\ holder # t
    BY <1>1, NoneAssumption, Zenon
  <2>3. op # NoOp => holder' = holder
    BY <1>1, <1>5, Zenon
  <2> QED BY <1>1, <1>2, <1>3, <1>5, <2>1, <2>2, <2>3, Zenon DEF Control
<1>7. ASSUME NEW rid \in Rid PROVE \E base \in Slot : Running(rid, base)'
  <2>1. PICK base \in Slot : Running(rid, base)
    BY <1>1, Zenon
  <2>2. Now(rid)' = Now(rid)
    BY <1>1, Zenon DEF Now
  <2>3. ASSUME NEW j \in On(log, rid) PROVE Before(log, j, Rolled') = Before(log, j, Rolled)
    <3>1. log[j].rid = rid /\ j \in DOMAIN log /\ IsChange(log[j])
      BY Zenon DEF On
    <3>2. ASSUME NEW i \in On(log, rid), i < j, log[i].txn # log[j].txn PROVE log[i].txn # t
      <4>1. phase[log[i].txn] \in Settled
        BY <1>1, <3>1, <3>2, ChangesBy, Zenon DEF Control
      <4> QED BY <1>1, <4>1, Zenon DEF Settled
    <3> QED BY <1>3, <3>1, <3>2, Zenon DEF Before
  <2>4. Linked(rid, base)'
    BY <1>1, <2>1, <2>3, Zenon DEF Running, Linked
  <2>5. OnDiskFrom(rid, base)'
    BY <1>1, <1>3, <2>1, Zenon DEF Running, OnDiskFrom
  <2>6. Undoable(rid)' /\ Current(rid, base)'
    <3>1. CASE holder = t
      <4>1. On(<<>>, rid) = {}
        BY DEF On
      <4>2. Now(rid) = buf[rid] /\ buf[rid] = committed[rid]
        BY <1>5, <2>1, <3>1, <4>1, Zenon DEF Now, Running, Undoable, Tip
      <4>3. holder' = None /\ \A u \in Txn : holder' # u
        BY <1>1, <3>1, NoneAssumption, Zenon
      <4>4. Undoable(rid)'
        BY <1>1, <4>2, <4>3, Zenon DEF Undoable
      <4>5. ASSUME NEW i \in On(log, rid)
            PROVE  log[i].txn \in Comm <=> log[i].txn \in Txn \ Rolled'
        <5>1. log[i].txn \in Txn /\ phase'[log[i].txn] \in Settled
          BY <1>1, <1>2, <3>1, ChangesBy, Zenon DEF Settled
        <5> QED BY <1>3, <5>1, Zenon DEF Comm, Rolled, Settled
      <4>6. By(log, rid, Comm) = By(log, rid, Txn \ Rolled')
        BY <4>5, Zenon DEF By
      <4>7. Tip(log, By(log, rid, Txn \ Rolled'), base, Now(rid))
        BY <2>1, <4>2, <4>6, Zenon DEF Running
      <4> QED BY <1>1, <2>2, <4>4, <4>7, Zenon DEF Current
    <3>2. CASE holder # t
      <4>1. \A i \in On(log, rid) : log[i].txn # t
        BY <1>1, <3>2, ChangesBy, Zenon DEF Settled
      <4>2. By(log, rid, Txn \ Rolled') = By(log, rid, Txn \ Rolled)
        BY <1>3, <4>1, Zenon DEF By
      <4>3. holder' = holder
        BY <1>1, <3>2, Zenon
      <4>4. Undoable(rid)'
        BY <1>1, <2>1, <2>2, <4>3, Zenon DEF Running, Undoable
      <4>5. Current(rid, base)'
        BY <1>1, <1>2, <2>1, <2>2, <3>2, <4>2, <4>3, Zenon DEF Running, Current
      <4> QED BY <4>4, <4>5, Zenon
    <3> QED BY <3>1, <3>2, Zenon
  <2>7. Running(rid, base)'
    BY <1>1, <1>3, <2>1, <2>4, <2>5, <2>6, Zenon DEF Running
  <2> QED BY <2>7, Zenon
<1> QED BY <1>1, <1>4, <1>6, <1>7, Zenon DEF WInv

\* A log with one more entry.
LEMMA LogAppend ==
    ASSUME NEW s \in Seq(LogChange \cup LogMark), NEW e \in LogChange \cup LogMark
    PROVE  /\ Append(s, e) \in Seq(LogChange \cup LogMark)
           /\ DOMAIN s = 1 .. Len(s) /\ Len(s) \in Nat
           /\ DOMAIN Append(s, e) = DOMAIN s \cup {Len(s) + 1}
           /\ \A i \in DOMAIN s : i < Len(s) + 1 /\ Append(s, e)[i] = s[i]
           /\ Append(s, e)[Len(s) + 1] = e
<1>1. /\ DOMAIN s = 1 .. Len(s) /\ Len(s) \in Nat
      /\ Append(s, e) \in Seq(LogChange \cup LogMark) /\ Len(Append(s, e)) = Len(s) + 1
      /\ \A i \in DOMAIN s : i < Len(s) + 1 /\ Append(s, e)[i] = s[i]
      /\ Append(s, e)[Len(s) + 1] = e
  OBVIOUS
<1>2. DOMAIN Append(s, e) = DOMAIN s \cup {Len(s) + 1}
  BY <1>1
<1> QED BY <1>1, <1>2, Zenon

\* The BEGIN, COMMIT and ABORT records are no changes.
LEMMA MarkAppend ==
    ASSUME WType, NEW e \in LogMark, log' = Append(log, e)
    PROVE  /\ log' \in Seq(LogChange \cup LogMark)
           /\ \A i \in DOMAIN log : i \in DOMAIN log' /\ log'[i] = log[i]
           /\ \A i \in DOMAIN log' : IsChange(log'[i]) => i \in DOMAIN log
           /\ \A rid : On(log', rid) = On(log, rid)
           /\ committed_txns' = committed_txns \cup (IF e.type = "commit" THEN {e.txn} ELSE {})
           /\ aborted_txns' = aborted_txns \cup (IF e.type = "ABORT" THEN {e.txn} ELSE {})
<1>1. ~IsChange(e)
  BY Zenon DEF LogMark, IsChange, ChangeType
<1> DEFINE n == Len(log) + 1
<1>2. /\ log' \in Seq(LogChange \cup LogMark) /\ DOMAIN log' = DOMAIN log \cup {n}
      /\ \A i \in DOMAIN log : log'[i] = log[i]
      /\ log'[n] = e
  BY LogAppend DEF WType
<1> HIDE DEF n
<1> QED BY <1>1, <1>2 DEF On, committed_txns, aborted_txns

\* The histories of a record in s2, which is the log s with e at its end.
GrownLog(s, s2, e, rid) ==
    LET n == Len(s) + 1
        more == IF IsChange(e) /\ e.rid = rid THEN {n} ELSE {}
    IN  /\ On(s2, rid) = On(s, rid) \cup more
        /\ n \notin On(s, rid) /\ n \in Nat
        /\ \A i \in On(s, rid) : i \in Nat /\ i < n /\ s2[i] = s[i]
        /\ s2[n] = e
        /\ \A S : By(s2, rid, S) = By(s, rid, S) \cup (IF e.txn \in S THEN more ELSE {})
        /\ \A R : \A j \in On(s, rid) : Before(s2, j, R) = Before(s, j, R)

\* What the histories of a record are with one more entry in the log.
LEMMA Grown ==
    ASSUME WType, NEW e \in LogChange \cup LogMark, log' = Append(log, e), NEW rid \in Rid
    PROVE  GrownLog(log, log', e, rid)
<1> DEFINE n == Len(log) + 1
           more == IF IsChange(e) /\ e.rid = rid THEN {n} ELSE {}
<1>1. /\ DOMAIN log' = DOMAIN log \cup {n} /\ n \in Nat /\ log'[n] = e
      /\ \A i \in DOMAIN log : i \in Nat /\ i < n /\ log'[i] = log[i]
  BY LogAppend DEF WType
<1>2. n \notin DOMAIN log
  BY <1>1
<1> HIDE DEF n
<1>3. On(log', rid) = On(log, rid) \cup more
  BY <1>1, <1>2, Zenon DEF On
<1>4. \A i \in On(log, rid) :
         i \in DOMAIN log /\ i \in Nat /\ i < n /\ log'[i] = log[i] /\ log[i].rid = rid
  BY <1>1, Zenon DEF On
<1>5. \A S : By(log', rid, S) = By(log, rid, S) \cup (IF e.txn \in S THEN more ELSE {})
  BY <1>1, <1>3, <1>4, Zenon DEF By
<1>6. ASSUME NEW j \in On(log, rid), NEW R PROVE Before(log', j, R) = Before(log, j, R)
  <2>1. log'[j] = log[j] /\ log[j].rid = rid /\ ~(n < j)
    BY <1>1, <1>4
  <2> QED BY <1>3, <1>4, <2>1, Zenon DEF Before
<1>7. n \notin On(log, rid)
  BY <1>2, Zenon DEF On
<1> QED BY <1>1, <1>3, <1>4, <1>5, <1>6, <1>7, Zenon DEF n, GrownLog

\* A COMMIT or ABORT record, or a BEGIN record, leaves the histories alone.
LEMMA MarkedHistories ==
    ASSUME WType, NEW e \in LogMark, log' = Append(log, e), NEW rid \in Rid
    PROVE  /\ On(log', rid) = On(log, rid)
           /\ \A S : By(log', rid, S) = By(log, rid, S)
           /\ \A i \in On(log, rid) : log'[i] = log[i]
           /\ \A R : \A j \in On(log, rid) : Before(log', j, R) = Before(log, j, R)
           /\ \A S, base, x : Tip(log, By(log, rid, S), base, x) => Tip(log', By(log, rid, S), base, x)
           /\ \A R, base, x : \A j \in On(log, rid) :
                 Tip(log, Before(log, j, R), base, x) => Tip(log', Before(log, j, R), base, x)
<1>1. ~IsChange(e)
  BY Zenon DEF LogMark, IsChange, ChangeType
<1>2. /\ On(log', rid) = On(log, rid)
      /\ \A S : By(log', rid, S) = By(log, rid, S)
      /\ \A i \in On(log, rid) : log'[i] = log[i]
      /\ \A R : \A j \in On(log, rid) : Before(log', j, R) = Before(log, j, R)
  <2> DEFINE more == IF IsChange(e) /\ e.rid = rid THEN {Len(log) + 1} ELSE {}
  <2>1. /\ On(log', rid) = On(log, rid) \cup more
        /\ \A i \in On(log, rid) : log'[i] = log[i]
        /\ \A S : By(log', rid, S) = By(log, rid, S) \cup (IF e.txn \in S THEN more ELSE {})
        /\ \A R : \A j \in On(log, rid) : Before(log', j, R) = Before(log, j, R)
    <3>1. GrownLog(log, log', e, rid)
      BY Grown, Zenon
    <3> QED BY <3>1, Zenon DEF GrownLog
  <2>2. more = {}
    BY <1>1, Zenon
  <2> HIDE DEF more
  <2>3. On(log', rid) = On(log, rid)
    BY <2>1, <2>2, Zenon
  <2>4. ASSUME NEW S PROVE By(log', rid, S) = By(log, rid, S)
    <3>1. By(log', rid, S) = By(log, rid, S) \cup (IF e.txn \in S THEN more ELSE {})
      BY <2>1, Zenon
    <3> QED BY <2>2, <3>1, Zenon
  <2> QED BY <2>1, <2>3, <2>4, Zenon
<1>3. ASSUME NEW S, NEW base, NEW x, Tip(log, By(log, rid, S), base, x)
      PROVE  Tip(log', By(log, rid, S), base, x)
  <2>1. \A i \in By(log, rid, S) : log'[i].new = log[i].new
    BY <1>2, Zenon DEF By
  <2> QED BY <1>3, <2>1, TipKept, Zenon
<1>4. ASSUME NEW j \in On(log, rid), NEW R, NEW base, NEW x, Tip(log, Before(log, j, R), base, x)
      PROVE  Tip(log', Before(log, j, R), base, x)
  <2>1. \A i \in Before(log, j, R) : log'[i].new = log[i].new
    BY <1>2, Zenon DEF Before, On
  <2> QED BY <1>4, <2>1, TipKept, Zenon
<1> QED BY <1>2, <1>3, <1>4, Zenon

\* begin, and the end of abort.
LEMMA MarkStep ==
    ASSUME WInv, NEW t \in Txn, begin(t) \/ AbortLog(t)
    PROVE  WInv'
<1>1. /\ WType /\ Control /\ mode = "up" /\ mode' = "up"
      /\ \A rid \in Rid : \E base \in Slot : Running(rid, base)
      /\ UNCHANGED <<buf, disk, op, write_set, holder, cursor, committed, stolen>>
  BY Zenon DEF WInv, begin, AbortLog
<1>2. PICK e \in LogMark :
         /\ log' = Append(log, e) /\ e.txn = t
         /\ \/ phase[t] = "none" /\ e.type = "begin" /\ phase' = [phase EXCEPT ![t] = "active"]
            \/ phase[t] = "abort_log" /\ e.type = "ABORT" /\ phase' = [phase EXCEPT ![t] = "aborted"]
  <2>1. \A type \in {"begin", "ABORT"} : Mark(type, t) \in LogMark /\ Mark(type, t).txn = t
                                         /\ Mark(type, t).type = type
    BY Zenon DEF Mark, LogMark
  <2> QED BY <2>1, Zenon DEF begin, AbortLog, add_log_to_buffer
<1>3. /\ phase' \in [Txn -> Phase] /\ \A u \in Txn \ {t} : phase'[u] = phase[u]
      /\ \/ phase[t] = "none" /\ e.type = "begin" /\ phase'[t] = "active"
         \/ phase[t] = "abort_log" /\ e.type = "ABORT" /\ phase'[t] = "aborted"
  BY <1>1, <1>2, Zenon DEF WType, Phase
<1>4. Comm' = Comm /\ Rolled' = Rolled
  BY <1>3, Zenon DEF Comm, Rolled
<1>5. WType'
  BY <1>1, <1>2, <1>3, MarkAppend, Zenon DEF WType
<1>6. Control'
  <2>1. /\ \A i \in DOMAIN log : log'[i] = log[i]
        /\ \A i \in DOMAIN log' : IsChange(log'[i]) => i \in DOMAIN log
        /\ committed_txns' = committed_txns
        /\ aborted_txns' = aborted_txns \cup (IF e.type = "ABORT" THEN {t} ELSE {})
    <3>1. /\ \A i \in DOMAIN log : log'[i] = log[i]
          /\ \A i \in DOMAIN log' : IsChange(log'[i]) => i \in DOMAIN log
          /\ committed_txns' = committed_txns \cup (IF e.type = "commit" THEN {t} ELSE {})
          /\ aborted_txns' = aborted_txns \cup (IF e.type = "ABORT" THEN {t} ELSE {})
      BY <1>1, <1>2, MarkAppend, Zenon
    <3>2. e.type # "commit"
      BY <1>2
    <3> QED BY <3>1, <3>2, Zenon
  <2>2. aborted_txns' = {u \in Txn : phase'[u] = "aborted"}
    BY <1>1, <1>3, <2>1, Zenon DEF Control
  <2>3. holder # t
    BY <1>1, <1>3, Zenon DEF Control
  <2>4. \A i \in DOMAIN log : IsChange(log[i]) =>
           /\ log[i].txn \in Txn
           /\ phase[log[i].txn] \in Settled => phase'[log[i].txn] \in Settled
    BY <1>1, <1>3, LogEntries, Zenon DEF Settled, LogChange
  <2> QED BY <1>1, <1>3, <1>4, <2>1, <2>2, <2>3, <2>4, Zenon DEF Control
<1>7. ASSUME NEW rid \in Rid PROVE \E base \in Slot : Running(rid, base)'
  <2>1. PICK base \in Slot : Running(rid, base)
    BY <1>1, Zenon
  <2>2. Now(rid)' = Now(rid)
    BY <1>1, Zenon DEF Now
  <2>3. /\ On(log', rid) = On(log, rid)
        /\ \A S : By(log', rid, S) = By(log, rid, S)
        /\ \A i \in On(log, rid) : log'[i] = log[i]
        /\ \A R : \A j \in On(log, rid) : Before(log', j, R) = Before(log, j, R)
        /\ \A S, b, x : Tip(log, By(log, rid, S), b, x) => Tip(log', By(log, rid, S), b, x)
        /\ \A R, b, x : \A j \in On(log, rid) :
              Tip(log, Before(log, j, R), b, x) => Tip(log', Before(log, j, R), b, x)
    BY <1>1, <1>2, MarkedHistories, Zenon
  <2>4. Linked(rid, base)'
    BY <1>4, <2>1, <2>3, Zenon DEF Running, Linked
  <2>5. Undoable(rid)'
    BY <1>1, <2>1, <2>2, Zenon DEF Running, Undoable
  <2>6. Current(rid, base)'
    <3>1. holder # t
      BY <1>1, <1>3, Zenon DEF Control
    <3> QED BY <1>1, <1>3, <1>4, <2>1, <2>2, <2>3, <3>1, Zenon DEF Running, Current
  <2>7. OnDiskFrom(rid, base)'
    BY <1>1, <1>4, <2>1, <2>3, Zenon DEF Running, OnDiskFrom, By
  <2>8. Running(rid, base)'
    BY <1>1, <1>4, <2>1, <2>3, <2>4, <2>5, <2>6, <2>7, Zenon DEF Running
  <2> QED BY <2>8, Zenon
<1> QED BY <1>1, <1>5, <1>6, <1>7, Zenon DEF WInv

\* What a commit makes the committed content of a record.
LEMMA CommitRecord ==
    ASSUME WType, Control, NEW t \in Txn, phase[t] = "active", holder = t => op = NoOp,
           NEW rid \in Rid, NEW base \in Slot, Running(rid, base)
    PROVE  LET now == IF rid \in Touched(t) THEN buf[rid] ELSE committed[rid]
           IN  /\ Tip(log, By(log, rid, Comm \cup {t}), base, now)
               /\ holder = t => now = Now(rid)
               /\ holder # t => now = committed[rid]
<1> DEFINE now == IF rid \in Touched(t) THEN buf[rid] ELSE committed[rid]
<1>1. CASE holder = t
  <2>1. Now(rid) = buf[rid]
    BY <1>1, Zenon DEF Now
  <2>2. now = buf[rid]
    <3>1. CASE rid \in Touched(t)
      BY <3>1, Zenon
    <3>2. CASE rid \notin Touched(t)
      <4>1. On(write_set[t], rid) = {}
        BY <3>2, Zenon DEF Touched, On
      <4> QED BY <1>1, <2>1, <3>2, <4>1, Zenon DEF Running, Undoable, Tip
    <3> QED BY <3>1, <3>2, Zenon
  <2>3. ASSUME NEW i \in On(log, rid)
        PROVE  log[i].txn \in Comm \cup {t} <=> log[i].txn \in Txn \ Rolled
    <3>1. log[i].txn \in Txn /\ (phase[log[i].txn] \in Settled \/ log[i].txn = t)
      BY <1>1, ChangesBy, Zenon
    <3> QED BY <3>1, Zenon DEF Comm, Rolled, Settled
  <2>4. By(log, rid, Comm \cup {t}) = By(log, rid, Txn \ Rolled)
    BY <2>3, Zenon DEF By
  <2>5. Tip(log, By(log, rid, Txn \ Rolled), base, Now(rid))
    BY <1>1, Zenon DEF Running, Current
  <2> QED BY <1>1, <2>1, <2>2, <2>4, <2>5, Zenon
<1>2. CASE holder # t
  <2>1. write_set[t] = <<>>
    BY <1>2, Zenon DEF Control
  <2>2. now = committed[rid]
    BY <1>2, <2>1 DEF Touched
  <2>3. \A i \in On(log, rid) : log[i].txn # t
    BY <1>2, ChangesBy, Zenon DEF Settled
  <2>4. By(log, rid, Comm \cup {t}) = By(log, rid, Comm)
    BY <2>3, Zenon DEF By
  <2> QED BY <1>2, <2>2, <2>4, Zenon DEF Running
<1> QED BY <1>1, <1>2, Zenon

\* commit: what the transaction wrote is the committed content.
LEMMA CommitStep ==
    ASSUME WInv, NEW t \in Txn, commit(t)
    PROVE  WInv'
<1>1. /\ WType /\ Control /\ mode = "up" /\ mode' = "up" /\ phase[t] = "active"
      /\ holder = t => op = NoOp
      /\ \A rid \in Rid : \E base \in Slot : Running(rid, base)
      /\ committed' = [rid \in Rid |-> IF rid \in Touched(t) THEN buf[rid] ELSE committed[rid]]
      /\ stolen' = {s \in stolen : s.txn # t \/ ~Logged(s)}
      /\ UNCHANGED <<buf, disk, op, holder, cursor>>
  BY Zenon DEF WInv, commit
<1>2. PICK e \in LogMark : log' = Append(log, e) /\ e.txn = t /\ e.type = "commit"
  <2>1. Mark("commit", t) \in LogMark /\ Mark("commit", t).txn = t /\ Mark("commit", t).type = "commit"
    BY Zenon DEF Mark, LogMark
  <2> QED BY <2>1, Zenon DEF commit, add_log_to_buffer
<1>3. /\ phase' \in [Txn -> Phase] /\ \A u \in Txn \ {t} : phase'[u] = phase[u]
      /\ phase'[t] = "unlock"
  BY <1>1, Zenon DEF commit, WType, Phase
<1>4. /\ write_set' \in [Txn -> Seq(ChangeRecord)] /\ write_set'[t] = <<>>
      /\ \A u \in Txn \ {t} : write_set'[u] = write_set[u]
  BY <1>1 DEF commit, WType
<1>5. Comm' = Comm \cup {t} /\ Rolled' = Rolled
  BY <1>1, <1>3, Zenon DEF Comm, Rolled
<1>6. WType'
  <2>1. committed' \in [Rid -> Slot] /\ stolen' \subseteq stolen
    BY <1>1, Zenon DEF WType
  <2> QED BY <1>1, <1>2, <1>3, <1>4, <2>1, MarkAppend, Zenon DEF WType
<1>7. Control'
  <2>1. /\ \A i \in DOMAIN log : log'[i] = log[i]
        /\ \A i \in DOMAIN log' : IsChange(log'[i]) => i \in DOMAIN log
        /\ committed_txns' = committed_txns \cup {t} /\ aborted_txns' = aborted_txns
    BY <1>1, <1>2, MarkAppend, Zenon
  <2>2. {u \in Txn : phase'[u] = "aborted"} = {u \in Txn : phase[u] = "aborted"}
    BY <1>1, <1>3, Zenon
  <2>3. \A i \in DOMAIN log : IsChange(log[i]) =>
           /\ log[i].txn \in Txn
           /\ phase[log[i].txn] \in Settled => phase'[log[i].txn] \in Settled
    BY <1>1, <1>3, LogEntries, Zenon DEF Settled, LogChange
  <2>4. committed_txns' = Comm' /\ aborted_txns' = {u \in Txn : phase'[u] = "aborted"}
    BY <1>1, <1>5, <2>1, <2>2, Zenon DEF Control
  <2> QED BY <1>1, <1>3, <1>4, <2>1, <2>3, <2>4 DEF Control
<1>8. ASSUME NEW rid \in Rid PROVE \E base \in Slot : Running(rid, base)'
  <2>1. PICK base \in Slot : Running(rid, base)
    BY <1>1, Zenon
  <2>2. Now(rid)' = Now(rid)
    BY <1>1, Zenon DEF Now
  <2>3. /\ On(log', rid) = On(log, rid)
        /\ \A S : By(log', rid, S) = By(log, rid, S)
        /\ \A i \in On(log, rid) : log'[i] = log[i]
        /\ \A R : \A j \in On(log, rid) : Before(log', j, R) = Before(log, j, R)
        /\ \A S, b, x : Tip(log, By(log, rid, S), b, x) => Tip(log', By(log, rid, S), b, x)
        /\ \A R, b, x : \A j \in On(log, rid) :
              Tip(log, Before(log, j, R), b, x) => Tip(log', Before(log, j, R), b, x)
    BY <1>1, <1>2, MarkedHistories, Zenon
  <2>4. /\ Tip(log, By(log, rid, Comm \cup {t}), base, committed'[rid])
        /\ holder = t => committed'[rid] = Now(rid)
        /\ holder # t => committed'[rid] = committed[rid]
    BY <1>1, <2>1, CommitRecord, Zenon
  <2>5. Linked(rid, base)'
    BY <1>5, <2>1, <2>3, Zenon DEF Running, Linked
  <2>6. Undoable(rid)'
    <3>1. CASE holder = t
      <4>1. On(<<>>, rid) = {}
        BY DEF On
      <4>2. holder' # None /\ \A u \in Txn : holder' = u => u = t
        BY <1>1, <3>1, NoneAssumption, Zenon
      <4> QED BY <1>4, <2>2, <2>4, <3>1, <4>1, <4>2, Zenon DEF Undoable, Tip
    <3>2. CASE holder # t
      <4>1. \A u \in Txn : holder' = u => write_set'[u] = write_set[u] /\ holder = u
        BY <1>1, <1>4, <3>2, Zenon
      <4> QED BY <1>1, <2>1, <2>2, <2>4, <3>2, <4>1, Zenon DEF Running, Undoable
    <3> QED BY <3>1, <3>2, Zenon
  <2>7. Current(rid, base)'
    BY <1>1, <1>3, <1>5, <2>1, <2>2, <2>3, Zenon DEF Running, Current
  <2>8. OnDiskFrom(rid, base)'
    <3>1. \A i \in By(log, rid, Comm \cup {t}) : i \in By(log', rid, Comm') /\ log'[i] = log[i]
      BY <1>5, <2>3, Zenon DEF By
    <3>2. ASSUME NEW i \in By(log, rid, Comm), log[i].new = disk[rid]
          PROVE  OnDiskFrom(rid, base)'
      <4>1. i \in By(log, rid, Comm \cup {t})
        BY Zenon DEF By
      <4> QED BY <1>1, <3>1, <3>2, <4>1, Zenon DEF OnDiskFrom
    <3>3. ASSUME NEW s \in stolen, s.rid = rid, s.val = disk[rid] PROVE OnDiskFrom(rid, base)'
      <4>1. CASE s \in stolen'
        BY <1>1, <3>3, <4>1, Zenon DEF OnDiskFrom
      <4>2. CASE s \notin stolen'
        <5>1. PICK i \in DOMAIN log : IsChange(log[i]) /\ log[i].txn = t /\ log[i].rid = rid
                                      /\ log[i].new = disk[rid]
          BY <1>1, <3>3, <4>2, Zenon DEF Logged
        <5>2. i \in By(log, rid, Comm \cup {t})
          BY <5>1, Zenon DEF By, On
        <5> QED BY <1>1, <3>1, <5>1, <5>2, Zenon DEF OnDiskFrom
      <4> QED BY <4>1, <4>2, Zenon
    <3> QED BY <1>1, <2>1, <3>2, <3>3, Zenon DEF Running, OnDiskFrom
  <2>9. Tip(log, By(log, rid, Comm), base, committed[rid])'
    BY <1>5, <2>3, <2>4, Zenon
  <2>10. Running(rid, base)'
    BY <2>5, <2>6, <2>7, <2>8, <2>9, Zenon DEF Running
  <2> QED BY <2>10, Zenon
<1> QED BY <1>1, <1>6, <1>7, <1>8, Zenon DEF WInv

\* The histories of a record in s2, which is s with the change c at its end.
GrownBy(s, s2, c, rid) ==
    LET n == Len(s) + 1
    IN  /\ n \in Nat /\ s2[n] = c
        /\ \A i \in On(s, rid) : i \in Nat /\ i < n /\ s2[i] = s[i]
        /\ On(s2, rid) = On(s, rid) \cup (IF c.rid = rid THEN {n} ELSE {})
        /\ \A j \in On(s, rid) : {i \in On(s2, rid) : i < j} = {i \in On(s, rid) : i < j}
        /\ c.rid = rid => {i \in On(s2, rid) : i < n} = On(s, rid)

\* A write set with one more change.
LEMMA WriteSetGrown ==
    ASSUME NEW s \in Seq(ChangeRecord), NEW c \in ChangeRecord, NEW rid \in Rid
    PROVE  /\ Append(s, c) \in Seq(ChangeRecord) /\ Append(s, c) # <<>>
           /\ GrownBy(s, Append(s, c), c, rid)
<1> DEFINE n == Len(s) + 1
           s2 == Append(s, c)
<1>1. /\ s2 \in Seq(ChangeRecord) /\ s2 # <<>> /\ s2[n] = c
      /\ DOMAIN s2 = DOMAIN s \cup {n} /\ n \in Nat
      /\ \A i \in DOMAIN s : i \in Nat /\ i < n /\ s2[i] = s[i]
  <2>1. DOMAIN s = 1 .. Len(s) /\ Len(s) \in Nat /\ s2 \in Seq(ChangeRecord) /\ Len(s2) = n
        /\ s2[n] = c /\ \A i \in DOMAIN s : s2[i] = s[i]
    OBVIOUS
  <2>2. DOMAIN s2 = 1 .. n
    BY <2>1
  <2> QED BY <2>1, <2>2
<1>2. IsChange(c)
  BY Zenon DEF ChangeRecord, IsChange
<1> HIDE DEF n, s2
<1>3. n \notin DOMAIN s
  BY <1>1
<1>4. On(s2, rid) = On(s, rid) \cup (IF c.rid = rid THEN {n} ELSE {})
  BY <1>1, <1>2, <1>3, Zenon DEF On
<1>5. \A i \in On(s, rid) : i \in Nat /\ i < n /\ s2[i] = s[i]
  BY <1>1, Zenon DEF On
<1>6. ASSUME NEW j \in On(s, rid) PROVE {i \in On(s2, rid) : i < j} = {i \in On(s, rid) : i < j}
  <2>1. ~(n < j)
    BY <1>1, <1>5
  <2> QED BY <1>4, <2>1, Zenon
<1>7. c.rid = rid => {i \in On(s2, rid) : i < n} = On(s, rid)
  <2>1. ~(n < n)
    BY <1>1
  <2> QED BY <1>4, <1>5, <2>1, Zenon
<1> QED BY <1>1, <1>4, <1>5, <1>6, <1>7, Zenon DEF n, s2, GrownBy

\* The write set still leads back once a change is added to it.
LEMMA UndoableGrown ==
    ASSUME WType, NEW t \in Txn, holder = t, holder' = t, NEW c \in ChangeRecord,
           write_set' = [write_set EXCEPT ![t] = Append(@, c)], committed' = committed,
           NEW rid \in Rid, Undoable(rid),
           c.rid = rid => Now(rid) = c.old /\ Now(rid)' = c.new,
           c.rid # rid => Now(rid)' = Now(rid)
    PROVE  Undoable(rid)'
<1> DEFINE s == write_set[t]
           s2 == Append(s, c)
           n == Len(s) + 1
           old == committed[rid]
           now2 == Now(rid)'
<1>1. s \in Seq(ChangeRecord) /\ write_set'[t] = s2
  BY Zenon DEF WType
<1>2. /\ s2[n] = c
      /\ \A i \in On(s, rid) : i \in Nat /\ i < n /\ s2[i] = s[i]
      /\ On(s2, rid) = On(s, rid) \cup (IF c.rid = rid THEN {n} ELSE {})
      /\ \A j \in On(s, rid) : {i \in On(s2, rid) : i < j} = {i \in On(s, rid) : i < j}
      /\ c.rid = rid => {i \in On(s2, rid) : i < n} = On(s, rid)
      /\ n \in Nat
  <2>1. GrownBy(s, s2, c, rid)
    BY <1>1, WriteSetGrown, Zenon
  <2> QED BY <2>1, Zenon DEF GrownBy
<1>3. /\ Tip(s, On(s, rid), old, Now(rid))
      /\ \A j \in On(s, rid) : Tip(s, {i \in On(s, rid) : i < j}, old, s[j].old)
  BY Zenon DEF Undoable
<1>4. holder' # None /\ \A u \in Txn : holder' = u => u = t
  BY NoneAssumption, Zenon
<1> HIDE DEF s, s2, n
<1>5. /\ Tip(s2, On(s, rid), old, Now(rid))
      /\ \A j \in On(s, rid) : Tip(s2, {i \in On(s, rid) : i < j}, old, s2[j].old)
  <2>1. \A i \in On(s, rid) : s2[i].new = s[i].new /\ s2[i] = s[i]
    BY <1>2, Zenon
  <2> QED BY <1>3, <2>1, TipKept, Zenon
<1>6. Tip(s2, On(s2, rid), old, now2)
  <2>1. CASE c.rid = rid
    <3>1. n \in On(s2, rid) /\ \A i \in On(s2, rid) : i <= n
      BY <1>2, <2>1
    <3> QED BY <1>2, <2>1, <3>1, TipLast, Zenon
  <2>2. CASE c.rid # rid
    BY <1>2, <1>5, <2>2, Zenon
  <2> QED BY <2>1, <2>2, Zenon
<1>7. ASSUME NEW j \in On(s2, rid) PROVE Tip(s2, {i \in On(s2, rid) : i < j}, old, s2[j].old)
  <2>1. CASE j \in On(s, rid)
    BY <1>2, <1>5, <2>1, Zenon
  <2>2. CASE c.rid = rid /\ j = n
    BY <1>2, <1>5, <2>2, Zenon
  <2> QED BY <1>2, <2>1, <2>2, Zenon
<1> HIDE DEF now2
<1> QED BY <1>1, <1>4, <1>6, <1>7, Zenon DEF Undoable, now2

\* What Running says of the histories of a record: R and C are the transactions
\* rolled back and committed, x the content and y the committed one.
History(s, rid, R, C, base, x, y) ==
    /\ \A j \in On(s, rid) : Tip(s, Before(s, j, R), base, s[j].old)
    /\ Tip(s, By(s, rid, C), base, y)
    /\ Tip(s, By(s, rid, Txn \ R), base, x)

\* A change by a transaction that is neither rolled back nor committed.
LEMMA ChangedHistories ==
    ASSUME WType, NEW e \in LogChange, log' = Append(log, e), NEW rid \in Rid,
           NEW R, NEW C, e.txn \notin R, e.txn \notin C, NEW base, NEW x, NEW y,
           NEW z, History(log, rid, R, C, base, x, y),
           e.rid = rid => x = e.old /\ z = e.new, e.rid # rid => z = x
    PROVE  /\ History(log', rid, R, C, base, z, y)
           /\ \A i \in By(log, rid, C) : i \in By(log', rid, C) /\ log'[i] = log[i]
<1> DEFINE n == Len(log) + 1
           more == IF e.rid = rid THEN {n} ELSE {}
<1>1. IsChange(e) /\ e.txn \in Txn
  BY Zenon DEF LogChange, IsChange
<1>2. /\ On(log', rid) = On(log, rid) \cup more
      /\ n \in Nat /\ log'[n] = e
      /\ \A i \in On(log, rid) : i \in Nat /\ i < n /\ log'[i] = log[i]
      /\ By(log', rid, C) = By(log, rid, C)
      /\ By(log', rid, Txn \ R) = By(log, rid, Txn \ R) \cup more
      /\ \A j \in On(log, rid) : Before(log', j, R) = Before(log, j, R)
  <2>1. GrownLog(log, log', e, rid)
    BY Grown, Zenon
  <2>2. /\ (IF IsChange(e) /\ e.rid = rid THEN {n} ELSE {}) = more
        /\ e.txn \in Txn \ R /\ ~(e.txn \in C)
    BY <1>1, Zenon
  <2> HIDE DEF more
  <2>3. /\ On(log', rid) = On(log, rid) \cup more
        /\ n \in Nat /\ log'[n] = e
        /\ \A i \in On(log, rid) : i \in Nat /\ i < n /\ log'[i] = log[i]
        /\ \A S : By(log', rid, S) = By(log, rid, S) \cup (IF e.txn \in S THEN more ELSE {})
        /\ \A j \in On(log, rid) : Before(log', j, R) = Before(log, j, R)
    BY <2>1, <2>2, Zenon DEF GrownLog
  <2>4. /\ By(log', rid, C) = By(log, rid, C) \cup (IF e.txn \in C THEN more ELSE {})
        /\ By(log', rid, Txn \ R) = By(log, rid, Txn \ R) \cup (IF e.txn \in Txn \ R THEN more ELSE {})
    BY <2>3, Zenon
  <2> QED BY <2>2, <2>3, <2>4, Zenon
<1>3. \A i \in On(log, rid) : log[i].txn \in Txn /\ log[i].rid = rid
  BY LogEntries, Zenon DEF On
<1> HIDE DEF n
<1>4. /\ \A j \in On(log, rid) : Tip(log, Before(log, j, R), base, log[j].old)
      /\ Tip(log, By(log, rid, C), base, y)
      /\ Tip(log, By(log, rid, Txn \ R), base, x)
  BY Zenon DEF History
<1>5. /\ \A i \in By(log, rid, C) : i \in On(log, rid)
      /\ \A i \in By(log, rid, Txn \ R) : i \in On(log, rid)
  BY Zenon DEF By
<1>6. /\ Tip(log', By(log, rid, C), base, y) /\ Tip(log', By(log, rid, Txn \ R), base, x)
      /\ \A i \in By(log, rid, C) : i \in By(log', rid, C) /\ log'[i] = log[i]
  <2>1. /\ \A i \in By(log, rid, C) : log'[i] = log[i] /\ log'[i].new = log[i].new
        /\ \A i \in By(log, rid, Txn \ R) : log'[i].new = log[i].new
    BY <1>2, <1>5, Zenon
  <2>2. Tip(log', By(log, rid, C), base, y)
    BY <1>4, <2>1, TipKept, Zenon
  <2>3. Tip(log', By(log, rid, Txn \ R), base, x)
    BY <1>4, <2>1, TipKept, Zenon
  <2> QED BY <1>2, <2>1, <2>2, <2>3, Zenon
<1>7. ASSUME NEW j \in On(log, rid) PROVE Tip(log', Before(log', j, R), base, log'[j].old)
  <2>1. \A i \in Before(log, j, R) : log'[i].new = log[i].new
    BY <1>2, <1>3, Zenon DEF Before
  <2>2. Tip(log', Before(log, j, R), base, log[j].old)
    BY <1>4, <2>1, TipKept, Zenon
  <2> QED BY <1>2, <2>2, Zenon
<1>8. ASSUME e.rid = rid PROVE Tip(log', Before(log', n, R), base, log'[n].old)
  <2>1. \A i \in On(log, rid) : log'[i].txn \in Txn /\ log'[i].txn = log[i].txn /\ i < n
    BY <1>2, <1>3, Zenon
  <2>2. On(log', rid) = On(log, rid) \cup {n} /\ ~(n < n)
    BY <1>2, <1>8
  <2>3. Before(log', n, R) =
            {i \in On(log', rid) : i < n /\ (log'[i].txn = e.txn \/ log'[i].txn \notin R)}
    BY <1>2, <1>8, Zenon DEF Before
  <2>4. Before(log', n, R) = By(log, rid, Txn \ R)
    BY <2>1, <2>2, <2>3 DEF By
  <2> QED BY <1>2, <1>6, <1>8, <2>4, Zenon
<1>9. Tip(log', By(log', rid, Txn \ R), base, z)
  <2>1. CASE e.rid = rid
    <3>1. By(log', rid, Txn \ R) = By(log, rid, Txn \ R) \cup {n}
      BY <1>2, <2>1, Zenon
    <3>2. n \in By(log', rid, Txn \ R) /\ \A i \in By(log', rid, Txn \ R) : i <= n
      <4>1. n \in Nat /\ \A i \in By(log, rid, Txn \ R) : i \in Nat /\ i < n
        BY <1>2, <1>5, Zenon
      <4> HIDE DEF more
      <4> QED BY ONLY <3>1, <4>1
    <3>3. Tip(log', By(log', rid, Txn \ R), base, log'[n].new)
      BY <3>2, TipLast, Zenon
    <3> QED BY <1>2, <2>1, <3>3, Zenon
  <2>2. CASE e.rid # rid
    BY <1>2, <1>6, <2>2, Zenon
  <2> QED BY <2>1, <2>2, Zenon
<1> QED BY <1>2, <1>6, <1>7, <1>8, <1>9, Zenon DEF History

\* The log and the write set get a change of the lock holder that met what
\* the earlier changes left.
LEMMA LogChangeStep ==
    ASSUME WInv, NEW t \in Txn, NEW c \in ChangeRecord,
           mode = "up", holder = t, phase[t] = "active",
           log' = Append(log, Record(t, c)),
           write_set' = [write_set EXCEPT ![t] = Append(@, c)],
           \A rid \in Rid : /\ c.rid = rid => Now(rid) = c.old /\ Now(rid)' = c.new
                            /\ c.rid # rid => Now(rid)' = Now(rid),
           op' \in HalfDone \cup {NoOp}, op' # NoOp => op'.stage = "page",
           UNCHANGED <<buf, disk, phase, holder, mode, cursor, committed, stolen>>
    PROVE  WInv'
<1> DEFINE e == Record(t, c)
           n == Len(log) + 1
<1>1. WType /\ Control /\ \A rid \in Rid : \E base \in Slot : Running(rid, base)
  BY Zenon DEF WInv
<1>2. /\ e \in LogChange /\ IsChange(e) /\ e.type # "commit" /\ e.type # "ABORT"
      /\ e.txn = t /\ e.rid = c.rid /\ e.old = c.old /\ e.new = c.new
  BY Zenon DEF ChangeRecord, LogChange, Record, IsChange, ChangeType, Coherent
<1>3. /\ log' \in Seq(LogChange \cup LogMark) /\ DOMAIN log' = DOMAIN log \cup {n} /\ log'[n] = e
      /\ \A i \in DOMAIN log : i \in Nat /\ i < n /\ log'[i] = log[i]
  BY <1>1, <1>2, LogAppend DEF WType
<1>4. write_set' \in [Txn -> Seq(ChangeRecord)] /\ \A u \in Txn \ {t} : write_set'[u] = write_set[u]
  BY <1>1 DEF WType
<1>5. Comm' = Comm /\ Rolled' = Rolled /\ t \notin Comm /\ t \notin Rolled
  BY Zenon DEF Comm, Rolled
<1> HIDE DEF e, n
<1>6. WType'
  BY <1>1, <1>3, <1>4, Zenon DEF WType
<1>7. Control'
  <2>1. committed_txns' = committed_txns /\ aborted_txns' = aborted_txns
    BY <1>2, <1>3 DEF committed_txns, aborted_txns
  <2>2. \A i \in DOMAIN log' : IsChange(log'[i]) => phase[log'[i].txn] \in Settled \/ log'[i].txn = t
    BY <1>1, <1>2, <1>3 DEF Control
  <2>3. ASSUME NEW i \in DOMAIN log', NEW j \in DOMAIN log', IsChange(log'[i]), IsChange(log'[j]),
               i < j, log'[i].txn # log'[j].txn
        PROVE  phase[log'[i].txn] \in Settled
    <3>1. CASE j \in DOMAIN log
      <4>1. i \in DOMAIN log
        BY <1>3, <2>3, <3>1
      <4> QED BY <1>1, <1>3, <2>3, <3>1, <4>1 DEF Control
    <3>2. CASE j = n
      <4>1. log'[j].txn = t
        BY <1>2, <1>3, <3>2, Zenon
      <4> QED BY <2>2, <2>3, <4>1, Zenon
    <3> QED BY <1>3, <3>1, <3>2, Zenon
  <2> QED BY <1>1, <1>4, <1>5, <2>1, <2>2, <2>3 DEF Control
<1>8. ASSUME NEW rid \in Rid PROVE \E base \in Slot : Running(rid, base)'
  <2>1. PICK base \in Slot : Running(rid, base)
    BY <1>1, Zenon
  <2>2. History(log, rid, Rolled, Comm, base, Now(rid), committed[rid])
    BY <2>1, Zenon DEF Running, Linked, Current, History
  <2>3. /\ WType /\ e \in LogChange /\ e.txn \notin Rolled /\ e.txn \notin Comm
        /\ log' = Append(log, e)
        /\ e.rid = rid => Now(rid) = e.old /\ Now(rid)' = e.new
        /\ e.rid # rid => Now(rid)' = Now(rid)
    BY <1>1, <1>2, <1>5, Zenon DEF e
  <2>4. /\ History(log', rid, Rolled, Comm, base, Now(rid)', committed[rid])
        /\ \A i \in By(log, rid, Comm) : i \in By(log', rid, Comm) /\ log'[i] = log[i]
    BY ONLY <2>2, <2>3, rid \in Rid, ChangedHistories
  <2>5. /\ \A j \in On(log', rid) : Tip(log', Before(log', j, Rolled), base, log'[j].old)
        /\ Tip(log', By(log', rid, Comm), base, committed[rid])
        /\ Tip(log', By(log', rid, Txn \ Rolled), base, Now(rid)')
    BY <2>4, Zenon DEF History
  <2>6. Linked(rid, base)'
    BY <1>5, <2>5, Zenon DEF Linked
  <2>7. Current(rid, base)'
    BY <1>5, <2>5, Zenon DEF Current
  <2>8. Undoable(rid)'
    BY <1>1, <2>1, UndoableGrown, Zenon DEF Running
  <2>9. OnDiskFrom(rid, base)'
    BY <1>5, <2>1, <2>4, Zenon DEF Running, OnDiskFrom
  <2>10. Running(rid, base)'
    BY <1>5, <2>5, <2>6, <2>7, <2>8, <2>9, Zenon DEF Running
  <2> QED BY <2>10, Zenon
<1> QED BY <1>6, <1>7, <1>8, Zenon DEF WInv

\* The INSERT record follows the page, the DELETE and UPDATE records precede
\* it.
LEMMA LogSteps ==
    ASSUME WInv, NEW t \in Txn,
           InsertLog(t) \/ \E rid \in Rid, new \in Slot : ChangeLog(t, rid, new)
    PROVE  WInv'
<1>1. WType /\ Control
  BY Zenon DEF WInv, InsertLog, ChangeLog, MayWrite
<1>2. CASE InsertLog(t)
  <2>1. /\ mode = "up" /\ holder = t /\ op # NoOp /\ op.stage = "log"
        /\ log' = Append(log, Record(t, op.change))
        /\ write_set' = [write_set EXCEPT ![t] = Append(@, op.change)]
        /\ op' = NoOp
        /\ UNCHANGED <<buf, disk, phase, holder, mode, cursor, committed, stolen>>
    BY <1>2, Zenon DEF InsertLog, add_log_to_buffer
  <2>2. /\ phase[t] = "active" /\ op.change \in ChangeRecord
        /\ op.change.old = Absent /\ buf[op.change.rid] = op.change.new
    BY <1>1, <2>1, Zenon DEF Control, WType, HalfDone
  <2>3. \A rid \in Rid : /\ op.change.rid = rid => /\ Now(rid) = op.change.old
                                                  /\ Now(rid)' = op.change.new
                         /\ op.change.rid # rid => Now(rid)' = Now(rid)
    BY <2>1, <2>2, Zenon DEF Now
  <2> QED BY <2>1, <2>2, <2>3, LogChangeStep, Zenon
<1>3. ASSUME NEW rid \in Rid, NEW new \in Slot, ChangeLog(t, rid, new) PROVE WInv'
  <2> DEFINE type == IF new = Absent THEN "DELETE" ELSE "UPDATE"
             c == Change(type, rid, buf[rid], new)
             h == [stage |-> "page", change |-> c]
  <2>1. /\ mode = "up" /\ holder = t /\ phase[t] = "active" /\ op = NoOp /\ buf[rid] # Absent
        /\ log' = Append(log, Record(t, c))
        /\ write_set' = [write_set EXCEPT ![t] = Append(@, c)]
        /\ op' = h
        /\ UNCHANGED <<buf, disk, phase, holder, mode, cursor, committed, stolen>>
    BY <1>3, Zenon DEF ChangeLog, MayWrite, add_log_to_buffer
  <2>2. c \in ChangeRecord /\ c.rid = rid /\ c.old = buf[rid] /\ c.new = new
    BY <1>1, <2>1, Zenon DEF ChangeRecord, Change, ChangeType, Coherent, WType
  <2> HIDE DEF c
  <2>3. h \in HalfDone /\ h # NoOp /\ h.stage = "page" /\ h.change = c
    BY <2>2 DEF HalfDone, NoOp
  <2> HIDE DEF h
  <2>4. \A r \in Rid : /\ c.rid = r => Now(r) = c.old /\ Now(r)' = c.new
                       /\ c.rid # r => Now(r)' = Now(r)
    BY <2>1, <2>2, <2>3, Zenon DEF Now
  <2> QED BY <2>1, <2>2, <2>3, <2>4, LogChangeStep, Zenon
<1> QED BY <1>2, <1>3, Zenon

-----------------------------------------------------------------------------
(* The invariant and the theorems.                                         *)

\* A database opens with an empty log.
LEMMA WInit == Init => WInv
<1> SUFFICES ASSUME Init PROVE WInv
  OBVIOUS
<1>1. WType
  <2>1. <<>> \in Seq(LogChange \cup LogMark) /\ <<>> \in Seq(ChangeRecord)
    OBVIOUS
  <2> QED BY <2>1, Zenon DEF Init, WType, Phase, NoOp
<1>2. Fresh
  BY <1>1, Zenon DEF Init, Fresh, Forgotten
<1> QED BY <1>1, <1>2, FreshStart, Zenon DEF Init, WInv

\* Every step of the server keeps the invariant: the transactions, the buffer
\* pool, a crash or shutdown, and recovery.
LEMMA WInvStep == WInv /\ [Next]_vars => WInv'
<1> SUFFICES ASSUME WInv, [Next]_vars PROVE WInv'
  OBVIOUS
<1>1. ASSUME NEW t \in Txn, Transaction(t) PROVE WInv'
  BY <1>1, MarkStep, PhaseStep, PageStep, LogSteps, CommitStep, AbortUndoStep, UnlockStep, Zenon
     DEF Transaction
<1>2. ASSUME NEW page \in Page, Evict(page) PROVE WInv'
  BY <1>2, EvictStep, Zenon
<1>3. CASE Crash \/ close_db
  BY <1>3, StopStep, Zenon
<1>4. CASE Recovery
  BY <1>4, RecoveryStep, Zenon
<1>5. CASE UNCHANGED vars
  <2>1. UNCHANGED <<buf, disk, log, phase, op, write_set, holder, mode, cursor, committed,
                    stolen, exposed>>
    BY <1>5, Zenon DEF vars, memVars
  <2>2. WType' = WType /\ Forgotten' = Forgotten /\ Comm' = Comm /\ Rolled' = Rolled
        /\ committed_txns' = committed_txns /\ aborted_txns' = aborted_txns
    BY <2>1, Zenon DEF WType, Forgotten, Comm, Rolled, committed_txns, aborted_txns
  <2>3. Control' = Control
    BY <2>1, <2>2, Zenon DEF Control
  <2>4. ASSUME NEW rid \in Rid, NEW base \in Slot
        PROVE  Running(rid, base) => Running(rid, base)'
    <3>1. Now(rid)' = Now(rid)
      BY <2>1, Zenon DEF Now
    <3> QED BY <2>1, <2>2, <3>1, Zenon DEF Running, Linked, Current, Undoable, OnDiskFrom
  <2>5. ASSUME NEW rid \in Rid, NEW base \in Slot
        PROVE  Recovering(rid, base) => Recovering(rid, base)'
    <3>1. Redo(rid)' = Redo(rid) /\ Past(rid, base)' = Past(rid, base)
      BY <2>1, <2>2, Zenon DEF Redo, Past
    <3> QED BY <2>1, <2>2, <3>1, Zenon DEF Recovering
  <2> QED BY <2>1, <2>2, <2>3, <2>4, <2>5, Zenon DEF WInv
<1> QED BY <1>1, <1>2, <1>3, <1>4, <1>5, Zenon DEF Next

\* In every state of every behaviour the log, the write sets, the pages in
\* memory and in the file tell the same history of each record, and during
\* recovery the log tells it alone.
THEOREM WInvariance == Spec => []WInv
BY WInit, WInvStep, PTL DEF Spec

\* Recovery is exact for any number of transactions, records, changes and
\* crashes, crashes of recovery included, with and without stolen pages:
\* outside the cases of Exposure the table file that the server starts from
\* has the changes of the committed transactions and no others.
THEOREM RecoveryExactAlways == Spec => []RecoveryExactUnlessExposed
<1>1. WInv => RecoveryExactUnlessExposed
  <2> SUFFICES ASSUME WInv, mode = "reset", exposed = {} PROVE disk = committed
    BY Zenon DEF RecoveryExactUnlessExposed
  <2>1. disk = buf /\ buf \in [Rid -> Slot] /\ committed \in [Rid -> Slot]
    BY Zenon DEF WInv, WType
  <2>2. \A rid \in Rid : buf[rid] = committed[rid]
    BY Zenon DEF WInv, Recovering
  <2> QED BY <2>1, <2>2
<1> QED BY <1>1, WInvariance, PTL

\* Redo has repeated history when undo begins: outside the cases of Exposure
\* undo finds each change it takes back in place, so that has_record never
\* turns it away.
THEOREM UndoMeetsItsChangeAlways == Spec => []UndoMeetsItsChange
<1>1. WInv => UndoMeetsItsChange
  <2> DEFINE c == log[cursor]
  <2> SUFFICES ASSUME WInv, mode = "undo", cursor > 0, exposed = {}, IsChange(c),
                      c.txn \notin committed_txns \cup aborted_txns
               PROVE  buf[c.rid] = c.new
    BY Zenon DEF UndoMeetsItsChange
  <2>1. WType /\ cursor \in DOMAIN log
    BY LogEntries DEF WInv, WType
  <2>2. c \in LogChange /\ c.rid \in Rid /\ c.txn \in Txn
    BY <2>1, LogEntries, Zenon DEF LogChange
  <2>3. cursor \in Redo(c.rid)
    BY <2>1, <2>2, Zenon DEF Redo, By, On
  <2>4. PICK base \in Slot : Recovering(c.rid, base)
    BY <2>2, Zenon DEF WInv
  <2> QED BY <2>1, <2>2, <2>3, <2>4, UndoFinds, Zenon
<1> QED BY <1>1, WInvariance, PTL

=============================================================================
