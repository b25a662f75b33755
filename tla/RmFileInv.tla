----------------------------- MODULE RmFileInv -----------------------------
(***************************************************************************)
(* Proofs about a record file, for any number of pages and slots, any      *)
(* log and any number of crashes, of recovery itself included.  Three      *)
(* things are followed.  A page is on the list of free pages exactly if it *)
(* has a free slot: the list is a function of positions, pushed and popped *)
(* at its top, so that the pages below never move.  The file goes through  *)
(* moments, a set of records and a list each, one after every change in    *)
(* the log: undoing a change gives back the records of the moment before   *)
(* and a list that begins with the list of that moment, which is why an    *)
(* undo finds the page it has to take from the list at the head.  And      *)
(* during redo a record the log names is as the last change passed left    *)
(* it, and every other record as it was when the log began.                *)
(***************************************************************************)
EXTENDS RmFile, FiniteSetTheorems, TLAPS

-----------------------------------------------------------------------------
(* Pages.                                                                  *)

Pages == [next_free_page_no : Int, num_records : Int, bitmap : SUBSET Slot]

\* num_records of a page header is the number of bits in its bitmap.
PageOk(p) == p \in Pages /\ p.num_records = Cardinality(p.bitmap)

\* A page after delete_record.
Freed(p, slot_no, head) ==
    [next_free_page_no |-> IF p.num_records = PerPage THEN head ELSE p.next_free_page_no,
     num_records |-> p.num_records - 1,
     bitmap |-> p.bitmap \ {slot_no}]

\* The slots of a page.
LEMMA SlotsOfPage == IsFiniteSet(Slot) /\ Cardinality(Slot) = PerPage
<1>1. 0 \in Int /\ PerPage - 1 \in Int /\ ~(0 > PerPage - 1) /\ PerPage - 1 - 0 + 1 = PerPage
  BY SizeAssumption
<1> QED BY <1>1, FS_Interval, Zenon DEF Slot

\* A page is full when every bit is set.
LEMMA FullPage ==
    ASSUME NEW p, PageOk(p)
    PROVE  /\ p.num_records \in Nat /\ IsFiniteSet(p.bitmap)
           /\ p.num_records <= PerPage
           /\ p.num_records = PerPage <=> p.bitmap = Slot
<1>1. p.bitmap \in SUBSET Slot
  BY Zenon DEF PageOk, Pages
<1>2. /\ IsFiniteSet(p.bitmap) /\ Cardinality(p.bitmap) <= Cardinality(Slot)
      /\ Cardinality(Slot) = Cardinality(p.bitmap) => Slot = p.bitmap
  BY <1>1, SlotsOfPage, FS_Subset, Zenon
<1>3. Cardinality(p.bitmap) \in Nat
  BY <1>2, FS_CardinalityType, Zenon
<1> QED BY <1>2, <1>3, SlotsOfPage, Zenon DEF PageOk

\* A record put into a page.
LEMMA FilledPage ==
    ASSUME NEW p, PageOk(p), NEW s \in Slot, s \notin p.bitmap
    PROVE  /\ PageOk(Filled(p, s))
           /\ Filled(p, s).bitmap = p.bitmap \cup {s}
           /\ p.num_records + 1 = PerPage <=> p.bitmap \cup {s} = Slot
           /\ Filled(p, s).next_free_page_no =
                 IF p.bitmap \cup {s} = Slot THEN NoPage ELSE p.next_free_page_no
<1>1. IsFiniteSet(p.bitmap) /\ p.num_records \in Nat /\ p.bitmap \in SUBSET Slot
      /\ p.next_free_page_no \in Int /\ p.num_records = Cardinality(p.bitmap)
  BY FullPage, Zenon DEF PageOk, Pages
<1>2. /\ IsFiniteSet(p.bitmap \cup {s})
      /\ Cardinality(p.bitmap \cup {s}) = p.num_records + 1
  BY <1>1, FS_AddElement, Zenon
<1>3. /\ Filled(p, s).bitmap = p.bitmap \cup {s}
      /\ Filled(p, s).num_records = p.num_records + 1
      /\ Filled(p, s).next_free_page_no =
            IF p.num_records + 1 = PerPage THEN NoPage ELSE p.next_free_page_no
  BY Zenon DEF Filled
<1>4. Filled(p, s) \in Pages
  BY <1>1, <1>3 DEF Filled, Pages, NoPage
<1>5. PageOk(Filled(p, s))
  BY <1>2, <1>3, <1>4, Zenon DEF PageOk
<1>6. p.num_records + 1 = PerPage <=> p.bitmap \cup {s} = Slot
  BY <1>3, <1>5, FullPage, Zenon
<1> QED BY <1>3, <1>5, <1>6, Zenon

\* A record taken out of a page.
LEMMA FreedPage ==
    ASSUME NEW p, PageOk(p), NEW s \in p.bitmap, NEW head \in Int
    PROVE  /\ PageOk(Freed(p, s, head))
           /\ Freed(p, s, head).bitmap = p.bitmap \ {s}
           /\ p.bitmap \ {s} # Slot
           /\ Freed(p, s, head).next_free_page_no =
                 IF p.bitmap = Slot THEN head ELSE p.next_free_page_no
<1>1. IsFiniteSet(p.bitmap) /\ p.num_records \in Nat /\ p.bitmap \in SUBSET Slot
      /\ p.next_free_page_no \in Int /\ p.num_records = Cardinality(p.bitmap)
      /\ (p.num_records = PerPage <=> p.bitmap = Slot)
  BY FullPage, Zenon DEF PageOk, Pages
<1>2. /\ IsFiniteSet(p.bitmap \ {s})
      /\ Cardinality(p.bitmap \ {s}) = p.num_records - 1
  BY <1>1, FS_RemoveElement
<1>3. /\ Freed(p, s, head).bitmap = p.bitmap \ {s}
      /\ Freed(p, s, head).num_records = p.num_records - 1
      /\ Freed(p, s, head).next_free_page_no =
            IF p.num_records = PerPage THEN head ELSE p.next_free_page_no
  BY Zenon DEF Freed
<1>4. Freed(p, s, head) \in Pages
  BY <1>1, <1>3 DEF Freed, Pages
<1> QED BY <1>1, <1>2, <1>3, <1>4, Zenon DEF PageOk

\* The order of the naturals is well-founded, as a set of pairs.
LEMMA LessWellFounded == IsWellFoundedOn({ss \in Nat \X Nat : ss[1] < ss[2]}, Nat)
BY NatLessThanWellFounded, Zenon DEF OpToRel

\* Every non-empty set of numbers has a least element.
LEMMA MinLeast ==
    ASSUME NEW S \in SUBSET Nat, S # {}
    PROVE  Min(S) \in S /\ \A y \in S : Min(S) <= y
<1> DEFINE R == {ss \in Nat \X Nat : ss[1] < ss[2]}
<1>1. PICK x \in S : \A y \in S : <<y, x>> \notin R
  <2>1. IsWellFoundedOn(R, Nat)
    BY LessWellFounded, Zenon
  <2> HIDE DEF R
  <2> QED BY <2>1, WFMin, Zenon
<1>2. \A y \in S : ~(y < x)
  BY <1>1, Zenon
<1>3. \A y \in S : x <= y
  BY <1>2
<1> QED BY <1>3, Zenon DEF Min

\* A loop from i up to n that ends at the first member of H, as a recursive
\* function.
IsLoop(f, m, n, H, out) ==
    f = [i \in m .. n |-> IF i = n \/ i \in H THEN out[i] ELSE f[i + 1]]

\* What such a function returns.
LEMMA LoopFinds ==
    ASSUME NEW m \in Nat, NEW n \in Nat, NEW H, NEW out, NEW f,
           IsLoop(f, m, n, H, out), NEW i \in m .. n
    PROVE  \E j \in i .. n : /\ f[i] = out[j]
                             /\ j = n \/ j \in H
                             /\ \A k \in i .. j - 1 : k \notin H
<1> DEFINE Found(h) == \E j \in h .. n : /\ f[h] = out[j]
                                         /\ j = n \/ j \in H
                                         /\ \A k \in h .. j - 1 : k \notin H
           S == {d \in 0 .. n - m : ~Found(n - d)}
<1>1. \A h \in m .. n : f[h] = IF h = n \/ h \in H THEN out[h] ELSE f[h + 1]
  BY Zenon DEF IsLoop
<1>2. ASSUME NEW h \in m .. n, h = n \/ h \in H PROVE Found(h)
  <2>1. f[h] = out[h] /\ h \in h .. n /\ \A k \in h .. h - 1 : k \notin H
    BY <1>1, <1>2
  <2> QED BY <1>2, <2>1
<1>3. ASSUME NEW h \in m .. n, h # n, h \notin H, Found(h + 1) PROVE Found(h)
  <2>1. PICK j \in h + 1 .. n : /\ f[h + 1] = out[j] /\ (j = n \/ j \in H)
                                /\ \A k \in h + 1 .. j - 1 : k \notin H
    BY <1>3
  <2>2. f[h] = out[j]
    BY <1>1, <1>3, <2>1
  <2>3. j \in h .. n /\ \A k \in h .. j - 1 : k = h \/ k \in h + 1 .. j - 1
    BY <1>3, <2>1
  <2>4. \A k \in h .. j - 1 : k \notin H
    BY <1>3, <2>1, <2>3
  <2> QED BY <2>1, <2>2, <2>3, <2>4
<1> HIDE DEF Found
<1>4. S = {}
  <2>1. SUFFICES ASSUME S # {} PROVE FALSE
    OBVIOUS
  <2>2. S \in SUBSET Nat
    OBVIOUS
  <2>3. PICK d \in S : \A e \in S : d <= e
    <3> HIDE DEF S
    <3> QED BY <2>1, <2>2, MinLeast, Zenon
  <2>4. d \in 0 .. n - m /\ ~Found(n - d) /\ n - d \in m .. n
    BY <2>3
  <2>5. n - d # n /\ n - d \notin H
    BY <1>2, <2>4
  <2>6. d - 1 \in 0 .. n - m /\ d - 1 \notin S /\ n - (d - 1) = (n - d) + 1
    BY <2>3, <2>4, <2>5
  <2>7. Found((n - d) + 1)
    BY <2>6
  <2> QED BY <1>3, <2>4, <2>5, <2>7
<1>5. n - i \in 0 .. n - m /\ n - (n - i) = i
  OBVIOUS
<1> QED BY <1>4, <1>5 DEF Found

\* Such a function exists: it leads to the least end that is not before i.
LEMMA LoopExists ==
    ASSUME NEW m \in Nat, NEW n \in Nat, NEW H, NEW out
    PROVE  \E f : IsLoop(f, m, n, H, out)
<1> DEFINE End(i) == {j \in i .. n : j = n \/ j \in H}
           f == [i \in m .. n |-> out[Min(End(i))]]
<1>1. \A i \in m .. n : f[i] = out[Min(End(i))]
  BY Zenon
<1>2. ASSUME NEW i \in m .. n, i = n \/ i \in H PROVE f[i] = out[i]
  <2>1. i \in End(i) /\ End(i) \in SUBSET Nat /\ \A j \in End(i) : i <= j
    BY <1>2
  <2>2. Min(End(i)) \in End(i) /\ \A j \in End(i) : Min(End(i)) <= j
    <3> HIDE DEF End
    <3> QED BY <2>1, MinLeast
  <2>3. Min(End(i)) = i
    <3> HIDE DEF End
    <3> QED BY <2>1, <2>2
  <2> QED BY <1>1, <2>3
<1>3. ASSUME NEW i \in m .. n, ~(i = n \/ i \in H) PROVE f[i] = f[i + 1]
  <2>1. End(i) = End(i + 1) /\ i + 1 \in m .. n
    BY <1>3
  <2> QED BY <1>1, <2>1, Zenon
<1>4. f = [i \in m .. n |-> f[i]]
  BY Zenon
<1> HIDE DEF f
<1>5. \A i \in m .. n : f[i] = IF i = n \/ i \in H THEN out[i] ELSE f[i + 1]
  BY <1>2, <1>3, Zenon
<1>6. IsLoop(f, m, n, H, out)
  BY <1>4, <1>5, Zenon DEF IsLoop
<1> QED BY <1>6, Zenon

\* Bitmap::next_bit finds the first bit after curr that has the value, or
\* num_records_per_page if there is none.
LEMMA NextBit ==
    ASSUME NEW bit \in BOOLEAN, NEW bitmap, NEW curr \in -1 .. PerPage - 1
    PROVE  /\ next_bit(bit, bitmap, curr) \in curr + 1 .. PerPage
           /\ next_bit(bit, bitmap, curr) = PerPage \/ (is_set(bitmap, next_bit(bit, bitmap, curr)) <=> bit)
           /\ \A k \in curr + 1 .. next_bit(bit, bitmap, curr) - 1 : ~(is_set(bitmap, k) <=> bit)
<1> DEFINE H == {i \in 0 .. PerPage : is_set(bitmap, i) <=> bit}
           out == [i \in 0 .. PerPage |-> i]
           from[i \in 0 .. PerPage] ==
              IF i = PerPage \/ (is_set(bitmap, i) <=> bit) THEN i ELSE from[i + 1]
<1>1. PerPage \in Nat /\ 0 \in Nat /\ curr + 1 \in 0 .. PerPage
  BY SizeAssumption
<1>2. \A i \in 0 .. PerPage : i \in H <=> (is_set(bitmap, i) <=> bit)
  BY Zenon
<1>3. \A i \in 0 .. PerPage : out[i] = i
  BY Zenon
<1>4. next_bit(bit, bitmap, curr) = from[curr + 1]
  BY Zenon DEF next_bit
<1> HIDE DEF H, out
<1>5. from = [i \in 0 .. PerPage |->
                 IF i = PerPage \/ (is_set(bitmap, i) <=> bit) THEN i ELSE from[i + 1]]
  <2>1. PICK f : IsLoop(f, 0, PerPage, H, out)
    BY <1>1, LoopExists, Zenon
  <2>2. f = [i \in 0 .. PerPage |->
                IF i = PerPage \/ (is_set(bitmap, i) <=> bit) THEN i ELSE f[i + 1]]
    BY <1>2, <1>3, <2>1 DEF IsLoop
  <2> QED BY <2>2, Zenon
<1> HIDE DEF from
<1>6. IsLoop(from, 0, PerPage, H, out)
  BY <1>2, <1>3, <1>5 DEF IsLoop
<1>7. PICK j \in curr + 1 .. PerPage :
         /\ from[curr + 1] = out[j] /\ (j = PerPage \/ j \in H)
         /\ \A k \in curr + 1 .. j - 1 : k \notin H
  BY <1>1, <1>6, LoopFinds
<1>8. j \in 0 .. PerPage /\ \A k \in curr + 1 .. j - 1 : k \in 0 .. PerPage
  BY <1>1, <1>7
<1>9. next_bit(bit, bitmap, curr) = j
  BY <1>3, <1>4, <1>7, <1>8, Zenon
<1> QED BY <1>2, <1>7, <1>8, <1>9, Zenon

\* Bitmap::first_bit finds a free slot of a page that has one.
LEMMA FirstBit ==
    ASSUME NEW p, PageOk(p), p.bitmap # Slot
    PROVE  first_bit(FALSE, p.bitmap) \in Slot /\ first_bit(FALSE, p.bitmap) \notin p.bitmap
<1> DEFINE s == next_bit(FALSE, p.bitmap, -1)
<1>1. PerPage \in Nat /\ -1 \in -1 .. PerPage - 1 /\ -1 + 1 = 0
  BY SizeAssumption
<1>2. /\ s \in 0 .. PerPage
      /\ s = PerPage \/ ~is_set(p.bitmap, s)
      /\ \A k \in 0 .. s - 1 : is_set(p.bitmap, k)
  BY <1>1, NextBit
<1> HIDE DEF s
<1>3. PICK free \in Slot : free \notin p.bitmap
  BY Zenon DEF PageOk, Pages
<1>4. s # PerPage
  <2>1. s = PerPage => free \in 0 .. s - 1
    BY <1>1, <1>3 DEF Slot
  <2> QED BY <1>2, <1>3, <2>1, Zenon DEF is_set
<1>5. s \in Slot
  BY <1>1, <1>2, <1>4 DEF Slot
<1>6. s \notin p.bitmap
  BY <1>2, <1>4, Zenon DEF is_set
<1> QED BY <1>5, <1>6, Zenon DEF first_bit, s

-----------------------------------------------------------------------------
(* The list of pages with free space, with its head at position top.       *)

List == [top : Int, bot : Int, at : [Int -> Int]]

Nth(l, k) == IF k <= l.bot THEN l.at[k] ELSE NoPage

Push(l, p) == [top |-> l.top - 1, bot |-> l.bot, at |-> [l.at EXCEPT ![l.top - 1] = p]]
Pop(l) == [top |-> l.top + 1, bot |-> l.bot, at |-> l.at]

\* The pages of a set, each once, linked by their headers.
Chain(l, head, file, pages) ==
    /\ l.top <= l.bot + 1
    /\ head = Nth(l, l.top)
    /\ \A k \in l.top .. l.bot :
          l.at[k] \in pages /\ file[l.at[k]].next_free_page_no = Nth(l, k + 1)
    /\ \A p \in pages : \E k \in l.top .. l.bot : l.at[k] = p
    /\ \A j, k \in l.top .. l.bot : l.at[j] = l.at[k] => j = k

\* The pages of one list are the first ones of another.
Prefix(a, b) ==
    /\ a.top = b.top /\ a.bot <= b.bot
    /\ \A k \in a.top .. a.bot : a.at[k] = b.at[k]

\* What the lemmas know of Push and Pop.
LEMMA PushPop ==
    ASSUME NEW l \in List, NEW p \in Int
    PROVE  /\ Push(l, p) \in List /\ Push(l, p).top = l.top - 1 /\ Push(l, p).bot = l.bot
           /\ Push(l, p).at[l.top - 1] = p
           /\ \A k \in Int : k # l.top - 1 => Push(l, p).at[k] = l.at[k]
           /\ Pop(l) \in List /\ Pop(l).top = l.top + 1 /\ Pop(l).bot = l.bot /\ Pop(l).at = l.at
           /\ l.top \in Int /\ l.bot \in Int /\ \A k \in Int : l.at[k] \in Int
BY DEF List, Push, Pop

\* release_page_handle: a page that was full becomes the head of the list.
LEMMA PushChain ==
    ASSUME NEW l \in List, NEW head, NEW file, NEW file2, NEW pages \in SUBSET Int, NEW p \in Int,
           Chain(l, head, file, pages), p \notin pages,
           \A q \in pages : file2[q].next_free_page_no = file[q].next_free_page_no,
           file2[p].next_free_page_no = head
    PROVE  Chain(Push(l, p), p, file2, pages \cup {p})
<1> DEFINE m == Push(l, p)
<1>1. /\ m \in List /\ m.top = l.top - 1 /\ m.bot = l.bot /\ m.at[l.top - 1] = p
      /\ \A k \in Int : k # l.top - 1 => m.at[k] = l.at[k]
      /\ l.top \in Int /\ l.bot \in Int /\ \A k \in Int : l.at[k] \in Int
  BY PushPop
<1> HIDE DEF m
<1>2. \A k \in m.top .. m.bot : k = m.top \/ (k \in l.top .. l.bot /\ k # l.top - 1)
  BY <1>1
<1>3. l.top <= l.bot + 1 /\ m.top <= m.bot /\ m.top <= m.bot + 1
  BY <1>1 DEF Chain
<1>4. p = Nth(m, m.top)
  BY <1>1, <1>3, Zenon DEF Nth
<1>5. ASSUME NEW k \in m.top .. m.bot
      PROVE  m.at[k] \in pages \cup {p} /\ file2[m.at[k]].next_free_page_no = Nth(m, k + 1)
  <2>1. CASE k = m.top
    <3>1. m.at[k] = p /\ Nth(m, k + 1) = Nth(l, l.top)
      BY <1>1, <1>3, <2>1 DEF Nth
    <3> QED BY <3>1, Zenon DEF Chain
  <2>2. CASE k # m.top
    <3>1. k \in l.top .. l.bot /\ k \in Int /\ m.at[k] = l.at[k] /\ Nth(m, k + 1) = Nth(l, k + 1)
      BY <1>1, <1>2, <2>2 DEF Nth
    <3>2. l.at[k] \in pages /\ file[l.at[k]].next_free_page_no = Nth(l, k + 1)
      BY <3>1, Zenon DEF Chain
    <3> QED BY <3>1, <3>2, Zenon
  <2> QED BY <2>1, <2>2, Zenon
<1>6. ASSUME NEW q \in pages \cup {p} PROVE \E k \in m.top .. m.bot : m.at[k] = q
  <2>1. CASE q = p
    <3>1. m.top \in m.top .. m.bot /\ m.at[m.top] = q
      BY <1>1, <1>3, <2>1
    <3> QED BY <3>1, Zenon
  <2>2. CASE q \in pages
    <3>1. PICK k \in l.top .. l.bot : l.at[k] = q
      BY <2>2 DEF Chain
    <3>2. k \in m.top .. m.bot /\ m.at[k] = q
      BY <1>1, <3>1
    <3> QED BY <3>2
  <2> QED BY <2>1, <2>2
<1>7. ASSUME NEW j \in m.top .. m.bot, NEW k \in m.top .. m.bot, m.at[j] = m.at[k] PROVE j = k
  <2>1. \A i \in l.top .. l.bot : l.at[i] \in pages /\ l.at[i] # p
    BY DEF Chain
  <2>2. \A i \in m.top .. m.bot : i # m.top => i \in l.top .. l.bot /\ m.at[i] = l.at[i] /\ m.at[i] # p
    BY <1>1, <1>2, <2>1
  <2>3. m.at[m.top] = p
    BY <1>1
  <2>4. CASE j = m.top \/ k = m.top
    BY <1>7, <2>2, <2>3, <2>4
  <2>5. CASE j # m.top /\ k # m.top
    <3>1. j \in l.top .. l.bot /\ k \in l.top .. l.bot /\ l.at[j] = l.at[k]
      BY <1>7, <2>2, <2>5
    <3> QED BY <3>1 DEF Chain
  <2> QED BY <2>4, <2>5
<1>8. Chain(m, p, file2, pages \cup {p})
  BY <1>3, <1>4, <1>5, <1>6, <1>7, Zenon DEF Chain
<1> QED BY <1>8, Zenon DEF m

\* A page that becomes full leaves the list, if it is the head.
LEMMA PopChain ==
    ASSUME NEW l \in List, NEW head, NEW file, NEW file2, NEW pages \in SUBSET Int, NEW p \in pages,
           Chain(l, head, file, pages), head = p, p # NoPage,
           \A q \in pages \ {p} : file2[q].next_free_page_no = file[q].next_free_page_no
    PROVE  /\ l.top <= l.bot /\ l.at[l.top] = p
           /\ Chain(Pop(l), file[p].next_free_page_no, file2, pages \ {p})
<1> DEFINE m == Pop(l)
<1>1. /\ m \in List /\ m.top = l.top + 1 /\ m.bot = l.bot /\ m.at = l.at
      /\ l.top \in Int /\ l.bot \in Int /\ \A k \in Int : l.at[k] \in Int
  BY PushPop
<1> HIDE DEF m
<1>2. l.top <= l.bot /\ l.at[l.top] = p
  BY <1>1 DEF Chain, Nth
<1>3. l.top \in l.top .. l.bot
  BY <1>1, <1>2
<1>4. \A k \in m.top .. m.bot : k \in l.top .. l.bot /\ k # l.top /\ Nth(m, k + 1) = Nth(l, k + 1)
  BY <1>1 DEF Nth
<1>5. m.top <= m.bot + 1
  BY <1>1, <1>2
<1>6. file[p].next_free_page_no = Nth(m, m.top)
  <2>1. file[l.at[l.top]].next_free_page_no = Nth(l, l.top + 1)
    BY <1>3 DEF Chain
  <2> QED BY <1>1, <1>2, <2>1 DEF Nth
<1>7. ASSUME NEW k \in m.top .. m.bot
      PROVE  m.at[k] \in pages \ {p} /\ file2[m.at[k]].next_free_page_no = Nth(m, k + 1)
  <2>1. k \in l.top .. l.bot /\ k # l.top /\ Nth(m, k + 1) = Nth(l, k + 1)
    BY <1>4
  <2>2. l.at[k] \in pages /\ file[l.at[k]].next_free_page_no = Nth(l, k + 1) /\ l.at[k] # l.at[l.top]
    BY <1>3, <2>1 DEF Chain
  <2> QED BY <1>1, <1>2, <2>1, <2>2
<1>8. ASSUME NEW q \in pages \ {p} PROVE \E k \in m.top .. m.bot : m.at[k] = q
  <2>1. PICK k \in l.top .. l.bot : l.at[k] = q
    BY Zenon DEF Chain
  <2>2. k # l.top
    BY <1>2, <2>1
  <2>3. k \in m.top .. m.bot /\ m.at[k] = q
    BY <1>1, <2>1, <2>2
  <2> QED BY <2>3
<1>9. \A j, k \in m.top .. m.bot : m.at[j] = m.at[k] => j = k
  BY <1>1, <1>4, Zenon DEF Chain
<1>10. Chain(m, file[p].next_free_page_no, file2, pages \ {p})
  BY <1>5, <1>6, <1>7, <1>8, <1>9, Zenon DEF Chain
<1> QED BY <1>2, <1>10 DEF m

\* Records come and go without touching the list.
LEMMA SameChain ==
    ASSUME NEW l, NEW head, NEW file, NEW file2, NEW pages, Chain(l, head, file, pages),
           \A q \in pages : file2[q].next_free_page_no = file[q].next_free_page_no
    PROVE  Chain(l, head, file2, pages)
BY Zenon DEF Chain

\* insert_record makes a new page when the list is empty: a list of that page,
\* or again the empty list if the page is full at once.
Below(l, p) == [top |-> l.top, bot |-> l.top, at |-> [l.at EXCEPT ![l.top] = p]]
Past(l) == [top |-> l.top + 1, bot |-> l.top, at |-> l.at]

\* The list of an empty file, or of one whose pages are full.
LEMMA EmptyChain ==
    ASSUME NEW l \in List, NEW head, NEW file, NEW pages \in SUBSET Int, NoPage \notin pages,
           Chain(l, head, file, pages)
    PROVE  /\ head = NoPage <=> pages = {}
           /\ head = NoPage <=> l.bot = l.top - 1
           /\ head # NoPage => head \in pages
<1>1. l.top \in Int /\ l.bot \in Int
  BY DEF List
<1>2. CASE l.bot = l.top - 1
  <2>1. l.top .. l.bot = {} /\ head = NoPage
    BY <1>1, <1>2 DEF Chain, Nth
  <2>2. pages = {}
    BY <2>1 DEF Chain
  <2> QED BY <1>2, <2>1, <2>2
<1>3. CASE l.bot # l.top - 1
  <2>1. l.top \in l.top .. l.bot /\ head = l.at[l.top]
    BY <1>1, <1>3 DEF Chain, Nth
  <2>2. head \in pages
    BY <2>1 DEF Chain
  <2> QED BY <1>3, <2>2
<1> QED BY <1>2, <1>3

\* The list after the first record of a new page.
LEMMA NewChain ==
    ASSUME NEW l \in List, NEW file, NEW p \in Int, l.bot = l.top - 1,
           file[p].next_free_page_no = NoPage
    PROVE  /\ Below(l, p) \in List /\ Chain(Below(l, p), p, file, {p})
           /\ Past(l) \in List /\ Chain(Past(l), NoPage, file, {})
           /\ Below(l, p).top = l.top /\ Below(l, p).bot = l.top
           /\ Past(l).top = l.top + 1 /\ Past(l).bot = l.top
<1> DEFINE m == Below(l, p)
           n == Past(l)
<1>1. l.top \in Int /\ l.at \in [Int -> Int] /\ l.bot = l.top - 1
  BY DEF List
<1>2. m \in List /\ m.top = l.top /\ m.bot = l.top /\ m.at[l.top] = p
  BY <1>1 DEF Below, List
<1>3. n \in List /\ n.top = l.top + 1 /\ n.bot = l.top
  BY <1>1 DEF Past, List
<1> HIDE DEF m, n
<1>4. /\ \A k \in m.top .. m.bot : k = l.top
      /\ l.top \in m.top .. m.bot /\ Nth(m, m.top) = p /\ Nth(m, l.top + 1) = NoPage
  BY <1>1, <1>2 DEF Nth
<1>5. Chain(m, p, file, {p})
  BY <1>1, <1>2, <1>4 DEF Chain
<1>6. n.top .. n.bot = {} /\ Nth(n, n.top) = NoPage /\ n.top <= n.bot + 1
  BY <1>1, <1>3 DEF Nth
<1>7. Chain(n, NoPage, file, {})
  BY <1>6 DEF Chain
<1> QED BY <1>2, <1>3, <1>5, <1>7 DEF m, n

\* Prefixes.
LEMMA Prefixes ==
    ASSUME NEW a \in List, NEW b \in List, Prefix(a, b), NEW p \in Int
    PROVE  /\ \A c \in List : Prefix(c, a) => Prefix(c, b)
           /\ Prefix(Push(a, p), Push(b, p))
           /\ a.top <= a.bot => b.top <= b.bot /\ b.at[b.top] = a.at[a.top]
           /\ Prefix(Pop(a), Pop(b))
<1>1. /\ a.top \in Int /\ a.bot \in Int /\ b.top \in Int /\ b.bot \in Int
      /\ a.top = b.top /\ a.bot <= b.bot /\ \A k \in a.top .. a.bot : a.at[k] = b.at[k]
  BY DEF List, Prefix
<1>2. ASSUME NEW c \in List, Prefix(c, a) PROVE Prefix(c, b)
  <2>1. c.top \in Int /\ c.bot \in Int
    BY DEF List
  <2> QED BY <1>1, <1>2, <2>1 DEF Prefix
<1>3. Prefix(Push(a, p), Push(b, p))
  <2>1. /\ Push(a, p).top = a.top - 1 /\ Push(a, p).bot = a.bot /\ Push(a, p).at[a.top - 1] = p
        /\ \A k \in Int : k # a.top - 1 => Push(a, p).at[k] = a.at[k]
    BY PushPop
  <2>2. /\ Push(b, p).top = b.top - 1 /\ Push(b, p).bot = b.bot /\ Push(b, p).at[b.top - 1] = p
        /\ \A k \in Int : k # b.top - 1 => Push(b, p).at[k] = b.at[k]
    BY PushPop
  <2> QED BY <1>1, <2>1, <2>2 DEF Prefix
<1>4. a.top <= a.bot => b.top <= b.bot /\ b.at[b.top] = a.at[a.top]
  BY <1>1
<1>5. Prefix(Pop(a), Pop(b))
  BY <1>1 DEF Prefix, Pop
<1> QED BY <1>2, <1>3, <1>4, <1>5

\* A list is a prefix of itself, of itself with a page put on and taken off,
\* and, if it is empty, of the list of a new page.
LEMMA PrefixSelf ==
    ASSUME NEW l \in List, NEW p \in Int
    PROVE  /\ Prefix(l, l) /\ Prefix(l, Pop(Push(l, p)))
           /\ l.top <= l.bot /\ l.at[l.top] = p => Prefix(l, Push(Pop(l), p))
           /\ l.bot = l.top - 1 => Prefix(l, Below(l, p)) /\ Prefix(l, Push(Past(l), p))
<1>1. l.top \in Int /\ l.bot \in Int /\ l.at \in [Int -> Int]
  BY DEF List
<1>2. Prefix(l, l)
  BY <1>1 DEF Prefix
<1>3. Prefix(l, Pop(Push(l, p)))
  BY <1>1 DEF Prefix, Pop, Push
<1>4. l.top <= l.bot /\ l.at[l.top] = p => Prefix(l, Push(Pop(l), p))
  BY <1>1 DEF Prefix, Pop, Push
<1>5. l.bot = l.top - 1 => Prefix(l, Below(l, p)) /\ Prefix(l, Push(Past(l), p))
  BY <1>1 DEF Prefix, Below, Past, Push
<1> QED BY <1>2, <1>3, <1>4, <1>5

-----------------------------------------------------------------------------
(* The file, and what the operations of RmFileHandle make of it.           *)

\* Every page header agrees with its bitmap.
PagesOk(file) == file \in [PageNo -> Pages] /\ \A p \in PageNo : PageOk(file[p])

FileOk ==
    /\ num_pages \in 1 .. MaxPages + 1 /\ next_page_no = num_pages
    /\ first_free_page_no \in Int
    /\ PagesOk(page)

\* The pages with a free slot.
FreePages(file, pages) == {p \in 1 .. pages - 1 : file[p].bitmap # Slot}

\* The free-page list of a file with this head and these pages is l.
Linked(l, head, file, pages) == Chain(l, head, file, FreePages(file, pages))

Listed(l) == Linked(l, first_free_page_no, page, num_pages)

\* Every slot of a page has a record.
Full(recs, p) == \A s \in Slot : [page_no |-> p, slot_no |-> s] \in recs

\* A rid and its two parts.
LEMMA RidParts ==
    ASSUME NEW rid \in Rid
    PROVE  /\ rid.page_no \in PageNo /\ rid.slot_no \in Slot
           /\ rid.page_no \in Nat /\ rid.page_no # 0
           /\ \A q \in Rid : q = rid <=> q.page_no = rid.page_no /\ q.slot_no = rid.slot_no
<1>1. rid.page_no \in PageNo /\ rid.slot_no \in Slot
  BY DEF Rid
<1>2. rid.page_no \in Nat /\ rid.page_no # 0
  BY <1>1, SizeAssumption DEF PageNo
<1>3. \A q \in Rid : q = rid <=> q.page_no = rid.page_no /\ q.slot_no = rid.slot_no
  BY DEF Rid
<1> QED BY <1>1, <1>2, <1>3

\* The records of the file.
LEMMA PresentIs ==
    /\ Present \subseteq Rid
    /\ \A rid \in Rid : rid \in Present <=> rid.page_no < num_pages /\ rid.slot_no \in page[rid.page_no].bitmap
BY Zenon DEF Present, is_record

\* A page of the file is full in the bitmap when it is full of records.
LEMMA FullIs ==
    ASSUME FileOk, NEW p \in 1 .. num_pages - 1
    PROVE  /\ p \in PageNo /\ PageOk(page[p])
           /\ Full(Present, p) <=> page[p].bitmap = Slot
<1>1. p \in PageNo /\ p < num_pages
  BY SizeAssumption DEF FileOk, PageNo
<1>2. PageOk(page[p]) /\ page[p].bitmap \in SUBSET Slot
  BY <1>1 DEF FileOk, PagesOk, PageOk, Pages
<1>3. ASSUME NEW s \in Slot
      PROVE  [page_no |-> p, slot_no |-> s] \in Present <=> s \in page[p].bitmap
  <2>1. [page_no |-> p, slot_no |-> s] \in Rid
    BY <1>1 DEF Rid
  <2> QED BY <1>1, <2>1, PresentIs
<1>4. Full(Present, p) <=> \A s \in Slot : s \in page[p].bitmap
  BY <1>3, Zenon DEF Full
<1> QED BY <1>1, <1>2, <1>4, Zenon

\* The pages with a free slot are pages of the file.
LEMMA FreePagesIn ==
    ASSUME FileOk
    PROVE  /\ FreePages(page, num_pages) \in SUBSET Int
           /\ NoPage \notin FreePages(page, num_pages)
           /\ \A p \in FreePages(page, num_pages) :
                 p \in PageNo /\ p < num_pages /\ page[p].bitmap # Slot
BY SizeAssumption DEF FileOk, FreePages, NoPage, PageNo

\* The free pages after a change of one page.
LEMMA FreePagesAfter ==
    ASSUME NEW file, NEW file2, NEW n \in Nat, NEW p \in 1 .. n - 1,
           \A q \in 1 .. n - 1 : q # p => file2[q].bitmap = file[q].bitmap
    PROVE  FreePages(file2, n) = IF file2[p].bitmap = Slot THEN FreePages(file, n) \ {p}
                                 ELSE FreePages(file, n) \cup {p}
BY DEF FreePages

\* delete_record takes one record out, and puts its page at the head of the
\* list if the page was full.
LEMMA DeleteRecord ==
    ASSUME FileOk, NEW rid \in Rid, rid \in Present, delete_record(rid)
    PROVE  /\ FileOk' /\ num_pages' = num_pages
           /\ Present' = Present \ {rid}
           /\ \A l \in List : Listed(l) =>
                 /\ (IF Full(Present, rid.page_no) THEN Push(l, rid.page_no) ELSE l) \in List
                 /\ Linked(IF Full(Present, rid.page_no) THEN Push(l, rid.page_no) ELSE l,
                           first_free_page_no', page', num_pages')
<1> DEFINE p == rid.page_no
           new == Freed(page[p], rid.slot_no, first_free_page_no)
<1>1. p \in PageNo /\ rid.slot_no \in Slot /\ p \in Nat /\ p # 0
      /\ p < num_pages /\ rid.slot_no \in page[p].bitmap
  BY RidParts, PresentIs
<1>2. num_pages \in Nat /\ p \in 1 .. num_pages - 1 /\ first_free_page_no \in Int
      /\ page \in [PageNo -> Pages] /\ PageOk(page[p])
  BY <1>1, SizeAssumption DEF FileOk, PagesOk
<1>3. /\ page' = [page EXCEPT ![p] = new]
      /\ first_free_page_no' = IF page[p].num_records = PerPage THEN p ELSE first_free_page_no
      /\ UNCHANGED <<num_pages, next_page_no>>
  BY Zenon DEF delete_record, Freed
<1>4. /\ PageOk(new) /\ new.bitmap = page[p].bitmap \ {rid.slot_no}
      /\ new.bitmap # Slot
      /\ new.next_free_page_no =
            IF page[p].bitmap = Slot THEN first_free_page_no ELSE page[p].next_free_page_no
  BY <1>1, <1>2, FreedPage
<1>5. page[p].num_records = PerPage <=> page[p].bitmap = Slot
  BY <1>2, FullPage
<1> HIDE DEF new
<1>6. \A q \in PageNo : page'[q] = IF q = p THEN new ELSE page[q]
  BY <1>2, <1>3
<1>7. FileOk'
  <2>1. page' \in [PageNo -> Pages]
    BY <1>2, <1>3, <1>4, Zenon DEF PageOk
  <2>2. PagesOk(page')
    BY <1>4, <1>6, <2>1, Zenon DEF FileOk, PagesOk
  <2>3. first_free_page_no' \in Int
    BY <1>1, <1>2, <1>3
  <2> QED BY <1>3, <2>2, <2>3, Zenon DEF FileOk
<1>8. Present' = Present \ {rid}
  <2>1. Present' \subseteq Rid /\ \A q \in Rid : q \in Present' <=>
           q.page_no < num_pages' /\ q.slot_no \in page'[q.page_no].bitmap
    BY Zenon DEF Present, is_record
  <2>2. ASSUME NEW q \in Rid PROVE q \in Present' <=> q \in Present /\ q # rid
    <3>1. q.page_no \in PageNo /\ (q = rid <=> q.page_no = p /\ q.slot_no = rid.slot_no)
      BY RidParts
    <3>2. CASE q.page_no = p
      <4>1. page'[q.page_no].bitmap = page[p].bitmap \ {rid.slot_no}
        BY <1>4, <1>6, <3>1, <3>2
      <4> QED BY <1>1, <1>3, <2>1, <3>1, <3>2, <4>1, PresentIs
    <3>3. CASE q.page_no # p
      <4>1. page'[q.page_no] = page[q.page_no]
        BY <1>6, <3>1, <3>3
      <4> QED BY <1>3, <2>1, <3>1, <3>3, <4>1, PresentIs
    <3> QED BY <3>2, <3>3
  <2> QED BY <2>1, <2>2, PresentIs
<1>9. Full(Present, p) <=> page[p].bitmap = Slot
  BY <1>2, FullIs
<1>10. FreePages(page', num_pages') = FreePages(page, num_pages) \cup {p}
  <2>1. \A q \in 1 .. num_pages - 1 : q \in PageNo
    BY SizeAssumption DEF FileOk, PageNo
  <2>2. \A q \in 1 .. num_pages - 1 : q # p => page'[q].bitmap = page[q].bitmap
    BY <1>6, <2>1
  <2>3. page'[p].bitmap # Slot
    BY <1>1, <1>4, <1>6
  <2>4. FreePages(page', num_pages) = FreePages(page, num_pages) \cup {p}
    BY <1>2, <2>2, <2>3, FreePagesAfter
  <2> QED BY <1>3, <2>4, Zenon
<1>11. \A q \in FreePages(page, num_pages) : q # p \/ page[p].bitmap # Slot =>
          page'[q].next_free_page_no = page[q].next_free_page_no
  <2> TAKE q \in FreePages(page, num_pages)
  <2>1. q \in PageNo /\ page[q].bitmap # Slot
    BY FreePagesIn
  <2> QED BY <1>4, <1>6, <2>1
<1>12. ASSUME NEW l \in List, Listed(l)
       PROVE  /\ (IF Full(Present, p) THEN Push(l, p) ELSE l) \in List
              /\ Linked(IF Full(Present, p) THEN Push(l, p) ELSE l,
                        first_free_page_no', page', num_pages')
  <2>1. CASE page[p].bitmap = Slot
    <3>1. p \notin FreePages(page, num_pages)
      BY <2>1, FreePagesIn
    <3>2. page'[p].next_free_page_no = first_free_page_no
      BY <1>1, <1>4, <1>6, <2>1
    <3>3. p \in Int
      BY <1>1
    <3>4. \A q \in FreePages(page, num_pages) : page'[q].next_free_page_no = page[q].next_free_page_no
      BY <1>11, <3>1, Zenon
    <3>5. Chain(Push(l, p), p, page', FreePages(page, num_pages) \cup {p})
      BY <1>12, <3>1, <3>2, <3>3, <3>4, PushChain, FreePagesIn DEF Listed, Linked
    <3>6. first_free_page_no' = p /\ Full(Present, p)
      BY <1>3, <1>5, <1>9, <2>1
    <3> QED BY <1>10, <3>3, <3>5, <3>6, PushPop DEF Listed, Linked
  <2>2. CASE page[p].bitmap # Slot
    <3>1. p \in FreePages(page, num_pages)
      BY <1>2, <2>2 DEF FreePages
    <3>2. FreePages(page', num_pages') = FreePages(page, num_pages)
      BY <1>10, <3>1
    <3>3. \A q \in FreePages(page, num_pages) : page'[q].next_free_page_no = page[q].next_free_page_no
      BY <1>11, <2>2, Zenon
    <3>4. Chain(l, first_free_page_no, page', FreePages(page, num_pages))
      BY <1>12, <3>3, SameChain DEF Listed, Linked
    <3>5. first_free_page_no' = first_free_page_no /\ ~Full(Present, p)
      BY <1>3, <1>5, <1>9, <2>2
    <3> QED BY <3>2, <3>4, <3>5 DEF Listed, Linked
  <2> QED BY <2>1, <2>2
<1> QED BY <1>3, <1>7, <1>8, <1>12, Zenon

\* One page of the file gets a record: what becomes of the records.
LEMMA PresentFilled ==
    ASSUME FileOk, NEW rid \in Rid, rid \notin Present, FileOk',
           num_pages <= num_pages', rid.page_no < num_pages',
           \A q \in num_pages .. num_pages' - 1 : q = rid.page_no,
           NEW before \in SUBSET Slot,
           rid.page_no < num_pages => before = page[rid.page_no].bitmap,
           rid.page_no >= num_pages => before = {},
           page'[rid.page_no].bitmap = before \cup {rid.slot_no},
           \A q \in PageNo : q # rid.page_no => page'[q] = page[q]
    PROVE  Present' = Present \cup {rid}
<1>1. Present' \subseteq Rid /\ \A q \in Rid : q \in Present' <=>
         q.page_no < num_pages' /\ q.slot_no \in page'[q.page_no].bitmap
  BY Zenon DEF Present, is_record
<1>2. num_pages \in Nat /\ num_pages' \in Nat
  BY SizeAssumption DEF FileOk
<1>3. ASSUME NEW q \in Rid PROVE q \in Present' <=> q \in Present \/ q = rid
  <2>1. q.page_no \in PageNo /\ q.page_no \in Nat
        /\ (q = rid <=> q.page_no = rid.page_no /\ q.slot_no = rid.slot_no)
    BY RidParts
  <2>2. CASE q.page_no = rid.page_no
    <3>1. q \in Present' <=> q.slot_no \in before \/ q.slot_no = rid.slot_no
      BY <1>1, <2>2
    <3>2. q \in Present <=> q.slot_no \in before
      BY <1>2, <2>1, <2>2, PresentIs
    <3> QED BY <2>1, <2>2, <3>1, <3>2
  <2>3. CASE q.page_no # rid.page_no
    <3>1. page'[q.page_no] = page[q.page_no]
      BY <2>1, <2>3
    <3>3. q.page_no \notin num_pages .. num_pages' - 1
      BY <2>3
    <3>2. q.page_no < num_pages' <=> q.page_no < num_pages
      BY <1>2, <2>1, <3>3
    <3> QED BY <1>1, <2>1, <2>3, <3>1, <3>2, PresentIs
  <2> QED BY <2>2, <2>3
<1> QED BY <1>1, <1>3, PresentIs

\* insert_record(rid, buf) into a page of the file.  The page leaves the list
\* when it is full; this is right only for the head of the list.
LEMMA InsertRecordAt ==
    ASSUME FileOk, NEW rid \in Rid, rid \notin Present, ~TooShort(rid), insert_record_at(rid)
    PROVE  /\ FileOk' /\ num_pages' = num_pages
           /\ Present' = Present \cup {rid}
           /\ \A l \in List :
                 Listed(l) /\ (Full(Present \cup {rid}, rid.page_no) => first_free_page_no = rid.page_no) =>
                 /\ (IF Full(Present \cup {rid}, rid.page_no) THEN Pop(l) ELSE l) \in List
                 /\ Linked(IF Full(Present \cup {rid}, rid.page_no) THEN Pop(l) ELSE l,
                           first_free_page_no', page', num_pages')
<1> DEFINE p == rid.page_no
           new == Filled(page[p], rid.slot_no)
<1>1. p \in PageNo /\ rid.slot_no \in Slot /\ p \in Nat /\ p # 0 /\ num_pages \in Nat
      /\ p < num_pages
  BY RidParts, SizeAssumption DEF FileOk, TooShort
<1>2. p \in 1 .. num_pages - 1 /\ first_free_page_no \in Int
      /\ page \in [PageNo -> Pages] /\ PageOk(page[p]) /\ page[p].bitmap \in SUBSET Slot
      /\ rid.slot_no \notin page[p].bitmap
  <2>1. p \in 1 .. num_pages - 1 /\ rid.slot_no \notin page[p].bitmap
    BY <1>1, PresentIs
  <2> QED BY <1>1, <2>1 DEF FileOk, PagesOk, PageOk, Pages
<1>3. /\ page' = [page EXCEPT ![p] = new]
      /\ first_free_page_no' = IF page[p].num_records + 1 = PerPage /\ first_free_page_no = p
                               THEN page[p].next_free_page_no ELSE first_free_page_no
      /\ UNCHANGED <<num_pages, next_page_no>>
  BY Zenon DEF insert_record_at
<1>4. /\ PageOk(new) /\ new.bitmap = page[p].bitmap \cup {rid.slot_no}
      /\ page[p].num_records + 1 = PerPage <=> page[p].bitmap \cup {rid.slot_no} = Slot
      /\ new.next_free_page_no =
            IF page[p].bitmap \cup {rid.slot_no} = Slot THEN NoPage ELSE page[p].next_free_page_no
  BY <1>1, <1>2, FilledPage
<1> HIDE DEF new
<1>6. \A q \in PageNo : page'[q] = IF q = p THEN new ELSE page[q]
  BY <1>2, <1>3
<1>7. FileOk'
  <2>1. page' \in [PageNo -> Pages]
    BY <1>2, <1>3, <1>4, Zenon DEF PageOk
  <2>2. PagesOk(page')
    BY <1>4, <1>6, <2>1, Zenon DEF FileOk, PagesOk
  <2>3. first_free_page_no' \in Int
    BY <1>2, <1>3 DEF Pages
  <2> QED BY <1>3, <2>2, <2>3, Zenon DEF FileOk
<1>8. Present' = Present \cup {rid}
  <2>1. num_pages <= num_pages' /\ p < num_pages' /\ \A q \in num_pages .. num_pages' - 1 : q = p
    BY <1>1, <1>3
  <2>2. page'[p].bitmap = page[p].bitmap \cup {rid.slot_no} /\ ~(p >= num_pages)
    BY <1>1, <1>4, <1>6
  <2>3. \A q \in PageNo : q # p => page'[q] = page[q]
    BY <1>6
  <2> QED BY <1>2, <1>7, <2>1, <2>2, <2>3, PresentFilled
<1>9. Full(Present \cup {rid}, p) <=> new.bitmap = Slot
  <2>1. \A s \in Slot : [page_no |-> p, slot_no |-> s] \in Rid
    BY <1>1 DEF Rid
  <2>2. \A s \in Slot : [page_no |-> p, slot_no |-> s] \in Present <=> s \in page[p].bitmap
    BY <1>1, <2>1, PresentIs
  <2>3. \A s \in Slot : [page_no |-> p, slot_no |-> s] = rid <=> s = rid.slot_no
    BY <2>1, RidParts, Zenon
  <2>4. Full(Present \cup {rid}, p) <=> \A s \in Slot : s \in page[p].bitmap \/ s = rid.slot_no
    BY <2>2, <2>3, Zenon DEF Full
  <2> QED BY <1>1, <1>2, <1>4, <2>4
<1>10. FreePages(page', num_pages') = IF new.bitmap = Slot THEN FreePages(page, num_pages) \ {p}
                                      ELSE FreePages(page, num_pages)
  <2>1. \A q \in 1 .. num_pages - 1 : q \in PageNo
    BY SizeAssumption DEF FileOk, PageNo
  <2>2. \A q \in 1 .. num_pages - 1 : q # p => page'[q].bitmap = page[q].bitmap
    BY <1>6, <2>1
  <2>3. page'[p].bitmap = new.bitmap
    BY <1>1, <1>6
  <2>4. FreePages(page', num_pages) = IF page'[p].bitmap = Slot THEN FreePages(page, num_pages) \ {p}
                                      ELSE FreePages(page, num_pages) \cup {p}
    BY <1>1, <1>2, <2>2, FreePagesAfter
  <2>5. p \in FreePages(page, num_pages)
    BY <1>1, <1>2 DEF FreePages
  <2> QED BY <1>3, <2>3, <2>4, <2>5
<1>11. p \in FreePages(page, num_pages)
  BY <1>1, <1>2 DEF FreePages
<1>12. ASSUME NEW l \in List, Listed(l), Full(Present \cup {rid}, p) => first_free_page_no = p
       PROVE  /\ (IF Full(Present \cup {rid}, p) THEN Pop(l) ELSE l) \in List
              /\ Linked(IF Full(Present \cup {rid}, p) THEN Pop(l) ELSE l,
                        first_free_page_no', page', num_pages')
  <2>1. CASE new.bitmap = Slot
    <3>1. \A q \in FreePages(page, num_pages) \ {p} :
             page'[q].next_free_page_no = page[q].next_free_page_no
      BY <1>6, FreePagesIn
    <3>2. first_free_page_no = p /\ p # NoPage /\ p \in Int
      BY <1>1, <1>9, <1>12, <2>1 DEF NoPage
    <3>3. Chain(Pop(l), page[p].next_free_page_no, page', FreePages(page, num_pages) \ {p})
      BY <1>11, <1>12, <3>1, <3>2, PopChain, FreePagesIn, Zenon DEF Listed, Linked
    <3>4. first_free_page_no' = page[p].next_free_page_no
      BY <1>3, <1>4, <2>1, <3>2
    <3> QED BY <1>9, <1>10, <2>1, <3>2, <3>3, <3>4, PushPop DEF Linked
  <2>2. CASE new.bitmap # Slot
    <3>1. \A q \in FreePages(page, num_pages) : page'[q].next_free_page_no = page[q].next_free_page_no
      BY <1>4, <1>6, <2>2, FreePagesIn
    <3>2. Chain(l, first_free_page_no, page', FreePages(page, num_pages))
      BY <1>12, <3>1, SameChain DEF Listed, Linked
    <3>3. first_free_page_no' = first_free_page_no
      BY <1>3, <1>4, <2>2
    <3> QED BY <1>9, <1>10, <2>2, <3>2, <3>3 DEF Linked
  <2> QED BY <2>1, <2>2
<1> QED BY <1>3, <1>7, <1>8, <1>12, Zenon

\* create_new_page_handle adds an empty page and leaves the records alone.
LEMMA NewPage ==
    ASSUME FileOk, create_new_page_handle
    PROVE  FileOk' /\ num_pages' = num_pages + 1 /\ Present' = Present
<1> DEFINE new == [next_free_page_no |-> first_free_page_no, num_records |-> 0, bitmap |-> {}]
<1>1. /\ num_pages \in Nat /\ num_pages \in PageNo /\ next_page_no = num_pages
      /\ first_free_page_no \in Int /\ page \in [PageNo -> Pages]
  BY SizeAssumption DEF FileOk, PagesOk, create_new_page_handle, CanCreate
<1>2. /\ page' = [page EXCEPT ![num_pages] = new]
      /\ first_free_page_no' = num_pages /\ num_pages' = num_pages + 1 /\ next_page_no' = num_pages + 1
  BY <1>1, Zenon DEF create_new_page_handle
<1>3. PageOk(new) /\ new.bitmap = {}
  BY <1>1, FS_EmptySet DEF PageOk, Pages
<1> HIDE DEF new
<1>4. \A q \in PageNo : page'[q] = IF q = num_pages THEN new ELSE page[q]
  BY <1>1, <1>2
<1>5. FileOk'
  <2>1. page' \in [PageNo -> Pages]
    BY <1>1, <1>2, <1>3 DEF PageOk
  <2>2. PagesOk(page')
    BY <1>3, <1>4, <2>1, Zenon DEF FileOk, PagesOk
  <2>3. num_pages' \in 1 .. MaxPages + 1
    BY <1>1, <1>2, SizeAssumption DEF PageNo
  <2>4. first_free_page_no' \in Int
    BY <1>1, <1>2
  <2> QED BY <1>2, <2>2, <2>3, <2>4, Zenon DEF FileOk
<1>6. Present' = Present
  <2>1. Present' \subseteq Rid /\ \A q \in Rid : q \in Present' <=>
           q.page_no < num_pages' /\ q.slot_no \in page'[q.page_no].bitmap
    BY Zenon DEF Present, is_record
  <2>2. ASSUME NEW q \in Rid PROVE q \in Present' <=> q \in Present
    <3>1. q.page_no \in PageNo /\ q.page_no \in Nat
      BY RidParts
    <3>2. CASE q.page_no = num_pages
      <4>1. page'[q.page_no].bitmap = {}
        BY <1>3, <1>4, <3>1, <3>2
      <4> QED BY <1>1, <2>1, <3>2, <4>1, PresentIs
    <3>3. CASE q.page_no # num_pages
      <4>1. page'[q.page_no] = page[q.page_no]
        BY <1>4, <3>1, <3>3
      <4>2. q.page_no < num_pages' <=> q.page_no < num_pages
        BY <1>1, <1>2, <3>1, <3>3
      <4> QED BY <2>1, <3>1, <4>1, <4>2, PresentIs
    <3> QED BY <3>2, <3>3
  <2> QED BY <2>1, <2>2, PresentIs, Zenon
<1> QED BY <1>2, <1>5, <1>6

\* When the record that arrives is the one that fills its page.
LEMMA FullAfter ==
    ASSUME NEW rid \in Rid, NEW recs, NEW bits \in SUBSET Slot,
           \A q \in Rid : q.page_no = rid.page_no => (q \in recs <=> q.slot_no \in bits)
    PROVE  Full(recs \cup {rid}, rid.page_no) <=> bits \cup {rid.slot_no} = Slot
<1> DEFINE at(s) == [page_no |-> rid.page_no, slot_no |-> s]
<1>1. \A s \in Slot : at(s) \in Rid /\ at(s).page_no = rid.page_no /\ at(s).slot_no = s
  BY RidParts DEF Rid
<1>2. \A s \in Slot : at(s) = rid <=> s = rid.slot_no
  BY <1>1, RidParts, Zenon
<1>3. Full(recs \cup {rid}, rid.page_no) <=> \A s \in Slot : at(s) \in recs \/ at(s) = rid
  BY Zenon DEF Full
<1> HIDE DEF at
<1>4. Full(recs \cup {rid}, rid.page_no) <=> \A s \in Slot : s \in bits \/ s = rid.slot_no
  BY <1>1, <1>2, <1>3, Zenon
<1>5. rid.slot_no \in Slot
  BY RidParts
<1> QED BY <1>4, <1>5

\* insert_record takes the head of the list, whose page has a free slot.
LEMMA InsertRecordOld ==
    ASSUME FileOk, NEW l \in List, Listed(l), insert_record, first_free_page_no # NoPage
    PROVE  /\ FileOk' /\ num_pages' = num_pages
           /\ cursor' \in Rid /\ cursor' \notin Present /\ cursor'.page_no < num_pages'
           /\ Present' = Present \cup {cursor'}
           /\ \E m \in List :
                 /\ Linked(m, first_free_page_no', page', num_pages')
                 /\ Prefix(l, IF Full(Present', cursor'.page_no) THEN Push(m, cursor'.page_no) ELSE m)
<1> DEFINE p == first_free_page_no
           s == first_bit(FALSE, page[p].bitmap)
           rid == [page_no |-> p, slot_no |-> s]
<1>1. p \in FreePages(page, num_pages)
  BY EmptyChain, FreePagesIn DEF Listed, Linked
<1>2. p \in PageNo /\ p < num_pages /\ page[p].bitmap # Slot /\ num_pages \in Nat /\ PageOk(page[p])
  BY <1>1, FreePagesIn, SizeAssumption DEF FileOk, PagesOk
<1>3. s \in Slot /\ s \notin page[p].bitmap
  BY <1>2, FirstBit
<1>4. /\ page' = [page EXCEPT ![p] = Filled(page[p], s)]
      /\ first_free_page_no' =
             IF page[p].num_records + 1 = PerPage THEN page[p].next_free_page_no ELSE p
      /\ num_pages' = num_pages /\ next_page_no' = next_page_no
      /\ cursor' = rid
  BY DEF insert_record
<1> HIDE DEF s
<1>5. rid \in Rid /\ rid.page_no = p /\ rid.slot_no = s
  BY <1>2, <1>3 DEF Rid
<1>6. rid \notin Present /\ ~TooShort(rid)
  BY <1>2, <1>3, <1>5, PresentIs, SizeAssumption DEF TooShort, PageNo
<1>7. insert_record_at(rid)
  BY <1>4, <1>5, <1>6 DEF insert_record_at
<1> HIDE DEF rid
<1>8. /\ FileOk' /\ Present' = Present \cup {rid}
      /\ (IF Full(Present \cup {rid}, rid.page_no) THEN Pop(l) ELSE l) \in List
      /\ Linked(IF Full(Present \cup {rid}, rid.page_no) THEN Pop(l) ELSE l,
                first_free_page_no', page', num_pages')
  BY <1>5, <1>6, <1>7, InsertRecordAt
<1>9. l.top <= l.bot /\ l.at[l.top] = p /\ p \in Int
  <2>1. l.top <= l.bot + 1 /\ p = Nth(l, l.top) /\ l.top \in Int /\ l.bot \in Int
    BY PushPop DEF Listed, Linked, Chain, List
  <2> QED BY <2>1, <1>2 DEF Nth, FileOk
<1>10. CASE Full(Present \cup {rid}, p)
  <2>1. Prefix(l, Push(Pop(l), p))
    BY <1>9, PrefixSelf
  <2>2. /\ Pop(l) \in List /\ Linked(Pop(l), first_free_page_no', page', num_pages')
        /\ Prefix(l, IF Full(Present', cursor'.page_no) THEN Push(Pop(l), cursor'.page_no) ELSE Pop(l))
    BY <1>4, <1>5, <1>8, <1>10, <2>1, Zenon
  <2> QED BY <1>2, <1>4, <1>5, <1>6, <1>8, <2>2, Zenon
<1>11. CASE ~Full(Present \cup {rid}, p)
  <2>1. Prefix(l, l)
    BY <1>9, PrefixSelf
  <2>2. /\ l \in List /\ Linked(l, first_free_page_no', page', num_pages')
        /\ Prefix(l, IF Full(Present', cursor'.page_no) THEN Push(l, cursor'.page_no) ELSE l)
    BY <1>4, <1>5, <1>8, <1>11, <2>1, Zenon
  <2> QED BY <1>2, <1>4, <1>5, <1>6, <1>8, <2>2, Zenon
<1> QED BY <1>10, <1>11

\* insert_record makes a new page when no page has a free slot.
LEMMA InsertRecordNew ==
    ASSUME FileOk, NEW l \in List, Listed(l), insert_record, first_free_page_no = NoPage
    PROVE  /\ FileOk' /\ num_pages' = num_pages + 1
           /\ cursor' \in Rid /\ cursor' \notin Present /\ cursor'.page_no < num_pages'
           /\ Present' = Present \cup {cursor'}
           /\ \E m \in List :
                 /\ Linked(m, first_free_page_no', page', num_pages')
                 /\ Prefix(l, IF Full(Present', cursor'.page_no) THEN Push(m, cursor'.page_no) ELSE m)
<1> DEFINE blank == [next_free_page_no |-> NoPage, num_records |-> 0, bitmap |-> {}]
           s == first_bit(FALSE, blank.bitmap)
           new == Filled(blank, s)
           rid == [page_no |-> num_pages, slot_no |-> s]
<1>1. FreePages(page, num_pages) = {} /\ l.bot = l.top - 1
  BY EmptyChain, FreePagesIn DEF Listed, Linked
<1>2. /\ num_pages \in PageNo /\ num_pages \in Nat /\ num_pages \in Int /\ next_page_no = num_pages
      /\ page \in [PageNo -> Pages]
  BY SizeAssumption DEF FileOk, PagesOk, insert_record, CanCreate
<1>3. [ZeroPage EXCEPT !.next_free_page_no = NoPage] = blank
  BY DEF ZeroPage
<1>4. /\ page' = [page EXCEPT ![num_pages] = new]
      /\ first_free_page_no' = IF blank.num_records + 1 = PerPage THEN NoPage ELSE num_pages
      /\ num_pages' = num_pages + 1 /\ next_page_no' = num_pages + 1
      /\ cursor' = rid
  BY <1>2, <1>3, Zenon DEF insert_record
<1>5. PageOk(blank) /\ blank.bitmap = {} /\ blank.next_free_page_no = NoPage /\ blank.bitmap # Slot
  BY FS_EmptySet, SizeAssumption DEF PageOk, Pages, NoPage, Slot
<1> HIDE DEF blank
<1>6. s \in Slot /\ s \notin blank.bitmap
  BY <1>5, FirstBit
<1> HIDE DEF s
<1>7. /\ PageOk(new) /\ new.bitmap = {s} /\ new.next_free_page_no = NoPage
      /\ blank.num_records + 1 = PerPage <=> new.bitmap = Slot
  BY <1>5, <1>6, FilledPage
<1> HIDE DEF new
<1>8. rid \in Rid /\ rid.page_no = num_pages /\ rid.slot_no = s
  BY <1>2, <1>6 DEF Rid
<1> HIDE DEF rid
<1>9. rid \notin Present
  BY <1>2, <1>8, PresentIs
<1>10. \A q \in PageNo : page'[q] = IF q = num_pages THEN new ELSE page[q]
  BY <1>2, <1>4
<1>11. FileOk'
  <2>1. page' \in [PageNo -> Pages]
    BY <1>2, <1>4, <1>7 DEF PageOk
  <2>2. PagesOk(page')
    BY <1>7, <1>10, <2>1, Zenon DEF FileOk, PagesOk
  <2>3. num_pages' \in 1 .. MaxPages + 1
    BY <1>2, <1>4, SizeAssumption DEF PageNo
  <2>4. first_free_page_no' \in Int
    BY <1>2, <1>4 DEF NoPage
  <2> QED BY <1>4, <2>2, <2>3, <2>4, Zenon DEF FileOk
<1>12. Present' = Present \cup {rid}
  <2>1. num_pages <= num_pages' /\ rid.page_no < num_pages'
        /\ \A q \in num_pages .. num_pages' - 1 : q = rid.page_no
    BY <1>2, <1>4, <1>8
  <2>2. page'[rid.page_no].bitmap = {} \cup {rid.slot_no} /\ ~(rid.page_no < num_pages)
    BY <1>2, <1>7, <1>8, <1>10
  <2>3. \A q \in PageNo : q # rid.page_no => page'[q] = page[q]
    BY <1>8, <1>10
  <2>4. {} \in SUBSET Slot
    OBVIOUS
  <2> QED BY <1>8, <1>9, <1>11, <2>1, <2>2, <2>3, <2>4, PresentFilled, Zenon
<1>13. Full(Present \cup {rid}, num_pages) <=> new.bitmap = Slot
  <2>1. \A q \in Rid : q.page_no = rid.page_no => (q \in Present <=> q.slot_no \in {})
    BY <1>2, <1>8, PresentIs
  <2>2. Full(Present \cup {rid}, rid.page_no) <=> {} \cup {rid.slot_no} = Slot
    BY <1>8, <2>1, FullAfter, Zenon
  <2> QED BY <1>7, <1>8, <2>2, Zenon
<1>14. FreePages(page', num_pages') = IF new.bitmap = Slot THEN {} ELSE {num_pages}
  <2>1. \A q \in 1 .. num_pages - 1 : q \in PageNo /\ q # num_pages
    BY <1>2, SizeAssumption DEF PageNo
  <2>2. \A q \in 1 .. num_pages - 1 : page'[q].bitmap = Slot
    BY <1>1, <1>10, <2>1, Zenon DEF FreePages
  <2>3. page'[num_pages].bitmap = new.bitmap
    BY <1>2, <1>10, Zenon
  <2>4. \A q \in 1 .. num_pages' - 1 : q = num_pages \/ q \in 1 .. num_pages - 1
    BY <1>2, <1>4
  <2>5. num_pages \in 1 .. num_pages' - 1
    BY <1>2, <1>4, SizeAssumption DEF PageNo
  <2> QED BY <2>2, <2>3, <2>4, <2>5, Zenon DEF FreePages
<1>15. page'[num_pages].next_free_page_no = NoPage
  BY <1>2, <1>7, <1>10, Zenon
<1>16. /\ Below(l, num_pages) \in List /\ Chain(Below(l, num_pages), num_pages, page', {num_pages})
       /\ Past(l) \in List /\ Chain(Past(l), NoPage, page', {})
  BY <1>1, <1>2, <1>15, NewChain, Zenon
<1>17. Prefix(l, Below(l, num_pages)) /\ Prefix(l, Push(Past(l), num_pages))
  BY <1>1, <1>2, PrefixSelf, Zenon
<1>18. \E m \in List :
         /\ Linked(m, first_free_page_no', page', num_pages')
         /\ Prefix(l, IF Full(Present', cursor'.page_no) THEN Push(m, cursor'.page_no) ELSE m)
  <2>1. CASE new.bitmap = Slot
    <3>1. Linked(Past(l), first_free_page_no', page', num_pages')
      BY <1>4, <1>7, <1>14, <1>16, <2>1, Zenon DEF Linked
    <3>2. Full(Present', cursor'.page_no) /\ cursor'.page_no = num_pages
      BY <1>4, <1>8, <1>12, <1>13, <2>1, Zenon
    <3> QED BY <1>16, <1>17, <3>1, <3>2, Zenon
  <2>2. CASE new.bitmap # Slot
    <3>1. Linked(Below(l, num_pages), first_free_page_no', page', num_pages')
      BY <1>4, <1>7, <1>14, <1>16, <2>2, Zenon DEF Linked
    <3>2. ~Full(Present', cursor'.page_no)
      BY <1>4, <1>8, <1>12, <1>13, <2>2, Zenon
    <3> QED BY <1>16, <1>17, <3>1, <3>2, Zenon
  <2> QED BY <2>1, <2>2, Zenon
<1>19. cursor'.page_no < num_pages'
  BY <1>2, <1>4, <1>8
<1> QED BY <1>4, <1>8, <1>9, <1>11, <1>12, <1>18, <1>19

-----------------------------------------------------------------------------
(* A moment of the file between two changes: its records, and pages that   *)
(* were at the front of its free-page list.  Undoing the changes of a      *)
(* transaction leads back through the moments before them.                 *)

Changes == [type : {"INSERT", "DELETE"}, rid : Rid]
Moment == [recs : SUBSET Rid, list : List]

\* b is the moment after a change of moment a.  What undoing the change makes
\* of the list of b begins with the list of a; undoing the DELETE of a record
\* of a full page finds that page at the head.
Between(a, change, b) ==
    LET rid == change.rid
        p == change.rid.page_no
    IN  /\ change.type = "INSERT" =>
              /\ rid \notin a.recs /\ b.recs = a.recs \cup {rid}
              /\ Prefix(a.list, IF Full(b.recs, p) THEN Push(b.list, p) ELSE b.list)
        /\ change.type = "DELETE" =>
              /\ rid \in a.recs /\ b.recs = a.recs \ {rid}
              /\ Full(a.recs, p) => b.list.top <= b.list.bot /\ b.list.at[b.list.top] = p
              /\ Prefix(a.list, IF Full(a.recs, p) THEN Pop(b.list) ELSE b.list)

\* The file is as it was at moment m.
Now(m) == Present = m.recs /\ \E l \in List : Listed(l) /\ Prefix(m.list, l)

\* delete_record undoes an INSERT (transaction_manager.cpp, abort; also the
\* INSERT that a unique index refuses).
LEMMA UndoInsert ==
    ASSUME FileOk, NEW a \in Moment, NEW m \in Moment, NEW rid \in Rid,
           Now(m), Between(a, Change("INSERT", rid), m), delete_record(rid)
    PROVE  FileOk' /\ num_pages' = num_pages /\ Now(a)'
<1> DEFINE p == rid.page_no
<1>1. /\ rid \notin a.recs /\ m.recs = a.recs \cup {rid} /\ p \in Int
      /\ Prefix(a.list, IF Full(m.recs, p) THEN Push(m.list, p) ELSE m.list)
  BY RidParts DEF Between, Change
<1>2. PICK l \in List : Listed(l) /\ Prefix(m.list, l)
  BY Zenon DEF Now
<1>3. Present = m.recs /\ rid \in Present /\ a.list \in List /\ m.list \in List
  BY <1>1, Zenon DEF Now, Moment
<1> DEFINE k == IF Full(m.recs, p) THEN Push(l, p) ELSE l
<1>4. /\ FileOk' /\ num_pages' = num_pages /\ Present' = m.recs \ {rid}
      /\ k \in List /\ Linked(k, first_free_page_no', page', num_pages')
  BY <1>2, <1>3, DeleteRecord, Zenon
<1>5. Prefix(a.list, k)
  BY <1>1, <1>2, <1>3, Prefixes, PushPop
<1> HIDE DEF k
<1>6. Present' = a.recs
  BY <1>1, <1>4, Zenon
<1>7. Now(a)'
  BY <1>4, <1>5, <1>6, Zenon DEF Now, Listed
<1> QED BY <1>4, <1>7, Zenon

\* insert_record at a given position undoes a DELETE.
LEMMA UndoDelete ==
    ASSUME FileOk, NEW a \in Moment, NEW m \in Moment, NEW rid \in Rid,
           Now(m), Between(a, Change("DELETE", rid), m), ~TooShort(rid), insert_record_at(rid)
    PROVE  FileOk' /\ num_pages' = num_pages /\ Now(a)'
<1> DEFINE p == rid.page_no
<1>1. /\ rid \in a.recs /\ m.recs = a.recs \ {rid} /\ p \in Int
      /\ Full(a.recs, p) => m.list.top <= m.list.bot /\ m.list.at[m.list.top] = p
      /\ Prefix(a.list, IF Full(a.recs, p) THEN Pop(m.list) ELSE m.list)
  BY RidParts DEF Between, Change
<1>2. PICK l \in List : Listed(l) /\ Prefix(m.list, l)
  BY Zenon DEF Now
<1>3. Present = m.recs /\ rid \notin Present /\ a.list \in List /\ m.list \in List
      /\ Present \cup {rid} = a.recs
  BY <1>1, Zenon DEF Now, Moment
<1>4. Full(Present \cup {rid}, p) => first_free_page_no = p
  <2> SUFFICES ASSUME Full(a.recs, p) PROVE first_free_page_no = p
    BY <1>3, Zenon
  <2>1. l.top <= l.bot /\ l.at[l.top] = p
    BY <1>1, <1>2, <1>3, Prefixes, Zenon
  <2> QED BY <1>2, <2>1, Zenon DEF Listed, Linked, Chain, Nth
<1> DEFINE k == IF Full(a.recs, p) THEN Pop(l) ELSE l
<1>5. /\ FileOk' /\ num_pages' = num_pages /\ Present' = a.recs
      /\ k \in List /\ Linked(k, first_free_page_no', page', num_pages')
  BY <1>2, <1>3, <1>4, InsertRecordAt, Zenon
<1>6. Prefix(a.list, k)
  BY <1>1, <1>2, <1>3, Prefixes, PushPop, Zenon
<1> HIDE DEF k
<1>7. Now(a)'
  BY <1>5, <1>6, Zenon DEF Now, Listed
<1> QED BY <1>5, <1>7, Zenon

\* insert_record of the INSERT executor.
LEMMA InsertMoment ==
    ASSUME FileOk, NEW a \in Moment, Now(a), insert_record
    PROVE  /\ FileOk' /\ num_pages <= num_pages'
           /\ cursor' \in Rid /\ cursor'.page_no < num_pages'
           /\ \E m \in Moment : Now(m)' /\ Between(a, Change("INSERT", cursor'), m)
<1>1. PICK l \in List : Listed(l) /\ Prefix(a.list, l)
  BY Zenon DEF Now
<1>2. Present = a.recs /\ a.list \in List /\ num_pages \in Int /\ Present \subseteq Rid
  BY PresentIs DEF Now, Moment, FileOk
<1>3. /\ FileOk' /\ num_pages <= num_pages'
      /\ cursor' \in Rid /\ cursor' \notin Present /\ cursor'.page_no < num_pages'
      /\ Present' = Present \cup {cursor'}
      /\ \E k \in List :
            /\ Linked(k, first_free_page_no', page', num_pages')
            /\ Prefix(l, IF Full(Present', cursor'.page_no) THEN Push(k, cursor'.page_no) ELSE k)
  <2>1. CASE first_free_page_no = NoPage
    BY <1>1, <1>2, <2>1, InsertRecordNew
  <2>2. CASE first_free_page_no # NoPage
    BY <1>1, <1>2, <2>2, InsertRecordOld
  <2> QED BY <2>1, <2>2, Zenon
<1>4. PICK k \in List :
         /\ Linked(k, first_free_page_no', page', num_pages')
         /\ Prefix(l, IF Full(Present', cursor'.page_no) THEN Push(k, cursor'.page_no) ELSE k)
  BY <1>3, Zenon
<1>5. PICK m \in Moment : m.recs = a.recs \cup {cursor'} /\ m.list = k
  <2> DEFINE m == [recs |-> a.recs \cup {cursor'}, list |-> k]
  <2>1. m \in Moment /\ m.recs = a.recs \cup {cursor'} /\ m.list = k
    BY <1>2, <1>3, Zenon DEF Moment
  <2> QED BY <2>1, Zenon
<1>6. cursor'.page_no \in Int
  BY <1>3, RidParts
<1>7. Prefix(a.list, IF Full(m.recs, cursor'.page_no) THEN Push(m.list, cursor'.page_no) ELSE m.list)
  <2>1. (IF Full(m.recs, cursor'.page_no) THEN Push(m.list, cursor'.page_no) ELSE m.list) \in List
    BY <1>4, <1>5, <1>6, PushPop, Zenon
  <2>2. Prefix(l, IF Full(m.recs, cursor'.page_no) THEN Push(m.list, cursor'.page_no) ELSE m.list)
    BY <1>2, <1>3, <1>4, <1>5, Zenon
  <2> QED BY <1>1, <1>2, <1>6, <2>1, <2>2, Prefixes, Zenon
<1>8. Between(a, Change("INSERT", cursor'), m)
  BY <1>2, <1>3, <1>5, <1>7, Zenon DEF Between, Change
<1>9. Prefix(k, k)
  BY <1>4, <1>6, PrefixSelf, Zenon
<1>10. Present' = m.recs /\ \E j \in List : Linked(j, first_free_page_no', page', num_pages')
                                            /\ Prefix(m.list, j)
  BY <1>2, <1>3, <1>4, <1>5, <1>9, Zenon
<1>11. Now(m)'
  BY <1>10, Zenon DEF Now, Listed
<1> QED BY <1>3, <1>5, <1>8, <1>11, Zenon

\* delete_record of the DELETE executor.
LEMMA DeleteMoment ==
    ASSUME FileOk, NEW a \in Moment, Now(a), NEW rid \in Rid, rid \in Present, delete_record(rid)
    PROVE  /\ FileOk' /\ num_pages' = num_pages
           /\ \E m \in Moment : Now(m)' /\ Between(a, Change("DELETE", rid), m)
<1> DEFINE p == rid.page_no
<1>1. PICK l \in List : Listed(l) /\ Prefix(a.list, l)
  BY Zenon DEF Now
<1>2. Present = a.recs /\ a.list \in List /\ p \in Int /\ Present \subseteq Rid
  BY PresentIs, RidParts DEF Now, Moment
<1> DEFINE k == IF Full(a.recs, p) THEN Push(l, p) ELSE l
<1>3. /\ FileOk' /\ num_pages' = num_pages /\ Present' = a.recs \ {rid}
      /\ k \in List /\ Linked(k, first_free_page_no', page', num_pages')
  BY <1>1, <1>2, DeleteRecord, Zenon
<1>4. Full(a.recs, p) => k.top <= k.bot /\ k.at[k.top] = p
  <2> SUFFICES ASSUME Full(a.recs, p) PROVE k.top <= k.bot /\ k.at[k.top] = p
    OBVIOUS
  <2>1. k = Push(l, p)
    OBVIOUS
  <2>2. k.top = l.top - 1 /\ k.bot = l.bot /\ k.at[l.top - 1] = p /\ l.top \in Int /\ l.bot \in Int
    BY <1>2, <2>1, PushPop
  <2>3. l.top <= l.bot + 1
    BY <1>1, Zenon DEF Listed, Linked, Chain
  <2> QED BY <2>2, <2>3
<1>5. Prefix(a.list, IF Full(a.recs, p) THEN Pop(k) ELSE k)
  <2>1. CASE Full(a.recs, p)
    <3>1. Pop(Push(l, p)) \in List /\ Prefix(l, Pop(Push(l, p)))
      BY <1>2, PushPop, PrefixSelf, Zenon
    <3> QED BY <1>1, <1>2, <2>1, <3>1, Prefixes
  <2>2. CASE ~Full(a.recs, p)
    BY <1>1, <2>2, Zenon
  <2> QED BY <2>1, <2>2, Zenon
<1> HIDE DEF k
<1>6. PICK m \in Moment : m.recs = a.recs \ {rid} /\ m.list = k
  <2> DEFINE m == [recs |-> a.recs \ {rid}, list |-> k]
  <2>1. m \in Moment /\ m.recs = a.recs \ {rid} /\ m.list = k
    BY <1>2, <1>3, Zenon DEF Moment
  <2> QED BY <2>1, Zenon
<1>7. Between(a, Change("DELETE", rid), m)
  BY <1>2, <1>4, <1>5, <1>6, Zenon DEF Between, Change
<1>8. Prefix(k, k)
  BY <1>2, <1>3, PrefixSelf, Zenon
<1>9. Now(m)'
  BY <1>3, <1>6, <1>8, Zenon DEF Now, Listed
<1> QED BY <1>3, <1>6, <1>7, <1>9

\* One record of the log in redo or undo.
LEMMA RecoverRecord ==
    ASSUME FileOk, NEW rid \in Rid, NEW there \in BOOLEAN, NEW here, NEW after,
           Recover(rid, there, here, after)
    PROVE  /\ FileOk' /\ num_pages <= num_pages'
           /\ there /\ TooShort(rid) => cursor' = here /\ Present' = Present
           /\ ~(there /\ TooShort(rid)) =>
                 /\ cursor' = after
                 /\ Present' = IF there THEN Present \cup {rid} ELSE Present \ {rid}
<1>1. is_record(rid) <=> rid \in Present
  BY Zenon DEF Present
<1>2. num_pages \in Int /\ rid.page_no \in Int
  BY RidParts DEF FileOk
<1>3. cursor' = IF there /\ TooShort(rid) THEN here ELSE after
  BY Zenon DEF Recover
<1>4. CASE there /\ ~is_record(rid)
  <2>1. insert_record_at(rid)
    BY <1>4, Zenon DEF Recover
  <2>2. CASE TooShort(rid)
    <3>1. create_new_page_handle
      BY <2>1, <2>2, Zenon DEF insert_record_at
    <3>2. FileOk' /\ num_pages' = num_pages + 1 /\ Present' = Present
      BY <3>1, NewPage, Zenon
    <3> QED BY <1>2, <1>3, <1>4, <2>2, <3>2
  <2>3. CASE ~TooShort(rid)
    <3>1. FileOk' /\ num_pages' = num_pages /\ Present' = Present \cup {rid}
      BY <1>1, <1>4, <2>1, <2>3, InsertRecordAt, Zenon
    <3> QED BY <1>2, <1>3, <1>4, <2>3, <3>1
  <2> QED BY <2>2, <2>3, Zenon
<1>5. CASE ~there /\ is_record(rid)
  <2>1. delete_record(rid)
    BY <1>5, Zenon DEF Recover
  <2>2. FileOk' /\ num_pages' = num_pages /\ Present' = Present \ {rid}
    BY <1>1, <1>5, <2>1, DeleteRecord, Zenon
  <2> QED BY <1>2, <1>3, <1>5, <2>2
<1>6. CASE ~(there /\ ~is_record(rid)) /\ ~(~there /\ is_record(rid))
  <2>1. UNCHANGED <<hdrVars, page>>
    BY <1>6, Zenon DEF Recover
  <2>2. FileOk' /\ num_pages' = num_pages /\ Present' = Present
    BY <2>1, Zenon DEF FileOk, Present, is_record, hdrVars
  <2>3. there => ~TooShort(rid)
    BY <1>2, <1>6 DEF is_record, TooShort
  <2> QED BY <1>1, <1>2, <1>3, <1>6, <2>2, <2>3
<1> QED BY <1>4, <1>5, <1>6, Zenon

-----------------------------------------------------------------------------
(* The inductive invariant.                                                *)

Serving == {"up", "insert", "abort", "closing"}

\* The disk and the log.
Stored ==
    /\ PagesOk(disk)
    /\ disk_hdr \in [num_pages : Nat, first_free_page_no : Int] /\ 1 <= disk_hdr.num_pages
    /\ log \in Seq(Changes) /\ base \in 0 .. Len(log)
    /\ committed \subseteq Rid /\ exposed \in BOOLEAN

\* Where the session or recovery is.  Recovery only adds pages to those the
\* header on disk knows; while clients are served, the file has every page the
\* log names.
Place ==
    /\ disk_hdr.num_pages <= num_pages
    /\ mode \in Serving \cup {"redo", "undo", "rebuild", "header", "reset"}
    /\ mode \in Serving => \A i \in 1 .. Len(log) : log[i].rid.page_no < num_pages
    /\ mode = "insert" => cursor \in Rid /\ cursor.page_no < num_pages
    /\ mode = "abort" => cursor \in base .. Len(log)
    /\ mode = "redo" => cursor \in 1 .. Len(log) + 1
    /\ mode = "undo" => cursor \in base .. Len(log)
    /\ mode = "rebuild" => cursor \in 1 .. num_pages
    /\ mode = "reset" => disk_hdr.num_pages = num_pages

\* The moments of the file from the last start, one after each change in the
\* log.
History(tr) ==
    /\ tr \in [0 .. Len(log) -> Moment]
    /\ \A i \in 1 .. Len(log) : Between(tr[i - 1], log[i], tr[i])
    /\ \A rid \in tr[0].recs : rid.page_no < disk_hdr.num_pages
    /\ ~exposed => tr[base].recs = committed

\* The records that redo has passed are as after the last change it has passed.
Redone(tr) ==
    \A rid \in Rid :
        /\ (\E i \in 1 .. cursor - 1 : log[i].rid = rid) =>
              (rid \in Present <=> rid \in tr[cursor - 1].recs)
        /\ (\A i \in 1 .. Len(log) : log[i].rid # rid) =>
              (rid \in Present <=> rid \in tr[0].recs)

\* The moment the file is at.
Link(tr) ==
    /\ mode \in {"up", "closing"} => Now(tr[Len(log)])
    /\ mode = "insert" =>
          \E m \in Moment : Now(m) /\ Between(tr[Len(log)], Change("INSERT", cursor), m)
    /\ mode = "abort" => Now(tr[cursor])
    /\ mode = "redo" /\ ~exposed => Redone(tr)
    /\ mode = "undo" /\ ~exposed => Present = tr[cursor].recs
    /\ mode \in {"rebuild", "header", "reset"} /\ ~exposed => Present = tr[base].recs
    /\ mode = "rebuild" => \E l \in List : Linked(l, first_free_page_no, page, cursor)
    /\ mode \in {"header", "reset"} => \E l \in List : Listed(l)

RInv == FileOk /\ Stored /\ Place /\ \E tr : History(tr) /\ Link(tr)

\* What a change does to the records.
LEMMA BetweenRecs ==
    ASSUME NEW a, NEW b, NEW change \in Changes, Between(a, change, b)
    PROVE  /\ change.rid \in Rid
           /\ change.type = "INSERT" => change.rid \notin a.recs /\ b.recs = a.recs \cup {change.rid}
           /\ change.type # "INSERT" => change.type = "DELETE" /\ change.rid \in a.recs
                                        /\ b.recs = a.recs \ {change.rid}
           /\ \A q : q # change.rid => (q \in b.recs <=> q \in a.recs)
           /\ change = Change(change.type, change.rid)
<1>1. change.type \in {"INSERT", "DELETE"} /\ change.rid \in Rid /\ change = Change(change.type, change.rid)
  BY Zenon DEF Changes, Change
<1>2. CASE change.type = "INSERT"
  BY <1>1, <1>2, Zenon DEF Between
<1>3. CASE change.type = "DELETE"
  BY <1>1, <1>3, Zenon DEF Between
<1> QED BY <1>1, <1>2, <1>3, Zenon

\* A record of the log.
LEMMA LogRecord ==
    ASSUME Stored, NEW tr, History(tr), NEW i \in 1 .. Len(log)
    PROVE  /\ log[i] \in Changes /\ tr[i] \in Moment /\ tr[i - 1] \in Moment
           /\ Between(tr[i - 1], log[i], tr[i])
           /\ i \in Nat /\ i - 1 \in 0 .. Len(log) /\ i \in 0 .. Len(log)
<1>1. log \in Seq(Changes) /\ Len(log) \in Nat
  BY DEF Stored
<1>2. log[i] \in Changes /\ i \in Nat /\ i - 1 \in 0 .. Len(log) /\ i \in 0 .. Len(log)
  BY <1>1
<1>3. tr[i] \in Moment /\ tr[i - 1] \in Moment /\ Between(tr[i - 1], log[i], tr[i])
  BY <1>2, Zenon DEF History
<1> QED BY <1>2, <1>3, Zenon

\* A record that no change in the log is about is in every moment or in none.
LEMMA NeverChanged ==
    ASSUME Stored, NEW tr, History(tr), NEW rid, \A i \in 1 .. Len(log) : log[i].rid # rid
    PROVE  \A i \in 0 .. Len(log) : rid \in tr[i].recs <=> rid \in tr[0].recs
<1> DEFINE S == {i \in 0 .. Len(log) : ~(rid \in tr[i].recs <=> rid \in tr[0].recs)}
<1>1. Len(log) \in Nat
  BY DEF Stored
<1>2. SUFFICES ASSUME S # {} PROVE FALSE
  OBVIOUS
<1>3. S \in SUBSET Nat
  BY <1>1
<1>4. PICK j \in S : \A k \in S : j <= k
  BY <1>2, <1>3, MinLeast, Zenon
<1>5. j \in 1 .. Len(log) /\ j - 1 \in 0 .. Len(log)
  BY <1>1, <1>4
<1>6. j - 1 \notin S
  BY <1>3, <1>4
<1>7. rid \in tr[j - 1].recs <=> rid \in tr[0].recs
  BY <1>5, <1>6, Zenon
<1>8. rid \in tr[j].recs <=> rid \in tr[j - 1].recs
  BY <1>5, BetweenRecs, LogRecord
<1> QED BY <1>4, <1>7, <1>8

\* Steps that leave the pages and the header of the file alone.
LEMMA SameFile ==
    ASSUME UNCHANGED <<hdrVars, page>>
    PROVE  /\ Present' = Present /\ num_pages' = num_pages /\ (FileOk => FileOk')
           /\ \A l : Listed(l) => Listed(l)'
           /\ \A m : Now(m) => Now(m)'
<1>1. /\ num_pages' = num_pages /\ first_free_page_no' = first_free_page_no
      /\ next_page_no' = next_page_no /\ page' = page
  BY Zenon DEF hdrVars
<1>2. Present' = Present
  BY <1>1, Zenon DEF Present, is_record
<1>3. FileOk => FileOk'
  BY <1>1, Zenon DEF FileOk
<1>4. \A l : Listed(l) => Listed(l)'
  BY <1>1, Zenon DEF Listed
<1>5. \A m : Now(m) => Now(m)'
  BY <1>2, <1>4, Zenon DEF Now
<1> QED BY <1>1, <1>2, <1>3, <1>4, <1>5

\* Steps that leave the disk and the log alone.
LEMMA SameHistory ==
    ASSUME UNCHANGED <<logVars, disk_hdr, exposed>>, NEW tr, History(tr)
    PROVE  History(tr)'
BY Zenon DEF History, logVars

\* So do the facts about them.
LEMMA SameStored ==
    ASSUME Stored, UNCHANGED <<diskVars, logVars, exposed>>
    PROVE  Stored'
BY Zenon DEF Stored, diskVars, logVars

\* Steps that leave the file, the log and the position alone.
LEMMA SameLink ==
    ASSUME NEW tr, Link(tr), UNCHANGED <<hdrVars, page>>, UNCHANGED <<log, base, mode, cursor, exposed>>
    PROVE  Link(tr)'
<1>1. Present' = Present /\ first_free_page_no' = first_free_page_no /\ page' = page
  BY SameFile, Zenon DEF hdrVars
<1>2. \A m : Now(m) => Now(m)'
  BY SameFile, Zenon
<1>3. Redone(tr) => Redone(tr)'
  BY <1>1, Zenon DEF Redone
<1>4. \A l : Listed(l) => Listed(l)'
  BY SameFile, Zenon
<1>5. mode \in {"up", "closing"} => Now(tr[Len(log)])'
  <2>1. PICK a : a = tr[Len(log)]
    OBVIOUS
  <2>2. Now(a) => Now(a)'
    BY <1>2, Zenon
  <2> QED BY <2>1, <2>2, Zenon DEF Link
<1>6. mode = "abort" => Now(tr[cursor])'
  <2>1. PICK a : a = tr[cursor]
    OBVIOUS
  <2>2. Now(a) => Now(a)'
    BY <1>2, Zenon
  <2> QED BY <2>1, <2>2, Zenon DEF Link
<1>7. mode = "insert" =>
        \E m \in Moment : Now(m)' /\ Between(tr[Len(log)], Change("INSERT", cursor), m)
  BY <1>2, Zenon DEF Link
<1>8. mode \in {"header", "reset"} => \E l \in List : Listed(l)'
  BY <1>4, Zenon DEF Link
<1>9. mode = "rebuild" => \E l \in List : Linked(l, first_free_page_no', page', cursor')
  BY <1>1, Zenon DEF Link
<1> QED BY <1>1, <1>3, <1>5, <1>6, <1>7, <1>8, <1>9, Zenon DEF Link

\* The first start.
LEMMA InitOk == Init => RInv
<1> SUFFICES ASSUME Init PROVE RInv
  OBVIOUS
<1>1. PageOk(ZeroPage)
  BY FS_EmptySet DEF PageOk, Pages, ZeroPage
<1>2. PagesOk(page) /\ PagesOk(disk)
  BY <1>1, Zenon DEF Init, PagesOk, PageOk
<1>3. FileOk
  BY <1>2, SizeAssumption DEF Init, FileOk, NoPage
<1>4. log \in Seq(Changes) /\ Len(log) = 0
  BY DEF Init
<1>5. Stored
  <2>1. disk_hdr \in [num_pages : Nat, first_free_page_no : Int] /\ 1 <= disk_hdr.num_pages
    BY DEF Init, NoPage
  <2>2. base \in 0 .. Len(log)
    BY <1>4 DEF Init
  <2>3. committed \subseteq Rid /\ exposed \in BOOLEAN
    BY Zenon DEF Init
  <2> QED BY <1>2, <1>4, <2>1, <2>2, <2>3 DEF Stored
<1>16. Place
  BY <1>4 DEF Init, Place, Serving
<1> DEFINE none == [top |-> 0, bot |-> -1, at |-> [k \in Int |-> 0]]
           start == [recs |-> {}, list |-> none]
           tr == [i \in 0 .. 0 |-> start]
<1>6. none \in List /\ none.top = 0 /\ none.bot = -1
  BY DEF List
<1> HIDE DEF none
<1>7. start \in Moment /\ start.recs = {} /\ start.list = none
  BY <1>6, Zenon DEF Moment
<1> HIDE DEF start
<1>8. FreePages(page, num_pages) = {}
  BY DEF Init, FreePages
<1>9. Listed(none)
  <2>1. none.top .. none.bot = {}
    BY <1>6
  <2>2. none.top <= none.bot + 1 /\ first_free_page_no = Nth(none, none.top)
    BY <1>6 DEF Nth, Init
  <2> QED BY <1>8, <2>1, <2>2, Zenon DEF Listed, Linked, Chain
<1>10. Prefix(none, none)
  BY <1>6, PrefixSelf
<1>11. Present = {}
  <2>1. \A rid \in Rid : ~(rid.page_no < num_pages)
    BY RidParts, SizeAssumption DEF Init
  <2> QED BY <2>1, PresentIs, Zenon
<1>12. Now(start)
  BY <1>6, <1>7, <1>9, <1>10, <1>11 DEF Now
<1>13. tr \in [0 .. Len(log) -> Moment] /\ tr[0] = start /\ tr[Len(log)] = start
  BY <1>4, <1>7
<1> HIDE DEF tr
<1>14. History(tr)
  BY <1>4, <1>7, <1>13 DEF History, Init
<1>15. Link(tr)
  BY <1>12, <1>13, Zenon DEF Link, Init
<1> QED BY <1>3, <1>5, <1>14, <1>15, <1>16, Zenon DEF RInv

-----------------------------------------------------------------------------
(* The steps of the session.                                               *)

\* The log, its last moment, and the page numbers in it.
LEMMA Last ==
    ASSUME FileOk, Stored, NEW tr, History(tr)
    PROVE  /\ Len(log) \in Nat /\ base \in Nat /\ base <= Len(log)
           /\ Len(log) \in 0 .. Len(log) /\ tr[Len(log)] \in Moment
           /\ num_pages \in Nat /\ disk_hdr.num_pages \in Nat
           /\ \A i \in 1 .. Len(log) : log[i] \in Changes /\ log[i].rid \in Rid
                                       /\ log[i].rid.page_no \in Nat
<1>1. /\ Len(log) \in Nat /\ base \in Nat /\ base <= Len(log) /\ Len(log) \in 0 .. Len(log)
      /\ num_pages \in Nat /\ disk_hdr.num_pages \in Nat
  BY SizeAssumption DEF Stored, FileOk
<1>2. tr[Len(log)] \in Moment
  BY <1>1, Zenon DEF History
<1>3. ASSUME NEW i \in 1 .. Len(log)
      PROVE  log[i] \in Changes /\ log[i].rid \in Rid /\ log[i].rid.page_no \in Nat
  <2>1. log[i] \in Changes
    BY LogRecord, Zenon
  <2>2. log[i].rid \in Rid
    BY <2>1, Zenon DEF Changes
  <2> QED BY <2>1, <2>2, RidParts
<1> QED BY <1>1, <1>2, <1>3, Zenon

\* InsertExecutor::Next puts a record into the file.
LEMMA InsertOk == ASSUME RInv, Insert PROVE RInv'
<1>1. PICK tr : History(tr) /\ Link(tr)
  BY Zenon DEF RInv
<1>2. FileOk /\ Stored /\ Place
  BY Zenon DEF RInv
<1>3. /\ Len(log) \in Nat /\ num_pages \in Nat /\ disk_hdr.num_pages \in Nat /\ tr[Len(log)] \in Moment
      /\ \A i \in 1 .. Len(log) : log[i].rid.page_no \in Nat
  BY <1>1, <1>2, Last
<1>4. /\ mode = "up" /\ mode' = "insert" /\ insert_record
      /\ UNCHANGED <<diskVars, logVars, countVars>>
  BY Zenon DEF Insert
<1>5. Now(tr[Len(log)])
  BY <1>1, <1>4, Zenon DEF Link
<1>6. /\ FileOk' /\ num_pages <= num_pages'
      /\ cursor' \in Rid /\ cursor'.page_no < num_pages'
      /\ \E m \in Moment : Now(m)' /\ Between(tr[Len(log)], Change("INSERT", cursor'), m)
  BY <1>2, <1>3, <1>4, <1>5, InsertMoment
<1>7. UNCHANGED <<log, base, committed, disk, disk_hdr, exposed>>
  BY <1>4, Zenon DEF logVars, diskVars, countVars
<1>8. Stored' /\ History(tr)'
  BY <1>1, <1>2, <1>4, <1>7, SameStored, SameHistory
<1>9. num_pages' \in Int
  BY <1>6 DEF FileOk
<1>10. Place'
  BY <1>2, <1>3, <1>4, <1>6, <1>7, <1>9 DEF Place, Serving
<1>11. Link(tr)'
  BY <1>4, <1>6, <1>7, Zenon DEF Link
<1> QED BY <1>6, <1>8, <1>10, <1>11 DEF RInv

\* A change is logged: its moment becomes the last one.
LEMMA LogChange ==
    ASSUME Stored, NEW tr, History(tr), NEW change \in Changes, NEW m \in Moment,
           Between(tr[Len(log)], change, m),
           log' = Append(log, change), UNCHANGED <<base, committed, disk, disk_hdr, exposed>>
    PROVE  /\ Stored' /\ Len(log') = Len(log) + 1 /\ log'[Len(log) + 1] = change
           /\ \A i \in 1 .. Len(log) : log'[i] = log[i]
           /\ \E tr2 : History(tr2)' /\ tr2[Len(log) + 1] = m
<1>1. log \in Seq(Changes) /\ Len(log) \in Nat /\ base \in 0 .. Len(log)
  BY DEF Stored
<1>2. /\ log' \in Seq(Changes) /\ Len(log') = Len(log) + 1 /\ log'[Len(log) + 1] = change
      /\ \A i \in 1 .. Len(log) : log'[i] = log[i]
  BY <1>1
<1>3. Stored'
  <2>1. base' \in 0 .. Len(log')
    BY <1>1, <1>2
  <2> QED BY <1>2, <2>1, Zenon DEF Stored
<1>4. PICK tr2 : tr2 = [i \in 0 .. Len(log) + 1 |-> IF i = Len(log) + 1 THEN m ELSE tr[i]]
  BY Zenon
<1>5. \A i \in 0 .. Len(log) : tr2[i] = tr[i] /\ tr[i] \in Moment
  BY <1>1, <1>4 DEF History
<1>6. tr2[Len(log) + 1] = m
  BY <1>1, <1>4
<1>7. tr2 \in [0 .. Len(log') -> Moment]
  <2>1. \A i \in 0 .. Len(log) + 1 : i = Len(log) + 1 \/ i \in 0 .. Len(log)
    BY <1>1
  <2> QED BY <1>2, <1>4, <1>5, <1>6, <2>1
<1>8. ASSUME NEW i \in 1 .. Len(log') PROVE Between(tr2[i - 1], log'[i], tr2[i])
  <2>1. CASE i = Len(log) + 1
    <3>1. tr2[i - 1] = tr[Len(log)]
      BY <1>1, <1>5, <2>1
    <3> QED BY <1>2, <1>6, <2>1, <3>1
  <2>2. CASE i # Len(log) + 1
    <3>1. i \in 1 .. Len(log) /\ i - 1 \in 0 .. Len(log) /\ i \in 0 .. Len(log)
      BY <1>1, <1>2, <2>2
    <3>2. tr2[i - 1] = tr[i - 1] /\ tr2[i] = tr[i] /\ log'[i] = log[i]
      BY <1>2, <1>5, <3>1, Zenon
    <3> QED BY <3>1, <3>2, Zenon DEF History
  <2> QED BY <2>1, <2>2, Zenon
<1>9. tr2[0] = tr[0] /\ tr2[base] = tr[base]
  BY <1>1, <1>5
<1>10. History(tr2)'
  BY <1>7, <1>8, <1>9, Zenon DEF History
<1> QED BY <1>2, <1>3, <1>6, <1>10

\* InsertExecutor::Next logs the record.
LEMMA InsertLogOk == ASSUME RInv, InsertLog PROVE RInv'
<1>1. PICK tr : History(tr) /\ Link(tr)
  BY Zenon DEF RInv
<1>2. FileOk /\ Stored /\ Place
  BY Zenon DEF RInv
<1>3. /\ Len(log) \in Nat /\ num_pages \in Nat /\ tr[Len(log)] \in Moment
  BY <1>1, <1>2, Last, Zenon
<1>4. /\ mode = "insert" /\ mode' = "up" /\ log' = Append(log, Change("INSERT", cursor))
      /\ UNCHANGED <<hdrVars, page>> /\ UNCHANGED <<base, committed, disk, disk_hdr, exposed>>
  BY Zenon DEF InsertLog, diskVars, countVars
<1>5. PICK m \in Moment : Now(m) /\ Between(tr[Len(log)], Change("INSERT", cursor), m)
  BY <1>1, <1>4, Zenon DEF Link
<1>6. cursor \in Rid /\ cursor.page_no < num_pages
  BY <1>2, <1>4, Zenon DEF Place
<1>7. Change("INSERT", cursor) \in Changes /\ Change("INSERT", cursor).rid = cursor
  BY <1>6, Zenon DEF Change, Changes
<1>8. /\ Stored' /\ Len(log') = Len(log) + 1 /\ log'[Len(log) + 1] = Change("INSERT", cursor)
      /\ \A i \in 1 .. Len(log) : log'[i] = log[i]
      /\ \E tr2 : History(tr2)' /\ tr2[Len(log) + 1] = m
  BY <1>1, <1>2, <1>4, <1>5, <1>7, LogChange
<1>9. FileOk' /\ Now(m)' /\ num_pages' = num_pages
  BY <1>2, <1>4, <1>5, SameFile, Zenon
<1>10. PICK tr2 : History(tr2)' /\ tr2[Len(log) + 1] = m
  BY <1>8, Zenon
<1>11. Link(tr2)'
  BY <1>4, <1>8, <1>9, <1>10, Zenon DEF Link
<1>12. \A i \in 1 .. Len(log') : log'[i].rid.page_no < num_pages'
  <2>1. \A i \in 1 .. Len(log') : i = Len(log) + 1 \/ i \in 1 .. Len(log)
    BY <1>3, <1>8
  <2>2. \A i \in 1 .. Len(log) : log[i].rid.page_no < num_pages
    BY <1>2, <1>4, Zenon DEF Place, Serving
  <2> QED BY <1>6, <1>7, <1>8, <1>9, <2>1, <2>2
<1>13. Place'
  BY <1>2, <1>4, <1>9, <1>12 DEF Place, Serving
<1> QED BY <1>8, <1>9, <1>10, <1>11, <1>13 DEF RInv

\* A unique index refuses the record.
LEMMA InsertRefusedOk == ASSUME RInv, InsertRefused PROVE RInv'
<1>1. PICK tr : History(tr) /\ Link(tr)
  BY Zenon DEF RInv
<1>2. FileOk /\ Stored /\ Place
  BY Zenon DEF RInv
<1>3. tr[Len(log)] \in Moment
  BY <1>1, <1>2, Last, Zenon
<1>4. /\ mode = "insert" /\ mode' = "up" /\ delete_record(cursor)
      /\ UNCHANGED <<diskVars, logVars, countVars>>
  BY Zenon DEF InsertRefused
<1>5. PICK m \in Moment : Now(m) /\ Between(tr[Len(log)], Change("INSERT", cursor), m)
  BY <1>1, <1>4, Zenon DEF Link
<1>6. cursor \in Rid
  BY <1>2, <1>4, Zenon DEF Place
<1>7. PICK a \in Moment : a = tr[Len(log)]
  BY <1>3, Zenon
<1>8. FileOk' /\ num_pages' = num_pages /\ Now(a)'
  BY <1>2, <1>4, <1>5, <1>6, <1>7, UndoInsert
<1>9. UNCHANGED <<log, base, committed, disk, disk_hdr, exposed>>
  BY <1>4, Zenon DEF logVars, diskVars, countVars
<1>10. Stored' /\ History(tr)'
  BY <1>1, <1>2, <1>4, <1>9, SameStored, SameHistory
<1>11. Link(tr)'
  BY <1>4, <1>7, <1>8, <1>9 DEF Link
<1>12. Place'
  BY <1>2, <1>4, <1>8, <1>9 DEF Place, Serving
<1> QED BY <1>8, <1>10, <1>11, <1>12 DEF RInv

\* DeleteExecutor::Next.
LEMMA DeleteOk == ASSUME RInv, NEW rid \in Rid, Delete(rid) PROVE RInv'
<1>1. PICK tr : History(tr) /\ Link(tr)
  BY Zenon DEF RInv
<1>2. FileOk /\ Stored /\ Place
  BY Zenon DEF RInv
<1>3. /\ Len(log) \in Nat /\ num_pages \in Nat /\ tr[Len(log)] \in Moment
  BY <1>1, <1>2, Last
<1>4. /\ mode = "up" /\ mode' = "up" /\ log' = Append(log, Change("DELETE", rid))
      /\ is_record(rid) /\ delete_record(rid)
      /\ UNCHANGED <<base, committed, disk, disk_hdr, exposed>>
  BY Zenon DEF Delete, diskVars, countVars
<1>5. Now(tr[Len(log)])
  BY <1>1, <1>4 DEF Link
<1>6. rid \in Present /\ rid.page_no < num_pages
  BY <1>4, Zenon DEF Present, is_record
<1>7. Change("DELETE", rid) \in Changes /\ Change("DELETE", rid).rid = rid
  BY Zenon DEF Change, Changes
<1>8. /\ FileOk' /\ num_pages' = num_pages
      /\ \E m \in Moment : Now(m)' /\ Between(tr[Len(log)], Change("DELETE", rid), m)
  BY <1>2, <1>3, <1>4, <1>5, <1>6, DeleteMoment
<1>9. PICK m \in Moment : Now(m)' /\ Between(tr[Len(log)], Change("DELETE", rid), m)
  BY <1>8, Zenon
<1>10. /\ Stored' /\ Len(log') = Len(log) + 1 /\ log'[Len(log) + 1] = Change("DELETE", rid)
       /\ \A i \in 1 .. Len(log) : log'[i] = log[i]
       /\ \E tr2 : History(tr2)' /\ tr2[Len(log) + 1] = m
  BY <1>1, <1>2, <1>4, <1>7, <1>9, LogChange, Zenon
<1>11. PICK tr2 : History(tr2)' /\ tr2[Len(log) + 1] = m
  BY <1>10
<1>12. Link(tr2)'
  BY <1>4, <1>9, <1>10, <1>11, Zenon DEF Link
<1>13. \A i \in 1 .. Len(log') : log'[i].rid.page_no < num_pages'
  <2>1. \A i \in 1 .. Len(log') : i = Len(log) + 1 \/ i \in 1 .. Len(log)
    BY <1>3, <1>10
  <2>2. \A i \in 1 .. Len(log) : log[i].rid.page_no < num_pages
    BY <1>2, <1>4 DEF Place, Serving
  <2> QED BY <1>6, <1>7, <1>8, <1>10, <2>1, <2>2, Zenon
<1>14. Place'
  BY <1>2, <1>4, <1>8, <1>13 DEF Place, Serving
<1> QED BY <1>8, <1>10, <1>11, <1>12, <1>14 DEF RInv

\* The commit: the file is as at the last moment, which becomes the base.
LEMMA CommitOk == ASSUME RInv, commit PROVE RInv'
<1>1. PICK tr : History(tr) /\ Link(tr)
  BY Zenon DEF RInv
<1>2. FileOk /\ Stored /\ Place
  BY Zenon DEF RInv
<1>3. Len(log) \in Nat /\ Len(log) \in 0 .. Len(log)
  BY <1>1, <1>2, Last
<1>4. /\ mode = "up" /\ mode' = mode /\ base' = Len(log) /\ committed' = Present
      /\ UNCHANGED <<hdrVars, page>> /\ UNCHANGED <<log, disk, disk_hdr, exposed, cursor>>
  BY Zenon DEF commit, diskVars, countVars
<1>5. Now(tr[Len(log)])
  BY <1>1, <1>4 DEF Link
<1>6. Present = tr[Len(log)].recs /\ Present \subseteq Rid
  BY <1>5, PresentIs DEF Now
<1>7. FileOk' /\ num_pages' = num_pages
  BY <1>2, <1>4, SameFile
<1>8. Stored'
  BY <1>2, <1>3, <1>4, <1>6 DEF Stored
<1>9. History(tr)'
  BY <1>1, <1>4, <1>6 DEF History
<1>10. PICK a : a = tr[Len(log)]
  OBVIOUS
<1>11. Now(a)'
  BY <1>4, <1>5, <1>10, SameFile, Zenon
<1>12. Link(tr)'
  BY <1>4, <1>10, <1>11 DEF Link
<1>13. Place'
  BY <1>2, <1>4, <1>7 DEF Place, Serving
<1> QED BY <1>7, <1>8, <1>9, <1>12, <1>13 DEF RInv

\* The rollback begins.
LEMMA AbortOk == ASSUME RInv, abort PROVE RInv'
<1>1. PICK tr : History(tr) /\ Link(tr)
  BY Zenon DEF RInv
<1>2. FileOk /\ Stored /\ Place
  BY Zenon DEF RInv
<1>3. Len(log) \in Nat /\ base \in Nat /\ base <= Len(log)
  BY <1>1, <1>2, Last
<1>4. /\ mode = "up" /\ mode' = "abort" /\ cursor' = Len(log)
      /\ UNCHANGED <<hdrVars, page>> /\ UNCHANGED <<diskVars, logVars, countVars>>
  BY Zenon DEF abort
<1>5. Now(tr[Len(log)])
  BY <1>1, <1>4 DEF Link
<1>6. UNCHANGED <<log, base, committed, disk, disk_hdr, exposed>>
  BY <1>4, Zenon DEF logVars, diskVars, countVars
<1>7. FileOk' /\ num_pages' = num_pages
  BY <1>2, <1>4, SameFile
<1>8. Stored' /\ History(tr)'
  BY <1>1, <1>2, <1>4, <1>6, SameStored, SameHistory
<1>9. PICK a : a = tr[Len(log)]
  OBVIOUS
<1>10. Now(a)'
  BY <1>4, <1>5, <1>9, SameFile, Zenon
<1>11. Link(tr)'
  BY <1>4, <1>9, <1>10 DEF Link
<1>12. Place'
  BY <1>2, <1>3, <1>4, <1>6, <1>7 DEF Place, Serving
<1> QED BY <1>7, <1>8, <1>11, <1>12 DEF RInv

\* One change is undone: the file is as at the moment before it.
LEMMA AbortUndoOk == ASSUME RInv, AbortUndo PROVE RInv'
<1>1. PICK tr : History(tr) /\ Link(tr)
  BY Zenon DEF RInv
<1>2. FileOk /\ Stored /\ Place
  BY Zenon DEF RInv
<1>3. /\ Len(log) \in Nat /\ base \in Nat /\ base <= Len(log) /\ num_pages \in Nat
      /\ \A i \in 1 .. Len(log) : log[i].rid.page_no \in Nat
  BY <1>1, <1>2, Last
<1>4. /\ mode = "abort" /\ mode' = "abort" /\ cursor > base /\ cursor' = cursor - 1
      /\ \/ log[cursor].type = "INSERT" /\ delete_record(log[cursor].rid)
         \/ log[cursor].type = "DELETE" /\ insert_record_at(log[cursor].rid)
      /\ UNCHANGED <<diskVars, logVars, countVars>>
  BY Zenon DEF AbortUndo
<1>5. cursor \in 1 .. Len(log) /\ Now(tr[cursor])
  BY <1>1, <1>2, <1>3, <1>4 DEF Link, Place
<1>6. /\ log[cursor] \in Changes /\ tr[cursor] \in Moment /\ tr[cursor - 1] \in Moment
      /\ Between(tr[cursor - 1], log[cursor], tr[cursor])
  BY <1>1, <1>2, <1>5, LogRecord
<1>7. PICK rid \in Rid : rid = log[cursor].rid
  BY <1>6, Zenon DEF Changes
<1>8. PICK a \in Moment : a = tr[cursor - 1]
  BY <1>6, Zenon
<1>9. PICK m \in Moment : m = tr[cursor]
  BY <1>6, Zenon
<1>10. ~TooShort(rid)
  <2>1. log[cursor].rid.page_no < num_pages /\ log[cursor].rid.page_no \in Nat
    BY <1>2, <1>3, <1>4, <1>5 DEF Place, Serving
  <2> QED BY <1>3, <1>7, <2>1 DEF TooShort
<1>11. FileOk' /\ num_pages' = num_pages /\ Now(a)'
  <2>1. CASE log[cursor].type = "INSERT"
    <3>1. Between(a, Change("INSERT", rid), m) /\ delete_record(rid)
      BY <1>4, <1>6, <1>7, <1>8, <1>9, <2>1, BetweenRecs
    <3> QED BY <1>2, <1>5, <1>9, <3>1, UndoInsert
  <2>2. CASE log[cursor].type # "INSERT"
    <3>1. Between(a, Change("DELETE", rid), m) /\ insert_record_at(rid)
      BY <1>4, <1>6, <1>7, <1>8, <1>9, <2>2, BetweenRecs
    <3> QED BY <1>2, <1>5, <1>9, <1>10, <3>1, UndoDelete
  <2> QED BY <2>1, <2>2
<1>12. UNCHANGED <<log, base, committed, disk, disk_hdr, exposed>>
  BY <1>4, Zenon DEF logVars, diskVars, countVars
<1>13. Stored' /\ History(tr)'
  BY <1>1, <1>2, <1>4, <1>12, SameStored, SameHistory, Zenon
<1>14. Link(tr)'
  BY <1>4, <1>8, <1>11 DEF Link
<1>15. Place'
  BY <1>2, <1>3, <1>4, <1>5, <1>11, <1>12 DEF Place, Serving
<1> QED BY <1>11, <1>13, <1>14, <1>15 DEF RInv

\* The ABORT record takes the changes of the transaction out of the log.
LEMMA AbortLogOk == ASSUME RInv, AbortLog PROVE RInv'
<1>1. PICK tr : History(tr) /\ Link(tr)
  BY Zenon DEF RInv
<1>2. FileOk /\ Stored /\ Place
  BY Zenon DEF RInv
<1>3. Len(log) \in Nat /\ base \in Nat /\ base <= Len(log) /\ log \in Seq(Changes)
  BY <1>1, <1>2, Last, Zenon DEF Stored
<1>4. /\ mode = "abort" /\ mode' = "up" /\ cursor = base /\ log' = SubSeq(log, 1, base)
      /\ UNCHANGED <<hdrVars, page>> /\ UNCHANGED <<base, committed, disk, disk_hdr, exposed>>
  BY Zenon DEF AbortLog, diskVars, countVars
<1>5. log' \in Seq(Changes) /\ Len(log') = base /\ \A i \in 1 .. base : log'[i] = log[i]
  BY <1>3, <1>4
<1>6. Now(tr[base])
  BY <1>1, <1>4, Zenon DEF Link
<1>7. FileOk' /\ num_pages' = num_pages
  BY <1>2, <1>4, SameFile
<1>8. Stored'
  BY <1>2, <1>3, <1>4, <1>5 DEF Stored
<1>9. PICK tr2 : tr2 = [i \in 0 .. base |-> tr[i]]
  BY Zenon
<1>10. \A i \in 0 .. base : tr2[i] = tr[i] /\ tr[i] \in Moment
  BY <1>1, <1>3, <1>9 DEF History
<1>11. History(tr2)'
  <2>1. tr2 \in [0 .. Len(log') -> Moment]
    BY <1>5, <1>9, <1>10
  <2>2. ASSUME NEW i \in 1 .. Len(log') PROVE Between(tr2[i - 1], log'[i], tr2[i])
    <3>1. i \in 1 .. Len(log) /\ i - 1 \in 0 .. base /\ i \in 0 .. base /\ i \in 1 .. base
      BY <1>3, <1>5
    <3>2. tr2[i - 1] = tr[i - 1] /\ tr2[i] = tr[i] /\ log'[i] = log[i]
      BY <1>5, <1>10, <3>1, Zenon
    <3> QED BY <1>1, <3>1, <3>2, Zenon DEF History
  <2>3. tr2[0] = tr[0] /\ tr2[base] = tr[base]
    BY <1>3, <1>10
  <2> QED BY <1>1, <1>4, <2>1, <2>2, <2>3, Zenon DEF History
<1>12. PICK a : a = tr[base]
  OBVIOUS
<1>13. Now(a)'
  BY <1>4, <1>6, <1>12, SameFile, Zenon
<1>14. tr2[Len(log')] = a
  BY <1>3, <1>5, <1>10, <1>12
<1>15. Link(tr2)'
  BY <1>4, <1>13, <1>14 DEF Link
<1>16. \A i \in 1 .. Len(log') : log'[i].rid.page_no < num_pages'
  BY <1>2, <1>3, <1>4, <1>5, <1>7 DEF Place, Serving
<1>17. Place'
  BY <1>2, <1>4, <1>7, <1>16 DEF Place, Serving
<1> QED BY <1>7, <1>8, <1>11, <1>15, <1>17 DEF RInv
=============================================================================
