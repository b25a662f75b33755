------------------------------- MODULE BTree -------------------------------
(***************************************************************************)
(* The B+ tree of a unique index (index/ix_index_handle.cpp) and range     *)
(* scans over it (index/ix_scan.cpp).  An index is used under the table    *)
(* lock of its table, X for a change and S for a scan, so an insert, a     *)
(* delete and a whole scan are each one step.                              *)
(*                                                                         *)
(* The rid of an entry moves with its key in every operation and is left   *)
(* out.  Positions in a node (slot_no) start at 0, as in the code.         *)
(***************************************************************************)
EXTENDS Integers, Sequences, SequencesExt, FiniteSets

CONSTANTS
    Key,       \* values of the indexed columns
    Order,     \* btree_order_: entries of a node
    MaxNodes   \* bound: pages of the index

ASSUME KeyAssumption == Key \subseteq Int
ASSUME OrderAssumption == Order \in Nat /\ Order > 2 /\ MaxNodes \in Nat

MaxSize == Order + 1

NoPage == -1          \* IX_NO_PAGE
LeafHeader == 1       \* IX_LEAF_HEADER_PAGE
FirstLeaf == 2        \* IX_INIT_ROOT_PAGE; splits never change first_leaf_

VARIABLES
    ix,      \* the file: node (per page), root_page and last_leaf
    content  \* history: keys inserted and not deleted

vars == <<ix, content>>

EmptyLeaf ==
    [is_leaf |-> TRUE, parent |-> NoPage, keys |-> <<>>, child |-> <<>>,
     prev_leaf |-> LeafHeader, next_leaf |-> LeafHeader]

\* The file IxManager::create_index writes.
create_index ==
    [node |-> [p \in {FirstLeaf} |-> EmptyLeaf], root_page |-> FirstLeaf, last_leaf |-> FirstLeaf]

\* create_node: pages are never given back, so the next number is fresh.
NewPage(t) == FirstLeaf + Cardinality(DOMAIN t.node)

-----------------------------------------------------------------------------
(* IxNodeHandle.                                                           *)

\* The loop of both searches: the first position where before is false.
Bisect(before, n) ==
    LET loop[left \in 0 .. n, right \in 0 .. n] ==
            IF left < right
            THEN LET mid == (left + right) \div 2
                 IN  IF before[mid] THEN loop[mid + 1, right] ELSE loop[left, mid]
            ELSE left
    IN  loop[0, n]

lower_bound(node, k) ==
    Bisect([i \in 0 .. Len(node.keys) - 1 |-> node.keys[i + 1] < k], Len(node.keys))

\* Faulty variant: equal keys are not skipped.
UpperAsLower(node, k) == lower_bound(node, k)

upper_bound(node, k) ==
    Bisect([i \in 0 .. Len(node.keys) - 1 |-> node.keys[i + 1] <= k], Len(node.keys))

leaf_lookup(node, k) ==
    LET pos == lower_bound(node, k) IN pos < Len(node.keys) /\ node.keys[pos + 1] = k

internal_lookup(node, k) ==
    LET pos == upper_bound(node, k) - 1 IN node.child[(IF pos < 0 THEN 0 ELSE pos) + 1]

\* find_child asserts that there is one.
find_child(node, p) == (CHOOSE i \in DOMAIN node.child : node.child[i] = p) - 1

-----------------------------------------------------------------------------
(* Search and insertion.                                                   *)

find_leaf_page(t, k) ==
    LET descend[p \in DOMAIN t.node] ==
            IF t.node[p].is_leaf THEN p ELSE descend[internal_lookup(t.node[p], k)]
    IN  descend[t.root_page]

get_value(t, k) == leaf_lookup(t.node[find_leaf_page(t, k)], k)

Half(n) == Len(n.keys) \div 2

\* Faulty variant: the children that move keep their parent.
NoneMoved(n) == {}

\* The children whose parent pointer split changes with maintain_child.
MovedChildren(n) == IF n.is_leaf THEN {} ELSE ToSet(SubSeq(n.child, Half(n) + 1, Len(n.child)))

LastLeafAfter(t, p, q) == IF t.node[p].is_leaf /\ t.last_leaf = p THEN q ELSE t.last_leaf

\* split moves the upper half of page p to a new page q on its right.  (The
\* leaf links of a new inner page are never set in the code and never read.)
split(t, p) ==
    LET n == t.node[p]
        q == NewPage(t)
        left == [n EXCEPT !.keys = SubSeq(@, 1, Half(n)),
                          !.next_leaf = IF n.is_leaf THEN q ELSE @,
                          !.child = IF n.is_leaf THEN @ ELSE SubSeq(@, 1, Half(n))]
        right == [n EXCEPT !.keys = SubSeq(@, Half(n) + 1, Len(@)), !.prev_leaf = p,
                           !.child = IF n.is_leaf THEN @ ELSE SubSeq(@, Half(n) + 1, Len(@))]
    IN  [t EXCEPT
          !.node = [r \in DOMAIN t.node \cup {q} |->
              IF r = p THEN left
              ELSE IF r = q THEN right
              ELSE IF n.is_leaf /\ r = n.next_leaf THEN [t.node[r] EXCEPT !.prev_leaf = q]
              ELSE IF r \in MovedChildren(n) THEN [t.node[r] EXCEPT !.parent = q]
              ELSE t.node[r]],
          !.last_leaf = LastLeafAfter(t, p, q)]

\* A new root over the two halves of the old one.
NewRoot(t, old, new) ==
    LET r == NewPage(t)
        root == [EmptyLeaf EXCEPT !.is_leaf = FALSE, !.child = <<old, new>>,
                    !.keys = <<t.node[old].keys[1], t.node[new].keys[1]>>]
    IN  [t EXCEPT !.root_page = r,
                  !.node = [p \in DOMAIN t.node \cup {r} |->
                      IF p = r THEN root
                      ELSE IF p \in {old, new} THEN [t.node[p] EXCEPT !.parent = r]
                      ELSE t.node[p]]]

\* The entry for the new node goes to the parent, behind the old node.
Adopt(t, old, new) ==
    LET parent == t.node[old].parent
        pos == find_child(t.node[parent], old) + 1
    IN  [t EXCEPT !.node[parent].keys = InsertAt(@, pos + 1, t.node[new].keys[1]),
                  !.node[parent].child = InsertAt(@, pos + 1, new),
                  !.node[new].parent = parent]

RECURSIVE insert_into_parent(_, _, _)
insert_into_parent(t, old, new) ==
    IF t.node[old].parent = NoPage
    THEN NewRoot(t, old, new)
    ELSE LET parent == t.node[old].parent
             adopted == Adopt(t, old, new)
         IN  IF Len(adopted.node[parent].keys) >= MaxSize
             THEN insert_into_parent(split(adopted, parent), parent, NewPage(adopted))
             ELSE adopted

\* maintain_parent: the first key of page p is copied upwards until a copy
\* is found to be right.
RECURSIVE maintain_parent(_, _)
maintain_parent(t, p) ==
    LET n == t.node[p]
    IN  IF n.parent = NoPage THEN t
        ELSE LET rank == find_child(t.node[n.parent], p) + 1
             IN  IF t.node[n.parent].keys[rank] = n.keys[1] THEN t
                 ELSE maintain_parent([t EXCEPT !.node[n.parent].keys[rank] = n.keys[1]], n.parent)

\* The file after insert_entry; a key that is there is left alone.
Inserted(t, k) ==
    LET p == find_leaf_page(t, k)
        pos == lower_bound(t.node[p], k)
        put == [t EXCEPT !.node[p].keys = InsertAt(@, pos + 1, k)]
    IN  IF leaf_lookup(t.node[p], k) THEN t
        ELSE IF Len(put.node[p].keys) >= MaxSize
        THEN insert_into_parent(split(put, p), p, NewPage(put))
        ELSE maintain_parent(put, p)

\* The file after delete_entry, which merges nothing: a leaf may stay empty.
Deleted(t, k) ==
    LET p == find_leaf_page(t, k)
        pos == lower_bound(t.node[p], k)
        cut == [t EXCEPT !.node[p].keys = RemoveAt(@, pos + 1)]
    IN  IF ~leaf_lookup(t.node[p], k) THEN t
        ELSE IF cut.node[p].keys # <<>> /\ pos = 0 THEN maintain_parent(cut, p)
        ELSE cut

-----------------------------------------------------------------------------
(* Range scans.                                                            *)

Iid(page_no, slot_no) == [page_no |-> page_no, slot_no |-> slot_no]

\* Faulty variant: the position behind the last entry of a leaf is kept.
NotSkipping(t, iid) == iid

\* The loop that ends IxIndexHandle::lower_bound and upper_bound: a position
\* behind the last entry of a leaf moves to the next leaf that has entries.
RECURSIVE SkipEmpty(_, _)
SkipEmpty(t, iid) ==
    LET n == t.node[iid.page_no]
    IN  IF iid.slot_no = Len(n.keys) /\ iid.page_no # t.last_leaf
        THEN SkipEmpty(t, Iid(n.next_leaf, 0))
        ELSE iid

LowerIid(t, k) ==
    LET p == find_leaf_page(t, k) IN SkipEmpty(t, Iid(p, lower_bound(t.node[p], k)))

UpperIid(t, k) ==
    LET p == find_leaf_page(t, k) IN SkipEmpty(t, Iid(p, upper_bound(t.node[p], k)))

\* IxScan::next looks at one leaf only.
next(t, iid) ==
    LET n == t.node[iid.page_no]
    IN  IF iid.page_no # t.last_leaf /\ iid.slot_no + 1 = Len(n.keys)
        THEN Iid(n.next_leaf, 0)
        ELSE Iid(iid.page_no, iid.slot_no + 1)

\* The keys an IxScan delivers from iid to end, and whether it gets there: at
\* a position without an entry get_rid throws IndexEntryNotFoundError.
RECURSIVE ScanFrom(_, _, _)
ScanFrom(t, iid, end) ==
    IF iid = end THEN [keys |-> <<>>, stuck |-> NoPage]
    ELSE IF iid.slot_no >= Len(t.node[iid.page_no].keys)
    THEN [keys |-> <<>>, stuck |-> iid.page_no]
    ELSE LET rest == ScanFrom(t, next(t, iid), end)
         IN  [rest EXCEPT !.keys = <<t.node[iid.page_no].keys[iid.slot_no + 1]>> \o @]

\* The scan of IndexScanExecutor over the keys from lo to hi.
IndexScan(t, lo, hi) == ScanFrom(t, LowerIid(t, lo), UpperIid(t, hi))

-----------------------------------------------------------------------------
Init == ix = create_index /\ content = {}

insert_entry(k) ==
    /\ ix' = Inserted(ix, k)
    /\ content' = content \cup {k}
    /\ Cardinality(DOMAIN ix'.node) <= MaxNodes

delete_entry(k) ==
    /\ ix' = Deleted(ix, k)
    /\ content' = content \ {k}

Next == \E k \in Key : insert_entry(k) \/ delete_entry(k)

Spec == Init /\ [][Next]_vars

-----------------------------------------------------------------------------
(* Properties.                                                             *)

\* The elements of a set of keys in ascending order.
InOrder(S) ==
    [i \in 1 .. Cardinality(S) |->
        CHOOSE k \in S : Cardinality({j \in S : j < k}) = i - 1]

\* get_value finds exactly the keys that were inserted and not deleted, so
\* the uniqueness check of the executors is right after any history of
\* splits, emptied leaves and moved separators.
LookupExact == \A k \in Key : get_value(ix, k) <=> k \in content

\* Parent and child pointers are inverse: the assertion of find_child holds
\* wherever insert_into_parent and maintain_parent climb from.
ParentExact ==
    \A p, q \in DOMAIN ix.node :
        (ix.node[p].parent = q) <=> (p \in ToSet(ix.node[q].child))

InRange(lo, hi) == {k \in content : lo <= k /\ k <= hi}

\* A range scan delivers the keys of the range in order, without gap or
\* repetition; it stops early only by an exception at a leaf that deletes
\* have emptied, and then it has delivered what lies before that leaf.
ScanExactUnlessStuck ==
    \A lo, hi \in Key : lo <= hi =>
        LET scan == IndexScan(ix, lo, hi)
            all == InOrder(InRange(lo, hi))
        IN  IF scan.stuck = NoPage THEN scan.keys = all
            ELSE ix.node[scan.stuck].keys = <<>> /\ IsPrefix(scan.keys, all)

=============================================================================
